--------------------------- MODULE DashboardProofs --------------------------
(***************************************************************************)
(* What the dashboard keeps: who may use it, the sign-ins it helps with,   *)
(* the tests of accounts, the model catalogue, the file of the route list  *)
(* and the log of requests, for every number of addresses, sign-ins,       *)
(* clicks, page loads and requests, every length of the bans and of a      *)
(* sign-in's life, and every size of the log.                              *)
(***************************************************************************)
EXTENDS SignIn, LoginFlows, Probes, Catalogue, RouteList, RequestLog, CommonProofs,
        FiniteSetTheorems, TLAPS

-----------------------------------------------------------------------------
(* Sessions end with a logout and not before.                              *)

Jobs ==
  {Idle} \cup [at : {"verifying"}, addr : Addrs]
         \cup [at : {"starting a session", "signing out"}]
         \cup [at : {"signing"}, secret : Nat, exp : Int]

(* What the store holds; the bans are of no concern here. *)
Shaped(data) ==
  /\ data = [bans |-> data.bans, epoch |-> data.epoch, secret |-> data.secret]
  /\ data.epoch \in Nat
  /\ data.secret \in Nat

Shapes ==
  /\ now \in Nat /\ secrets \in Nat
  /\ Shaped(mem) /\ Shaped(disk)
  /\ job \in [Handlers -> Jobs]
  /\ behind \in BOOLEAN /\ forgot \in BOOLEAN

(* The file is as the last save left it. *)
AsSaved == ~behind => disk = mem

Signing(h) == job[h].at = "signing"

(* A request that is about to sign holds the current secret. *)
SignsWell == \A h \in Handlers : Signing(h) => job[h].secret = mem.secret /\ mem.secret # NoSecret

(* A cookie is of the current secret; it is of the current epoch unless    *)
(* somebody has signed out since it was issued.                            *)
Fits(c) ==
  /\ mem.secret # NoSecret
  /\ c.secret = mem.secret
  /\ c.epoch \in Nat /\ c.epoch <= mem.epoch
  /\ c.ended \in BOOLEAN
  /\ c.ended <=> c.epoch < mem.epoch

CookiesFit == \A c \in cookies : Fits(c)

(* A restart from a file that was behind may bring back an old epoch or    *)
(* lose the secret; until then every cookie fits.                          *)
Generations == ~forgot => SignsWell /\ CookiesFit

SessionsInv == Shapes /\ AsSaved /\ Generations

LEMMA InitSessions == SignInInit => SessionsInv
<1> SUFFICES ASSUME SignInInit PROVE SessionsInv
  OBVIOUS
<1>1. Shaped(mem) /\ disk = mem
  BY DEF SignInInit, Shaped, NoSecret
<1>2. job \in [Handlers -> Jobs] /\ \A h \in Handlers : ~Signing(h)
  BY DEF SignInInit, Jobs, Idle, Signing
<1> QED
  BY <1>1, <1>2 DEF SignInInit, SessionsInv, Shapes, AsSaved, Generations, SignsWell, CookiesFit

LEMMA RecentPastIsInt ==
  ASSUME SessionsInv, NEW t \in RecentPast
  PROVE  t \in Int
BY BansAssumption DEF RecentPast, SessionsInv, Shapes

LEMMA Saves ==
  ASSUME SessionsInv, NEW data, Shaped(data), Save(data)
  PROVE  /\ mem' = data
         /\ Shaped(mem') /\ Shaped(disk')
         /\ behind' \in BOOLEAN
         /\ AsSaved'
BY DEF Save, SessionsInv, Shapes, AsSaved

(* A step that leaves epoch and secret alone, issues nothing and sets no   *)
(* request to sign keeps every cookie fitting.                             *)
LEMMA SameGeneration ==
  ASSUME SessionsInv,
         mem'.epoch = mem.epoch, mem'.secret = mem.secret,
         cookies' = cookies, forgot' = forgot,
         \A h \in Handlers : Signing(h)' => Signing(h) /\ job'[h] = job[h]
  PROVE  Generations'
<1>1. ASSUME NEW c, Fits(c) PROVE Fits(c)'
  BY <1>1 DEF Fits
<1> QED
  BY <1>1 DEF SessionsInv, Generations, SignsWell, CookiesFit

(* One request moves on, and not to sign. *)
LEMMA MovesOn ==
  ASSUME SessionsInv, NEW h \in Handlers, NEW s \in Jobs, s.at # "signing",
         job' = [job EXCEPT ![h] = s]
  PROVE  /\ job' \in [Handlers -> Jobs]
         /\ \A g \in Handlers : Signing(g)' => Signing(g) /\ job'[g] = job[g]
<1>1. job \in [Handlers -> Jobs]
  BY DEF SessionsInv, Shapes
<1>2. \A g \in Handlers : job'[g] = IF g = h THEN s ELSE job[g]
  BY <1>1
<1> QED
  BY <1>1, <1>2 DEF Signing

LEMMA JobKinds ==
  /\ Idle \in Jobs /\ Idle.at # "signing"
  /\ [at |-> "starting a session"] \in Jobs
  /\ [at |-> "signing out"] \in Jobs
  /\ \A a \in Addrs : [at |-> "verifying", addr |-> a] \in Jobs
  /\ \A k \in Nat, x \in Int : [at |-> "signing", secret |-> k, exp |-> x] \in Jobs
BY DEF Jobs, Idle

LEMMA CheckBanSessions ==
  ASSUME SessionsInv, NEW h \in Handlers, CheckBan(h)
  PROVE  SessionsInv'
<1>1. PICK a \in Addrs : job' = [job EXCEPT ![h] = [at |-> "verifying", addr |-> a]]
  BY DEF CheckBan
<1>2. /\ job' \in [Handlers -> Jobs]
      /\ \A g \in Handlers : Signing(g)' => Signing(g) /\ job'[g] = job[g]
  BY <1>1, JobKinds, MovesOn
<1>3. Generations'
  BY <1>2, SameGeneration DEF CheckBan
<1> QED
  BY <1>2, <1>3 DEF CheckBan, SessionsInv, Shapes, AsSaved

LEMMA GuardSessions ==
  ASSUME SessionsInv, NEW h \in Handlers, Guard(h)
  PROVE  SessionsInv'
<1>1. /\ job' \in [Handlers -> Jobs]
      /\ \A g \in Handlers : Signing(g)' => Signing(g) /\ job'[g] = job[g]
  BY JobKinds, MovesOn DEF Guard
<1>2. Generations'
  BY <1>1, SameGeneration DEF Guard
<1> QED
  BY <1>1, <1>2 DEF Guard, SessionsInv, Shapes, AsSaved

(* Saving other bans disturbs no session. *)
LEMMA SavesBans ==
  ASSUME SessionsInv, NEW bans, Save([mem EXCEPT !.bans = bans]),
         NEW h \in Handlers, NEW s \in Jobs, s.at # "signing",
         job' = [job EXCEPT ![h] = s],
         UNCHANGED <<now, secrets, cookies, forgot>>
  PROVE  SessionsInv'
<1> DEFINE data == [mem EXCEPT !.bans = bans]
<1>1. Shaped(mem)
  BY DEF SessionsInv, Shapes
<1>2. Shaped(data) /\ data.epoch = mem.epoch /\ data.secret = mem.secret
  BY <1>1 DEF Shaped
<1> HIDE DEF data
<1>3. /\ mem' = data
      /\ Shaped(mem') /\ Shaped(disk') /\ behind' \in BOOLEAN /\ AsSaved'
  BY <1>2, Saves DEF data
<1>4. /\ job' \in [Handlers -> Jobs]
      /\ \A g \in Handlers : Signing(g)' => Signing(g) /\ job'[g] = job[g]
  BY MovesOn
<1>5. Generations'
  BY <1>2, <1>3, <1>4, SameGeneration
<1> QED
  BY <1>3, <1>4, <1>5 DEF SessionsInv, Shapes

LEMMA FailureSessions ==
  ASSUME SessionsInv, NEW h \in Handlers, RecordLoginFailure(h)
  PROVE  SessionsInv'
<1>1. \E bans : Save([mem EXCEPT !.bans = bans])
  BY DEF RecordLoginFailure
<1> QED
  BY <1>1, JobKinds, SavesBans DEF RecordLoginFailure

LEMMA SuccessSessions ==
  ASSUME SessionsInv, NEW h \in Handlers, RecordLoginSuccess(h)
  PROVE  SessionsInv'
<1>1. \E bans : Save([mem EXCEPT !.bans = bans])
  <2>1. Save([mem EXCEPT !.bans = [mem.bans EXCEPT ![job[h].addr] = NoHistory]])
    BY DEF RecordLoginSuccess
  <2> QED
    BY <2>1
<1>2. [at |-> "starting a session"].at # "signing"
  OBVIOUS
<1> QED
  BY <1>1, <1>2, JobKinds, SavesBans DEF RecordLoginSuccess

(* A secret is generated only where there is none, and then nothing was    *)
(* signed yet.                                                             *)
LEMMA Generates ==
  ASSUME SessionsInv, GenerateSecret
  PROVE  /\ mem.secret = NoSecret
         /\ secrets' \in Nat
         /\ mem'.epoch = mem.epoch /\ mem'.secret # NoSecret
         /\ Shaped(mem') /\ Shaped(disk') /\ behind' \in BOOLEAN /\ AsSaved'
<1> DEFINE data == [mem EXCEPT !.secret = secrets']
<1>1. Shaped(mem) /\ secrets' \in Nat /\ secrets' # 0 /\ mem.secret = NoSecret
  BY DEF SessionsInv, Shapes, GenerateSecret
<1>2. Shaped(data) /\ data.epoch = mem.epoch /\ data.secret = secrets'
  BY <1>1 DEF Shaped
<1>3. Save(data)
  BY DEF GenerateSecret
<1> HIDE DEF data
<1>4. /\ mem' = data
      /\ Shaped(mem') /\ Shaped(disk') /\ behind' \in BOOLEAN /\ AsSaved'
  BY <1>2, <1>3, Saves
<1> QED
  BY <1>1, <1>2, <1>4 DEF NoSecret

LEMMA VisitSessions ==
  ASSUME SessionsInv, Visit
  PROVE  SessionsInv'
<1>1. GenerateSecret /\ UNCHANGED <<now, job, cookies, forgot>>
  BY DEF Visit
<1>2. /\ mem.secret = NoSecret /\ secrets' \in Nat
      /\ Shaped(mem') /\ Shaped(disk') /\ behind' \in BOOLEAN /\ AsSaved'
  BY <1>1, Generates
<1>3. Generations'
  BY <1>1, <1>2 DEF SessionsInv, Generations, SignsWell, Signing, CookiesFit, Fits
<1> QED
  BY <1>1, <1>2, <1>3 DEF SessionsInv, Shapes

LEMMA SecretSessions ==
  ASSUME SessionsInv, NEW h \in Handlers, SessionSecret(h)
  PROVE  SessionsInv'
<1> DEFINE fails == mem.secret = NoSecret /\ behind'
<1>1. /\ job[h].at = "starting a session"
      /\ UNCHANGED <<now, cookies, forgot>>
  BY DEF SessionSecret
<1>2. PICK t \in RecentPast :
        job' = [job EXCEPT ![h] = IF fails THEN Idle
                                  ELSE [at |-> "signing", secret |-> mem'.secret, exp |-> t + SessionTTL]]
  BY DEF SessionSecret
<1>3. t + SessionTTL \in Int
  BY RecentPastIsInt, BansAssumption
<1>4. /\ Shaped(mem') /\ Shaped(disk') /\ behind' \in BOOLEAN /\ AsSaved' /\ secrets' \in Nat
      /\ mem'.secret # NoSecret /\ mem'.epoch = mem.epoch
      /\ mem.secret # NoSecret => mem'.secret = mem.secret
  <2>1. CASE mem.secret # NoSecret /\ UNCHANGED <<mem, disk, failed, behind, secrets>>
    BY <2>1 DEF SessionsInv, Shapes, AsSaved
  <2>2. CASE GenerateSecret
    BY <2>2, Generates
  <2> QED
    BY <2>1, <2>2 DEF SessionSecret
<1>5. mem'.secret \in Nat
  BY <1>4 DEF Shaped
<1> HIDE DEF fails
<1>6. job \in [Handlers -> Jobs]
  BY DEF SessionsInv, Shapes
<1>7. PICK s \in Jobs : /\ job' = [job EXCEPT ![h] = s]
                        /\ s.at = "signing" => s.secret = mem'.secret
  <2>1. CASE fails
    BY <1>2, <2>1, JobKinds
  <2>2. CASE ~fails
    <3>1. [at |-> "signing", secret |-> mem'.secret, exp |-> t + SessionTTL] \in Jobs
      BY <1>3, <1>5, JobKinds
    <3> QED
      BY <1>2, <2>2, <3>1
  <2> QED
    BY <2>1, <2>2
<1>8. job' \in [Handlers -> Jobs] /\ \A g \in Handlers : job'[g] = IF g = h THEN s ELSE job[g]
  BY <1>6, <1>7
<1>9. ASSUME ~forgot PROVE SignsWell' /\ CookiesFit'
  <2>1. SignsWell'
    BY <1>4, <1>7, <1>8, <1>9 DEF SessionsInv, Generations, SignsWell, Signing
  <2>2. ASSUME NEW c, Fits(c) PROVE Fits(c)'
    BY <1>4, <2>2 DEF Fits
  <2>3. CookiesFit'
    BY <1>1, <1>9, <2>2 DEF SessionsInv, Generations, CookiesFit
  <2> QED
    BY <2>1, <2>3
<1> QED
  BY <1>1, <1>4, <1>8, <1>9 DEF SessionsInv, Shapes, Generations

LEMMA NewSessionSessions ==
  ASSUME SessionsInv, NEW h \in Handlers, NewSession(h)
  PROVE  SessionsInv'
<1> DEFINE new == [secret |-> job[h].secret, epoch |-> mem.epoch, exp |-> job[h].exp, ended |-> FALSE]
<1>1. Signing(h) /\ cookies' = cookies \cup {new} /\ UNCHANGED <<now, mem, disk, secrets, behind, forgot>>
  BY DEF NewSession, Signing
<1>2. /\ job' \in [Handlers -> Jobs]
      /\ \A g \in Handlers : Signing(g)' => Signing(g) /\ job'[g] = job[g]
  BY JobKinds, MovesOn DEF NewSession
<1>3. mem.epoch \in Nat
  BY DEF SessionsInv, Shapes, Shaped
<1>4. ASSUME ~forgot PROVE Fits(new)
  BY <1>1, <1>3, <1>4 DEF SessionsInv, Generations, SignsWell, Fits
<1> HIDE DEF new
<1>5. ASSUME NEW c, Fits(c) PROVE Fits(c)'
  BY <1>1, <1>5 DEF Fits
<1>6. Generations'
  BY <1>1, <1>2, <1>4, <1>5 DEF SessionsInv, Generations, SignsWell, CookiesFit
<1> QED
  BY <1>1, <1>2, <1>6 DEF SessionsInv, Shapes, AsSaved

(* A logout leaves every cookie of an earlier epoch, and marks it so. *)
LEMMA LogoutSessions ==
  ASSUME SessionsInv, NEW h \in Handlers, Logout(h)
  PROVE  SessionsInv'
<1> DEFINE data == [mem EXCEPT !.epoch = mem.epoch + 1]
<1>1. Shaped(mem)
  BY DEF SessionsInv, Shapes
<1>2. Shaped(data) /\ data.epoch = mem.epoch + 1 /\ data.secret = mem.secret
  BY <1>1 DEF Shaped
<1>3. Save(data)
  BY DEF Logout
<1> HIDE DEF data
<1>4. /\ mem' = data
      /\ Shaped(mem') /\ Shaped(disk') /\ behind' \in BOOLEAN /\ AsSaved'
  BY <1>2, <1>3, Saves
<1>5. /\ job' \in [Handlers -> Jobs]
      /\ \A g \in Handlers : Signing(g)' => Signing(g) /\ job'[g] = job[g]
  BY JobKinds, MovesOn DEF Logout
<1>6. cookies' = {[c EXCEPT !.ended = TRUE] : c \in cookies} /\ UNCHANGED <<now, secrets, forgot>>
  BY DEF Logout
<1>7. ASSUME ~forgot PROVE SignsWell' /\ CookiesFit'
  <2>1. SignsWell'
    BY <1>2, <1>4, <1>5, <1>7 DEF SessionsInv, Generations, SignsWell
  <2>2. ASSUME NEW c \in cookies PROVE Fits([c EXCEPT !.ended = TRUE])'
    <3>1. Fits(c)
      BY <1>7, <2>2 DEF SessionsInv, Generations, CookiesFit
    <3>2. mem.epoch \in Nat
      BY <1>1 DEF Shaped
    <3> QED
      BY <1>2, <1>4, <3>1, <3>2 DEF Fits
  <2>3. CookiesFit'
    BY <1>6, <2>2 DEF CookiesFit
  <2> QED
    BY <2>1, <2>3
<1> QED
  BY <1>4, <1>5, <1>6, <1>7 DEF SessionsInv, Shapes, Generations

LEMMA RestartSessions ==
  ASSUME SessionsInv, Restart
  PROVE  SessionsInv'
<1>1. job' \in [Handlers -> Jobs] /\ \A h \in Handlers : ~Signing(h)'
  BY JobKinds DEF Restart, Signing
<1>2. ASSUME ~forgot' PROVE CookiesFit'
  <2>1. ~forgot /\ mem' = mem /\ cookies' = cookies
    BY <1>2 DEF Restart, SessionsInv, AsSaved
  <2>2. ASSUME NEW c, Fits(c) PROVE Fits(c)'
    BY <2>1, <2>2 DEF Fits
  <2> QED
    BY <2>1, <2>2 DEF SessionsInv, Generations, CookiesFit
<1>3. Generations'
  BY <1>1, <1>2 DEF Generations, SignsWell
<1> QED
  BY <1>1, <1>3 DEF Restart, SessionsInv, Shapes, AsSaved

LEMMA SaveElsewhereSessions ==
  ASSUME SessionsInv, SaveElsewhere
  PROVE  SessionsInv'
<1>1. /\ mem' = mem
      /\ Shaped(mem') /\ Shaped(disk') /\ behind' \in BOOLEAN /\ AsSaved'
  BY Saves DEF SaveElsewhere, SessionsInv, Shapes
<1>2. Generations'
  BY <1>1, SameGeneration DEF SaveElsewhere, Signing
<1> QED
  BY <1>1, <1>2 DEF SaveElsewhere, SessionsInv, Shapes

LEMMA QuietSessions ==
  ASSUME SessionsInv, now' \in Nat,
         UNCHANGED <<mem, disk, job, secrets, cookies, failed, behind, forgot>>
  PROVE  SessionsInv'
<1>1. Generations'
  BY SameGeneration DEF Signing
<1> QED
  BY <1>1 DEF SessionsInv, Shapes, AsSaved

LEMMA NextSessions == SessionsInv /\ [SignInNext]_signInVars => SessionsInv'
<1> SUFFICES ASSUME SessionsInv, [SignInNext]_signInVars PROVE SessionsInv'
  OBVIOUS
<1>1. ASSUME NEW h \in Handlers, CheckBan(h) PROVE SessionsInv'
  BY <1>1, CheckBanSessions
<1>2. ASSUME NEW h \in Handlers, RecordLoginFailure(h) PROVE SessionsInv'
  BY <1>2, FailureSessions
<1>3. ASSUME NEW h \in Handlers, RecordLoginSuccess(h) PROVE SessionsInv'
  BY <1>3, SuccessSessions
<1>4. ASSUME NEW h \in Handlers, SessionSecret(h) PROVE SessionsInv'
  BY <1>4, SecretSessions
<1>5. ASSUME NEW h \in Handlers, NewSession(h) PROVE SessionsInv'
  BY <1>5, NewSessionSessions
<1>6. ASSUME NEW h \in Handlers, Guard(h) PROVE SessionsInv'
  BY <1>6, GuardSessions
<1>7. ASSUME NEW h \in Handlers, Logout(h) PROVE SessionsInv'
  BY <1>7, LogoutSessions
<1>8. CASE Visit
  BY <1>8, VisitSessions
<1>9. CASE SaveElsewhere
  BY <1>9, SaveElsewhereSessions
<1>10. CASE Restart
  BY <1>10, RestartSessions
<1>11. CASE Tick
  BY <1>11, QuietSessions DEF Tick, SessionsInv, Shapes
<1>12. CASE UNCHANGED signInVars
  BY <1>12, QuietSessions DEF signInVars, SessionsInv, Shapes
<1> QED
  BY <1>1, <1>2, <1>3, <1>4, <1>5, <1>6, <1>7, <1>8, <1>9, <1>10, <1>11, <1>12 DEF SignInNext

(* A cookie is good until it expires or anybody signs out, and no longer,  *)
(* through any number of concurrent logins, logouts, saves and restarts,   *)
(* until the process has restarted from a file that could not be written.  *)
THEOREM LogoutEndsSessions == SignInSpec => []SessionsFollowLogout
<1>1. SessionsInv => SessionsFollowLogout
  <2> SUFFICES ASSUME SessionsInv, ~forgot, NEW c \in cookies
               PROVE  ValidSession(c) <=> ~c.ended /\ now < c.exp
    BY DEF SessionsFollowLogout
  <2>1. Fits(c) /\ mem.epoch \in Nat
    BY DEF SessionsInv, Shapes, Shaped, Generations, CookiesFit
  <2>2. c.epoch = mem.epoch <=> ~c.ended
    BY <2>1 DEF Fits
  <2>3. c.secret = mem.secret
    BY <2>1 DEF Fits
  <2> QED
    BY <2>2, <2>3 DEF ValidSession
<1> QED
  BY InitSessions, NextSessions, <1>1, PTL DEF SignInSpec

-----------------------------------------------------------------------------
(* An address's failures are remembered.                                   *)

NextRung(ban) == IF 2 * ban >= MaxBan THEN MaxBan ELSE 2 * ban

LEMMA LadderIs ==
  /\ BanLadder[0] = FirstBan
  /\ \A n \in Nat \ {0} : BanLadder[n] = NextRung(BanLadder[n - 1])
<1>1. PICK step : step = [ban \in Nat |-> NextRung(ban)]
  OBVIOUS
<1>2. \A ban \in Nat : NextRung(ban) \in Nat
  BY BansAssumption DEF BansAssumption, NextRung
<1>3. step \in [Nat -> Nat] /\ FirstBan \in Nat
  BY <1>1, <1>2, BansAssumption DEF BansAssumption
<1>4. PICK f : Recurs(f, Nat, FirstBan, step)
  BY <1>3, RecursionExists
<1>5. f \in [Nat -> Nat] /\ f[0] = FirstBan
  BY <1>4 DEF Recurs
<1>6. \A n \in Nat \ {0} : n - 1 \in Nat /\ f[n] = NextRung(f[n - 1])
  BY <1>1, <1>4, <1>5 DEF Recurs
<1>7. f = [n \in Nat |-> IF n = 0 THEN FirstBan
                         ELSE IF 2 * f[n - 1] >= MaxBan THEN MaxBan ELSE 2 * f[n - 1]]
  <2>1. \A n \in Nat : f[n] = IF n = 0 THEN FirstBan
                              ELSE IF 2 * f[n - 1] >= MaxBan THEN MaxBan ELSE 2 * f[n - 1]
    BY <1>5, <1>6 DEF NextRung
  <2>2. f = [n \in Nat |-> f[n]]
    BY <1>5
  <2> QED
    BY <2>1, <2>2, Zenon
<1>8. BanLadder = [n \in Nat |-> IF n = 0 THEN FirstBan
                                 ELSE IF 2 * BanLadder[n - 1] >= MaxBan THEN MaxBan ELSE 2 * BanLadder[n - 1]]
  BY <1>7, Zenon DEF BanLadder
<1> QED
  BY <1>8 DEF NextRung

LEMMA LadderClimbs ==
  ASSUME NEW n \in Nat
  PROVE  BanLadder[n] \in Nat /\ FirstBan <= BanLadder[n]
<1>0. FirstBan \in Nat /\ MaxBan \in Nat /\ FirstBan <= MaxBan
  BY BansAssumption DEF BansAssumption
<1> DEFINE high == {k \in 0..n : BanLadder[k] \in Nat /\ FirstBan <= BanLadder[k]}
<1>1. 0 \in high
  BY <1>0, LadderIs
<1>2. ASSUME NEW k \in 0..(n - 1), k \in high  PROVE k + 1 \in high
  <2>1. k + 1 \in Nat \ {0} /\ (k + 1) - 1 = k /\ k + 1 \in 0..n
    OBVIOUS
  <2>2. BanLadder[k + 1] = NextRung(BanLadder[k])
    BY <2>1, LadderIs
  <2>3. PICK ban \in Nat : ban = BanLadder[k] /\ FirstBan <= ban
    BY <1>2
  <2>4. NextRung(ban) \in Nat /\ FirstBan <= NextRung(ban)
    BY <1>0, <2>3 DEF NextRung
  <2> QED
    BY <2>1, <2>2, <2>3, <2>4
<1>3. high \in SUBSET (0..n)
  OBVIOUS
<1> HIDE DEF high
<1>4. \A k \in 0..n : k \in high
  BY <1>1, <1>2, <1>3, NextByNext
<1> QED
  BY <1>4 DEF high

(* A history of failures, and what it says: no ban is in force before the  *)
(* failure that earns the first, and from then on the ban that the last    *)
(* failure earned.                                                         *)
Histories == [strikes : Nat, until : Nat, last : Nat]

Consistent(history, moment) ==
  /\ history.last <= moment
  /\ history.strikes < BanAfterFailures => history.until = 0
  /\ history.strikes >= BanAfterFailures =>
       history.until = history.last + BanLadder[history.strikes - BanAfterFailures]

Remembers(bans, moment) == bans \in [Addrs -> Histories] /\ \A a \in Addrs : Consistent(bans[a], moment)

BansInv == SessionsInv /\ Remembers(mem.bans, now) /\ Remembers(disk.bans, now)

LEMMA NoHistoryIs == NoHistory \in Histories /\ \A moment \in Nat : Consistent(NoHistory, moment)
BY BansAssumption DEF BansAssumption, NoHistory, Histories, Consistent

LEMMA BansInit == SignInInit => BansInv
<1> SUFFICES ASSUME SignInInit  PROVE BansInv
  OBVIOUS
<1>1. mem.bans = [a \in Addrs |-> NoHistory] /\ disk.bans = mem.bans /\ now = 0
  BY DEF SignInInit
<1>2. Remembers(mem.bans, now)
  BY <1>1, NoHistoryIs DEF Remembers
<1> QED
  BY <1>1, <1>2, InitSessions DEF BansInv

LEMMA RemembersLater ==
  ASSUME NEW bans, NEW moment \in Nat, NEW later \in Nat, moment <= later, Remembers(bans, moment)
  PROVE  Remembers(bans, later)
BY DEF Remembers, Consistent, Histories

(* One more failure. *)
Counted(old, t) ==
  [strikes |-> old.strikes + 1,
   until   |-> IF BanDuration(old.strikes + 1) > 0 THEN t + BanDuration(old.strikes + 1) ELSE old.until,
   last    |-> t]

JustRead(t) == t \in Nat /\ now - ClockLag <= t /\ t <= now

LEMMA CountedIs ==
  ASSUME now \in Nat, NEW old \in Histories, Consistent(old, now), NEW t, JustRead(t)
  PROVE  /\ Counted(old, t) \in Histories /\ Consistent(Counted(old, t), now)
         /\ Counted(old, t).strikes = old.strikes + 1 /\ Counted(old, t).last = t
         /\ Counted(old, t).until >= old.until \/ Counted(old, t).until = t + MaxBan
<1>1. PICK strikes \in Nat, until \in Nat, last \in Nat :
        old = [strikes |-> strikes, until |-> until, last |-> last]
  BY DEF Histories
<1>2. old.strikes = strikes /\ old.until = until /\ old.last = last
  BY <1>1
<1>3. /\ last <= now
      /\ strikes < BanAfterFailures => until = 0
      /\ strikes >= BanAfterFailures => until = last + BanLadder[strikes - BanAfterFailures]
  BY <1>2 DEF Consistent
<1>4. t \in Nat /\ now - ClockLag <= t /\ t <= now
  BY DEF JustRead
<1>5. /\ BanAfterFailures \in Nat \ {0} /\ FirstBan \in Nat \ {0} /\ MaxBan \in Nat
      /\ ClockLag \in Nat /\ ClockLag <= FirstBan
  BY BansAssumption DEF BansAssumption
<1>6. PICK ban \in Nat :
        /\ ban = BanDuration(strikes + 1)
        /\ strikes + 1 < BanAfterFailures => ban = 0
        /\ strikes + 1 >= BanAfterFailures => ban = BanLadder[(strikes + 1) - BanAfterFailures] /\ ban > 0
        /\ strikes >= BanAfterFailures => ban = MaxBan \/ t + ban >= until
  <2>1. CASE strikes + 1 < BanAfterFailures
    BY <1>5, <2>1 DEF BanDuration
  <2>2. CASE strikes + 1 >= BanAfterFailures
    <3>1. PICK rung \in Nat : rung = (strikes + 1) - BanAfterFailures
      BY <1>5, <2>2
    <3>2. PICK ban \in Nat : ban = BanLadder[rung] /\ FirstBan <= ban
      BY LadderClimbs
    <3>3. ban = BanDuration(strikes + 1)
      BY <1>5, <2>2, <3>1, <3>2 DEF BanDuration
    <3>4. ASSUME strikes >= BanAfterFailures  PROVE ban = MaxBan \/ t + ban >= until
      <4>1. PICK m \in Nat : m = strikes - BanAfterFailures /\ rung \in Nat \ {0} /\ rung - 1 = m
        BY <1>5, <3>1, <3>4
      <4>2. PICK old_ban \in Nat : old_ban = BanLadder[m] /\ FirstBan <= old_ban
        BY LadderClimbs
      <4>3. ban = NextRung(old_ban)
        BY <3>2, <4>1, <4>2, LadderIs
      <4>4. until = last + old_ban
        BY <1>3, <3>4, <4>1, <4>2
      <4> QED
        BY <1>3, <1>4, <1>5, <4>2, <4>3, <4>4 DEF NextRung
    <3> QED
      BY <1>5, <2>2, <3>1, <3>2, <3>3, <3>4
  <2> QED
    BY <1>5, <2>1, <2>2
<1>7. PICK after \in Nat : after = IF ban > 0 THEN t + ban ELSE until
  BY <1>4, <1>6
<1>8. PICK new : new = [strikes |-> strikes + 1, until |-> after, last |-> t]
  OBVIOUS
<1>9. Counted(old, t) = new
  BY <1>2, <1>6, <1>7, <1>8 DEF Counted
<1>10. new \in Histories /\ new.strikes = strikes + 1 /\ new.until = after /\ new.last = t
  BY <1>4, <1>8 DEF Histories
<1>11. /\ t <= now
       /\ strikes + 1 < BanAfterFailures => after = 0
       /\ strikes + 1 >= BanAfterFailures => after = t + BanLadder[(strikes + 1) - BanAfterFailures]
  BY <1>3, <1>4, <1>5, <1>6, <1>7
<1>12. after >= until \/ after = t + MaxBan
  BY <1>3, <1>4, <1>5, <1>6, <1>7
<1>13. Consistent(new, now)
  BY <1>10, <1>11 DEF Consistent
<1> QED
  BY <1>2, <1>9, <1>10, <1>12, <1>13

(* Pruning drops stale histories only. *)
LEMMA PruningForgets ==
  ASSUME now \in Nat, NEW bans, Remembers(bans, now), NEW t, JustRead(t)
  PROVE  /\ Remembers(ForgetStale(bans, t), now)
         /\ \A a \in Addrs :
              \/ ForgetStale(bans, t)[a] = bans[a]
              \/ /\ ForgetStale(bans, t)[a] = NoHistory
                 /\ bans[a].until <= now /\ now - bans[a].last > StaleAfter
<1>1. PICK pruned : pruned = ForgetStale(bans, t)
  OBVIOUS
<1>2. pruned = [a \in Addrs |->
                  IF bans[a].until <= t /\ t - bans[a].last > StaleAfter THEN NoHistory ELSE bans[a]]
  BY <1>1 DEF ForgetStale
<1>3. ASSUME NEW a \in Addrs
      PROVE  /\ pruned[a] \in Histories /\ Consistent(pruned[a], now)
             /\ \/ pruned[a] = bans[a]
                \/ pruned[a] = NoHistory /\ bans[a].until <= now /\ now - bans[a].last > StaleAfter
  <2>1. bans[a] \in Histories /\ Consistent(bans[a], now)
    BY DEF Remembers
  <2>2. PICK until \in Nat, last \in Nat : until = bans[a].until /\ last = bans[a].last
    BY <2>1 DEF Histories
  <2>3. t \in Nat /\ t <= now /\ StaleAfter \in Nat
    BY BansAssumption DEF BansAssumption, JustRead
  <2>4. pruned[a] = IF until <= t /\ t - last > StaleAfter THEN NoHistory ELSE bans[a]
    BY <1>2, <2>2
  <2>5. until <= t /\ t - last > StaleAfter => until <= now /\ now - last > StaleAfter
    BY <2>2, <2>3
  <2> QED
    BY <2>1, <2>2, <2>4, <2>5, NoHistoryIs
<1>4. pruned \in [Addrs -> Histories]
  BY <1>2, <1>3
<1> QED
  BY <1>1, <1>3, <1>4 DEF Remembers

(* What saving other bans comes to. *)
LEMMA SavedBans ==
  ASSUME BansInv, NEW bans, Remembers(bans, now), Save([mem EXCEPT !.bans = bans])
  PROVE  mem'.bans = bans /\ Remembers(mem'.bans, now) /\ Remembers(disk'.bans, now)
<1>1. PICK data : data = [mem EXCEPT !.bans = bans]
  OBVIOUS
<1>2. Shaped(mem)
  BY DEF BansInv, SessionsInv, Shapes
<1>3. data.bans = bans
  BY <1>1, <1>2 DEF Shaped
<1>4. mem' = data /\ (disk' = data \/ disk' = disk)
  BY <1>1 DEF Save
<1> QED
  BY <1>3, <1>4 DEF BansInv

(* Saving anything else leaves the bans. *)
LEMMA SavedElse ==
  ASSUME BansInv, NEW data, data.bans = mem.bans, Save(data)
  PROVE  mem'.bans = mem.bans /\ Remembers(disk'.bans, now)
BY DEF Save, BansInv

(* The requests. *)
LEMMA VerifyingIs ==
  ASSUME SessionsInv, NEW h \in Handlers, job[h].at = "verifying"
  PROVE  job[h].addr \in Addrs /\ job[h] = [at |-> "verifying", addr |-> job[h].addr]
<1>1. job[h] \in Jobs
  BY DEF SessionsInv, Shapes
<1>2. job[h] \in [at : {"verifying"}, addr : Addrs]
  <2>1. Idle.at = "idle"
    BY DEF Idle
  <2>2. ASSUME NEW j \in [at : {"starting a session", "signing out"}]  PROVE j.at # "verifying"
    OBVIOUS
  <2>3. ASSUME NEW j \in [at : {"signing"}, secret : Nat, exp : Int]  PROVE j.at # "verifying"
    OBVIOUS
  <2> QED
    BY <1>1, <2>1, <2>2, <2>3 DEF Jobs
<1>3. PICK a \in Addrs : job[h] = [at |-> "verifying", addr |-> a]
  BY <1>2
<1> QED
  BY <1>3

(* The steps: the histories stay consistent, and each changes for a        *)
(* reason.                                                                 *)
KeptFor(old, new, a) ==
  \/ new = old
  \/ Mistaken(a) /\ new.strikes = old.strikes + 1 /\ (new.until >= old.until \/ new.until = new.last + MaxBan)
  \/ new = NoHistory /\ (Proven(a) \/ (old.until <= now /\ now - old.last > StaleAfter))

LEMMA FailureRemembered ==
  ASSUME BansInv, NEW h \in Handlers, RecordLoginFailure(h)
  PROVE  /\ Remembers(mem'.bans, now) /\ Remembers(disk'.bans, now)
         /\ \A a \in Addrs : KeptFor(mem.bans[a], mem'.bans[a], a)
<1>1. now \in Nat /\ mem.bans \in [Addrs -> Histories] /\ \A a \in Addrs : Consistent(mem.bans[a], now)
  BY DEF BansInv, SessionsInv, Shapes, Remembers
<1>2. PICK failing \in Addrs : failing = job[h].addr /\ job[h] = [at |-> "verifying", addr |-> failing]
  BY VerifyingIs DEF BansInv, RecordLoginFailure
<1>3. job'[h] = Idle
  BY DEF RecordLoginFailure, BansInv, SessionsInv, Shapes
<1>4. Mistaken(failing)
  BY <1>2, <1>3 DEF Mistaken
<1>5. PICK t \in RecentPast :
        Save([mem EXCEPT !.bans = ForgetStale([mem.bans EXCEPT ![failing] = Counted(mem.bans[failing], t)], t)])
  BY <1>2 DEF RecordLoginFailure, Counted
<1>6. JustRead(t)
  BY <1>1, BansAssumption DEF BansAssumption, RecentPast, JustRead
<1>7. PICK new : new = Counted(mem.bans[failing], t)
  OBVIOUS
<1>8. /\ new \in Histories /\ Consistent(new, now)
      /\ new.strikes = mem.bans[failing].strikes + 1 /\ new.last = t
      /\ new.until >= mem.bans[failing].until \/ new.until = t + MaxBan
  BY <1>1, <1>6, <1>7, CountedIs
<1>9. PICK bans : bans = [mem.bans EXCEPT ![failing] = new]
  OBVIOUS
<1>10. bans \in [Addrs -> Histories] /\ \A a \in Addrs : bans[a] = IF a = failing THEN new ELSE mem.bans[a]
  BY <1>1, <1>8, <1>9
<1>11. Remembers(bans, now)
  BY <1>1, <1>8, <1>10 DEF Remembers
<1>12. PICK pruned : pruned = ForgetStale(bans, t)
  OBVIOUS
<1>13. /\ Remembers(pruned, now)
       /\ \A a \in Addrs :
            \/ pruned[a] = bans[a]
            \/ pruned[a] = NoHistory /\ bans[a].until <= now /\ now - bans[a].last > StaleAfter
  BY <1>1, <1>6, <1>11, <1>12, PruningForgets
<1>14. pruned[failing] = new
  <2>1. ~(t - new.last > StaleAfter)
    BY <1>6, <1>8, BansAssumption DEF BansAssumption, JustRead
  <2>2. bans[failing] = new
    BY <1>10
  <2> QED
    BY <1>12, <2>1, <2>2 DEF ForgetStale
<1>15. Save([mem EXCEPT !.bans = pruned])
  BY <1>5, <1>7, <1>9, <1>12
<1>16. mem'.bans = pruned /\ Remembers(mem'.bans, now) /\ Remembers(disk'.bans, now)
  BY <1>13, <1>15, SavedBans
<1>17. ASSUME NEW a \in Addrs  PROVE KeptFor(mem.bans[a], mem'.bans[a], a)
  <2>1. CASE a = failing
    BY <1>4, <1>8, <1>14, <1>16, <2>1 DEF KeptFor
  <2>2. CASE a # failing
    BY <1>10, <1>13, <1>16, <2>2 DEF KeptFor
  <2> QED
    BY <2>1, <2>2
<1> QED
  BY <1>16, <1>17

LEMMA SuccessRemembered ==
  ASSUME BansInv, NEW h \in Handlers, RecordLoginSuccess(h)
  PROVE  /\ Remembers(mem'.bans, now) /\ Remembers(disk'.bans, now)
         /\ \A a \in Addrs : KeptFor(mem.bans[a], mem'.bans[a], a)
<1>1. now \in Nat /\ mem.bans \in [Addrs -> Histories] /\ \A a \in Addrs : Consistent(mem.bans[a], now)
  BY DEF BansInv, SessionsInv, Shapes, Remembers
<1>2. PICK owner \in Addrs : owner = job[h].addr /\ job[h] = [at |-> "verifying", addr |-> owner]
  BY VerifyingIs DEF BansInv, RecordLoginSuccess
<1>3. job'[h] = [at |-> "starting a session"]
  BY DEF RecordLoginSuccess, BansInv, SessionsInv, Shapes
<1>4. Proven(owner)
  BY <1>2, <1>3 DEF Proven
<1>5. PICK bans : bans = [mem.bans EXCEPT ![owner] = NoHistory]
  OBVIOUS
<1>6. /\ bans \in [Addrs -> Histories]
      /\ \A a \in Addrs : bans[a] = IF a = owner THEN NoHistory ELSE mem.bans[a]
  BY <1>1, <1>5, NoHistoryIs
<1>7. Remembers(bans, now)
  BY <1>1, <1>6, NoHistoryIs DEF Remembers
<1>8. Save([mem EXCEPT !.bans = bans])
  BY <1>2, <1>5 DEF RecordLoginSuccess
<1>9. mem'.bans = bans /\ Remembers(mem'.bans, now) /\ Remembers(disk'.bans, now)
  BY <1>7, <1>8, SavedBans
<1>10. \A a \in Addrs : KeptFor(mem.bans[a], mem'.bans[a], a)
  BY <1>4, <1>6, <1>9 DEF KeptFor
<1> QED
  BY <1>9, <1>10

(* Every other step but a restart. *)
BansStay == mem'.bans = mem.bans /\ Remembers(disk'.bans, now)

LEMMA BansStayOtherwise ==
  ASSUME BansInv,
         \/ \E h \in Handlers : CheckBan(h) \/ SessionSecret(h) \/ NewSession(h) \/ Guard(h) \/ Logout(h)
         \/ Visit \/ SaveElsewhere \/ Tick \/ UNCHANGED signInVars
  PROVE  BansStay
<1>1. Shaped(mem)
  BY DEF BansInv, SessionsInv, Shapes
<1>2. UNCHANGED <<mem, disk>> => BansStay
  BY DEF BansInv, BansStay
<1>3. GenerateSecret => BansStay
  <2>1. [mem EXCEPT !.secret = secrets'].bans = mem.bans
    BY <1>1 DEF Shaped
  <2> QED
    BY <2>1, SavedElse DEF GenerateSecret, BansStay
<1>4. ASSUME NEW h \in Handlers, Logout(h)  PROVE BansStay
  <2>1. [mem EXCEPT !.epoch = mem.epoch + 1].bans = mem.bans
    BY <1>1 DEF Shaped
  <2>2. Save([mem EXCEPT !.epoch = mem.epoch + 1])
    BY <1>4 DEF Logout
  <2> QED
    BY <2>1, <2>2, SavedElse DEF BansStay
<1>5. SaveElsewhere => BansStay
  BY SavedElse DEF SaveElsewhere, BansStay
<1>6. ASSUME NEW h \in Handlers, SessionSecret(h)  PROVE BansStay
  BY <1>2, <1>3, <1>6 DEF SessionSecret
<1>7. ASSUME NEW h \in Handlers, CheckBan(h) \/ NewSession(h) \/ Guard(h)  PROVE UNCHANGED <<mem, disk>>
  BY <1>7 DEF CheckBan, NewSession, Guard
<1>8. Tick \/ UNCHANGED signInVars => UNCHANGED <<mem, disk>>
  BY DEF Tick, signInVars
<1> QED
  BY <1>2, <1>3, <1>4, <1>5, <1>6, <1>7, <1>8 DEF Visit

LEMMA ClockMovesOn == SessionsInv /\ [SignInNext]_signInVars => now' \in Nat /\ now <= now'
<1> SUFFICES ASSUME SessionsInv, [SignInNext]_signInVars  PROVE now' \in Nat /\ now <= now'
  OBVIOUS
<1>1. now \in Nat
  BY DEF SessionsInv, Shapes
<1>2. now' = now \/ now' = now + 1
  BY DEF SignInNext, CheckBan, RecordLoginFailure, RecordLoginSuccess, SessionSecret, NewSession, Guard, Logout,
         Visit, SaveElsewhere, Restart, Tick, signInVars
<1> QED
  BY <1>1, <1>2

(* A step, with the histories it leaves. *)
BansStep ==
  /\ Remembers(mem'.bans, now) /\ Remembers(disk'.bans, now)
  /\ \A a \in Addrs : KeptFor(mem.bans[a], mem'.bans[a], a) \/ (behind /\ mem' = disk)

LEMMA EachStepRemembers ==
  ASSUME BansInv, [SignInNext]_signInVars
  PROVE  BansStep
<1>1. ASSUME NEW h \in Handlers, RecordLoginFailure(h)  PROVE BansStep
  BY <1>1, FailureRemembered DEF BansStep
<1>2. ASSUME NEW h \in Handlers, RecordLoginSuccess(h)  PROVE BansStep
  BY <1>2, SuccessRemembered DEF BansStep
<1>3. BansStay => BansStep
  BY DEF BansStay, BansStep, BansInv, KeptFor
<1>4. Restart => BansStep
  BY DEF Restart, BansStep, BansInv, KeptFor, SessionsInv, AsSaved
<1> QED
  BY <1>1, <1>2, <1>3, <1>4, BansStayOtherwise DEF SignInNext

LEMMA BansNext == BansInv /\ [SignInNext]_signInVars => BansInv'
<1> SUFFICES ASSUME BansInv, [SignInNext]_signInVars  PROVE BansInv'
  OBVIOUS
<1>1. now \in Nat /\ now' \in Nat /\ now <= now'
  BY ClockMovesOn DEF BansInv, SessionsInv, Shapes
<1>2. Remembers(mem'.bans, now) /\ Remembers(disk'.bans, now)
  BY EachStepRemembers DEF BansStep
<1>3. Remembers(mem'.bans, now') /\ Remembers(disk'.bans, now')
  BY <1>1, <1>2, RemembersLater
<1> QED
  BY <1>3, NextSessions DEF BansInv

(* An address's failures and its ban outlive other addresses' logins,      *)
(* concurrent requests of its own and restarts, for any number of          *)
(* addresses and requests and any lengths of the bans: they grow by a      *)
(* failure from there, which shortens no ban but one at its longest, and   *)
(* vanish by a right password from there or when stale (recordLoginFailure,*)
(* recordLoginSuccess, forgetStaleBans).                                   *)
THEOREM HistoriesAreKept == SignInSpec => HistoryKept
<1>1. BansInv /\ [SignInNext]_signInVars =>
        [\A a \in Addrs :
           LET old == mem.bans[a]
               new == mem'.bans[a]
           IN  \/ new = old
               \/ /\ Mistaken(a)
                  /\ new.strikes = old.strikes + 1
                  /\ new.until >= old.until \/ new.until = new.last + MaxBan
               \/ /\ new = NoHistory
                  /\ Proven(a) \/ (old.until <= now /\ now - old.last > StaleAfter)
               \/ behind /\ mem' = disk]_signInVars
  BY EachStepRemembers DEF BansStep, KeptFor
<1> QED
  BY <1>1, BansInit, BansNext, PTL DEF SignInSpec, HistoryKept

-----------------------------------------------------------------------------
(* A code is exchanged at most once, and a sign-in that waits is left      *)
(* waiting, whatever the number of sign-ins and of requests finishing them.*)

Finishing == {NotFinishing} \cup [at : {"named", "exchanging"}, state : States]

Exchanging(f, s) == finish[f] = [at |-> "exchanging", state |-> s]

FlowsTypeOK ==
  /\ begun \subseteq States
  /\ DOMAIN flows \subseteq begun
  /\ finish \in [Finishers -> Finishing]
  /\ exchanged \in [States -> Nat]

(* Each state is at one place at most: still to be drawn, waiting, with    *)
(* one finisher, or spent.                                                 *)
OnePlace ==
  /\ \A s \in States : s \notin begun \/ s \in DOMAIN flows => exchanged[s] = 0
  /\ \A s \in States, f \in Finishers :
       Exchanging(f, s) => s \in begun /\ s \notin DOMAIN flows /\ exchanged[s] = 0
  /\ \A s \in States, f, g \in Finishers : Exchanging(f, s) /\ Exchanging(g, s) => f = g
  /\ \A s \in States : exchanged[s] <= 1

Once == FlowsTypeOK /\ OnePlace

(* What pruning and taking out leave was there before.                     *)
LEMMA PrunedDomain ==
  /\ DOMAIN Pruned = {s \in DOMAIN flows : clock - flows[s] <= LoginFlowTTL}
  /\ DOMAIN Pruned \subseteq DOMAIN flows
BY DEF Pruned, Restrict

LEMMA WithDomain ==
  ASSUME NEW pending, NEW s, NEW t
  PROVE  DOMAIN With(pending, s, t) = DOMAIN pending \cup {s}
BY DEF With

LEMMA WithoutDomain ==
  ASSUME NEW pending, NEW s
  PROVE  DOMAIN Without(pending, s) = DOMAIN pending \ {s}
BY DEF Without, Restrict

LEMMA InitOnce == FlowsInit => Once
BY DEF FlowsInit, Once, FlowsTypeOK, OnePlace, Finishing, NotFinishing, Exchanging

(* A step that takes sign-ins out of the pending set, and moves no         *)
(* finisher to an exchange, keeps every state in one place.                *)
LEMMA Lessened ==
  ASSUME Once, DOMAIN flows' \subseteq DOMAIN flows, begun' = begun, exchanged' = exchanged,
         finish' \in [Finishers -> Finishing],
         \A s \in States, f \in Finishers : Exchanging(f, s)' => Exchanging(f, s)
  PROVE  Once'
<1>1. FlowsTypeOK'
  BY DEF Once, FlowsTypeOK
<1>2. OnePlace'
  BY DEF Once, FlowsTypeOK, OnePlace
<1> QED
  BY <1>1, <1>2 DEF Once

LEMMA StartDomain ==
  ASSUME NEW s, Start(s)
  PROVE  DOMAIN flows' = DOMAIN Pruned \/ DOMAIN flows' = DOMAIN Pruned \cup {s}
<1>1. flows' = Pruned \/ flows' = With(Pruned, s, clock)
  BY DEF Start
<1>2. DOMAIN With(Pruned, s, clock) = DOMAIN Pruned \cup {s}
  BY WithDomain
<1> QED
  BY <1>1, <1>2

LEMMA TakeDomain ==
  ASSUME NEW f, Take(f)
  PROVE  DOMAIN flows' = DOMAIN Pruned \ {finish[f].state}
<1>1. flows' = Without(Pruned, finish[f].state)
  BY DEF Take
<1>2. DOMAIN Without(Pruned, finish[f].state) = DOMAIN Pruned \ {finish[f].state}
  BY WithoutDomain
<1> QED
  BY <1>1, <1>2

LEMMA StartOnce ==
  ASSUME Once, NEW s \in States, Start(s)
  PROVE  Once'
<1>1. DOMAIN flows' \subseteq DOMAIN flows \cup {s}
  BY StartDomain, PrunedDomain
<1>2. FlowsTypeOK'
  BY <1>1 DEF Once, FlowsTypeOK, Start
<1>3. exchanged[s] = 0 /\ \A f \in Finishers : ~Exchanging(f, s)
  BY DEF Once, OnePlace, Start
<1>4. ASSUME NEW r \in States, NEW f \in Finishers PROVE Exchanging(f, r)' <=> Exchanging(f, r)
  BY DEF Start, Exchanging
<1>5. OnePlace'
  BY <1>1, <1>3, <1>4 DEF Once, FlowsTypeOK, OnePlace, Start
<1> QED
  BY <1>2, <1>5 DEF Once

LEMMA NamedOnce ==
  ASSUME Once, NEW f \in Finishers, Named(f)
  PROVE  Once'
<1>1. PICK s \in begun : finish' = [finish EXCEPT ![f] = [at |-> "named", state |-> s]]
  BY DEF Named
<1>2. s \in States
  BY DEF Once, FlowsTypeOK
<1>3. finish' \in [Finishers -> Finishing]
  BY <1>1, <1>2 DEF Once, FlowsTypeOK, Finishing
<1>4. ASSUME NEW r \in States, NEW g \in Finishers, Exchanging(g, r)' PROVE Exchanging(g, r)
  <2>1. finish[g] = finish'[g] \/ finish'[g] = [at |-> "named", state |-> s]
    BY <1>1 DEF Once, FlowsTypeOK
  <2>2. finish'[g] # [at |-> "named", state |-> s]
    BY <1>4 DEF Exchanging
  <2> QED
    BY <1>4, <2>1, <2>2 DEF Exchanging
<1> QED
  BY <1>3, <1>4, Lessened DEF Named

LEMMA OnlyPendingOnce ==
  ASSUME Once, NEW f \in Finishers, OnlyPending(f)
  PROVE  Once'
<1> DEFINE s == CHOOSE r \in DOMAIN Pruned : TRUE
<1>1. CASE Cardinality(DOMAIN Pruned) = 1 /\ DOMAIN Pruned # {}
  <2>1. s \in DOMAIN Pruned
    BY <1>1
  <2>2. s \in States
    BY <2>1, PrunedDomain DEF Once, FlowsTypeOK
  <2> HIDE DEF s
  <2>3. finish' = [finish EXCEPT ![f] = [at |-> "named", state |-> s]]
    BY <1>1 DEF OnlyPending, s
  <2>4. finish' \in [Finishers -> Finishing]
    BY <2>2, <2>3 DEF Once, FlowsTypeOK, Finishing
  <2>5. ASSUME NEW r \in States, NEW g \in Finishers, Exchanging(g, r)' PROVE Exchanging(g, r)
    <3>1. finish[g] = finish'[g] \/ finish'[g] = [at |-> "named", state |-> s]
      BY <2>3 DEF Once, FlowsTypeOK
    <3>2. finish'[g] # [at |-> "named", state |-> s]
      BY <2>5 DEF Exchanging
    <3> QED
      BY <2>5, <3>1, <3>2 DEF Exchanging
  <2> QED
    BY <2>4, <2>5, PrunedDomain, Lessened DEF OnlyPending
<1>2. CASE ~(Cardinality(DOMAIN Pruned) = 1)
  <2>1. finish' = finish
    BY <1>2 DEF OnlyPending
  <2>2. finish' \in [Finishers -> Finishing]
    BY <2>1 DEF Once, FlowsTypeOK
  <2>3. ASSUME NEW r \in States, NEW g \in Finishers, Exchanging(g, r)' PROVE Exchanging(g, r)
    BY <2>1, <2>3 DEF Exchanging
  <2> QED
    BY <2>2, <2>3, PrunedDomain, Lessened DEF OnlyPending
<1>3. ~(Cardinality(DOMAIN Pruned) = 1 /\ DOMAIN Pruned = {})
  BY FS_EmptySet
<1> QED
  BY <1>1, <1>2, <1>3

(* A finisher gets hold of a sign-in only by taking it out.                *)
LEMMA TakeOnce ==
  ASSUME Once, NEW f \in Finishers, Take(f)
  PROVE  Once'
<1> DEFINE s == finish[f].state
<1>1. s \in States /\ finish[f].at = "named"
  BY DEF Once, FlowsTypeOK, Finishing, NotFinishing, Take
<1>2. DOMAIN flows' = DOMAIN Pruned \ {s}
  BY TakeDomain
<1>3. CASE s \in DOMAIN Pruned
  <2>1. finish' = [finish EXCEPT ![f] = [at |-> "exchanging", state |-> s]]
    BY <1>3 DEF Take
  <2>2. s \in begun /\ exchanged[s] = 0 /\ \A g \in Finishers : ~Exchanging(g, s)
    BY <1>1, <1>3, PrunedDomain DEF Once, FlowsTypeOK, OnePlace
  <2> HIDE DEF s
  <2>3. FlowsTypeOK'
    <3>1. finish' \in [Finishers -> Finishing]
      BY <1>1, <2>1 DEF Once, FlowsTypeOK, Finishing
    <3> QED
      BY <3>1, <1>2, PrunedDomain DEF Once, FlowsTypeOK, Take
  <2>4. ASSUME NEW r \in States, NEW g \in Finishers
        PROVE  Exchanging(g, r)' <=> (g = f /\ r = s) \/ (g # f /\ Exchanging(g, r))
    <3>1. g # f => finish'[g] = finish[g]
      BY <2>1 DEF Once, FlowsTypeOK
    <3>2. finish'[f] = [at |-> "exchanging", state |-> s]
      BY <2>1 DEF Once, FlowsTypeOK
    <3> QED
      BY <3>1, <3>2 DEF Exchanging
  <2>5. exchanged' = exchanged /\ begun' = begun
    BY DEF Take
  <2>6. OnePlace'
    BY <1>1, <1>2, <2>2, <2>4, <2>5, PrunedDomain DEF Once, FlowsTypeOK, OnePlace
  <2> QED
    BY <2>3, <2>6 DEF Once
<1>4. CASE s \notin DOMAIN Pruned
  <2>1. finish' = [finish EXCEPT ![f] = NotFinishing]
    BY <1>4 DEF Take
  <2>2. finish' \in [Finishers -> Finishing]
    BY <2>1 DEF Once, FlowsTypeOK, Finishing
  <2>3. ASSUME NEW r \in States, NEW g \in Finishers, Exchanging(g, r)' PROVE Exchanging(g, r)
    <3>1. finish'[g] = finish[g] \/ finish'[g] = NotFinishing
      BY <2>1 DEF Once, FlowsTypeOK
    <3>2. finish'[g] # NotFinishing
      BY <2>3 DEF Exchanging, NotFinishing
    <3> QED
      BY <2>3, <3>1, <3>2 DEF Exchanging
  <2> QED
    BY <1>2, <2>2, <2>3, PrunedDomain, Lessened DEF Take
<1> QED
  BY <1>3, <1>4

LEMMA ExchangeOnce ==
  ASSUME Once, NEW f \in Finishers, Exchange(f)
  PROVE  Once'
<1> DEFINE s == finish[f].state
<1>1. s \in States /\ Exchanging(f, s)
  BY DEF Once, FlowsTypeOK, Finishing, NotFinishing, Exchange, Exchanging
<1>2. exchanged[s] = 0 /\ s \in begun /\ s \notin DOMAIN flows
      /\ \A g \in Finishers : Exchanging(g, s) => g = f
  BY <1>1 DEF Once, OnePlace
<1>3. exchanged' = [exchanged EXCEPT ![s] = 1]
  BY <1>1, <1>2 DEF Once, FlowsTypeOK, Exchange
<1>4. finish' = [finish EXCEPT ![f] = NotFinishing] /\ flows' = flows /\ begun' = begun
  BY DEF Exchange
<1> HIDE DEF s
<1>5. FlowsTypeOK'
  <2>1. finish' \in [Finishers -> Finishing]
    BY <1>4 DEF Once, FlowsTypeOK, Finishing
  <2>2. exchanged' \in [States -> Nat]
    BY <1>1, <1>3 DEF Once, FlowsTypeOK
  <2> QED
    BY <2>1, <2>2, <1>4 DEF Once, FlowsTypeOK
<1>6. ASSUME NEW r \in States, NEW g \in Finishers
      PROVE  Exchanging(g, r)' <=> g # f /\ Exchanging(g, r)
  <2>1. finish'[g] = IF g = f THEN NotFinishing ELSE finish[g]
    BY <1>4 DEF Once, FlowsTypeOK
  <2> QED
    BY <2>1 DEF Exchanging, NotFinishing
<1>7. \A r \in States : exchanged'[r] = IF r = s THEN 1 ELSE exchanged[r]
  BY <1>3 DEF Once, FlowsTypeOK
<1>8. OnePlace'
  BY <1>1, <1>2, <1>4, <1>6, <1>7 DEF Once, FlowsTypeOK, OnePlace
<1> QED
  BY <1>5, <1>8 DEF Once

LEMMA RebootOnce == Once /\ Reboot => Once'
<1> SUFFICES ASSUME Once, Reboot PROVE Once'
  OBVIOUS
<1>1. DOMAIN flows' = {} /\ finish' = [f \in Finishers |-> NotFinishing]
  BY DEF Reboot
<1>2. finish' \in [Finishers -> Finishing]
  BY <1>1 DEF Finishing
<1>3. ASSUME NEW s \in States, NEW f \in Finishers, Exchanging(f, s)' PROVE Exchanging(f, s)
  BY <1>1, <1>3 DEF Exchanging, NotFinishing
<1> QED
  BY <1>1, <1>2, <1>3, Lessened DEF Reboot

LEMMA QuietOnce ==
  ASSUME Once, UNCHANGED <<flows, finish, begun, exchanged>>
  PROVE  Once'
BY DEF Once, FlowsTypeOK, OnePlace, Exchanging

LEMMA NextOnce == Once /\ [FlowsNext]_flowVars => Once'
<1> SUFFICES ASSUME Once, [FlowsNext]_flowVars PROVE Once'
  OBVIOUS
<1>1. ASSUME NEW s \in States, Start(s) PROVE Once'
  BY <1>1, StartOnce
<1>2. ASSUME NEW f \in Finishers, Named(f) PROVE Once'
  BY <1>2, NamedOnce
<1>3. ASSUME NEW f \in Finishers, OnlyPending(f) PROVE Once'
  BY <1>3, OnlyPendingOnce
<1>4. ASSUME NEW f \in Finishers, Take(f) PROVE Once'
  BY <1>4, TakeOnce
<1>5. ASSUME NEW f \in Finishers, Exchange(f) PROVE Once'
  BY <1>5, ExchangeOnce
<1>6. CASE Reboot
  BY <1>6, RebootOnce
<1>7. CASE TimePasses
  BY <1>7, QuietOnce DEF TimePasses
<1>8. CASE UNCHANGED flowVars
  BY <1>8, QuietOnce DEF flowVars
<1> QED
  BY <1>1, <1>2, <1>3, <1>4, <1>5, <1>6, <1>7, <1>8 DEF FlowsNext

(* However many requests bring back a code, with its state or without, and *)
(* whatever expires or restarts meanwhile, it is exchanged at most once.   *)
THEOREM CodesAreExchangedOnce == FlowsSpec => []ExchangedOnce
<1>1. Once => ExchangedOnce
  BY DEF Once, OnePlace, ExchangedOnce
<1> QED
  BY InitOnce, NextOnce, <1>1, PTL DEF FlowsSpec

(* A state that leaves the pending set in a step leaves it for a reason.   *)
Excused(s) ==
  \/ boots' # boots
  \/ clock - flows[s] > LoginFlowTTL
  \/ \E f \in Finishers : finish[f] # finish'[f]
                          /\ finish'[f] = [at |-> "exchanging", state |-> s]

Waits == clock \in Nat /\ boots \in Nat /\ \A s \in DOMAIN flows : flows[s] \in Nat

LEMMA InitWaits == FlowsInit => Waits
BY DEF FlowsInit, Waits

LEMMA PrunedWaits ==
  ASSUME Waits, NEW s \in DOMAIN Pruned
  PROVE  Pruned[s] \in Nat
BY DEF Waits, Pruned, Restrict

LEMMA NextWaits == Waits /\ [FlowsNext]_flowVars => Waits'
<1> SUFFICES ASSUME Waits, [FlowsNext]_flowVars PROVE Waits'
  OBVIOUS
<1>1. ASSUME NEW s \in States, Start(s) PROVE Waits'
  BY <1>1, PrunedWaits DEF Start, With, Waits
<1>2. ASSUME NEW f \in Finishers, Named(f) PROVE Waits'
  BY <1>2 DEF Named, Waits
<1>3. ASSUME NEW f \in Finishers, OnlyPending(f) PROVE Waits'
  BY <1>3, PrunedWaits DEF OnlyPending, Waits
<1>4. ASSUME NEW f \in Finishers, Take(f) PROVE Waits'
  BY <1>4, PrunedWaits DEF Take, Without, Restrict, Waits
<1>5. ASSUME NEW f \in Finishers, Exchange(f) PROVE Waits'
  BY <1>5 DEF Exchange, Waits
<1>6. CASE Reboot
  BY <1>6 DEF Reboot, Waits
<1>7. CASE TimePasses
  BY <1>7 DEF TimePasses, Waits
<1>8. CASE UNCHANGED flowVars
  BY <1>8 DEF flowVars, Waits
<1> QED
  BY <1>1, <1>2, <1>3, <1>4, <1>5, <1>6, <1>7, <1>8 DEF FlowsNext

(* What pruning drops has waited too long.                                 *)
LEMMA DroppedIsOld ==
  ASSUME Waits, NEW s \in DOMAIN flows, s \notin DOMAIN Pruned
  PROVE  clock - flows[s] > LoginFlowTTL
BY PrunedDomain, FlowsAssumption DEF Waits

LEMMA StepKeeps ==
  ASSUME Once, Waits, [FlowsNext]_flowVars, NEW s \in DOMAIN flows, s \notin DOMAIN flows'
  PROVE  Excused(s)
<1>1. ASSUME NEW r \in States, Start(r) PROVE Excused(s)
  <2>1. s \notin DOMAIN Pruned
    BY <1>1, StartDomain
  <2> QED
    BY <2>1, DroppedIsOld DEF Excused
<1>2. ASSUME NEW f \in Finishers, Named(f) PROVE Excused(s)
  BY <1>2 DEF Named
<1>3. ASSUME NEW f \in Finishers, OnlyPending(f) PROVE Excused(s)
  BY <1>3, DroppedIsOld DEF OnlyPending, Excused
<1>4. ASSUME NEW f \in Finishers, Take(f) PROVE Excused(s)
  <2>1. CASE s \notin DOMAIN Pruned
    BY <2>1, DroppedIsOld DEF Excused
  <2>2. CASE s \in DOMAIN Pruned
    <3>1. s = finish[f].state /\ finish[f].at = "named"
      BY <1>4, <2>2, TakeDomain DEF Take
    <3>2. finish'[f] = [at |-> "exchanging", state |-> s]
      BY <1>4, <2>2, <3>1 DEF Take, Once, FlowsTypeOK
    <3>3. finish[f] # finish'[f]
      BY <3>1, <3>2
    <3> QED
      BY <3>2, <3>3 DEF Excused
  <2> QED
    BY <2>1, <2>2
<1>5. ASSUME NEW f \in Finishers, Exchange(f) PROVE Excused(s)
  BY <1>5 DEF Exchange
<1>6. CASE Reboot
  BY <1>6 DEF Reboot, Waits, Excused
<1>7. CASE TimePasses
  BY <1>7 DEF TimePasses
<1>8. CASE UNCHANGED flowVars
  BY <1>8 DEF flowVars
<1> QED
  BY <1>1, <1>2, <1>3, <1>4, <1>5, <1>6, <1>7, <1>8 DEF FlowsNext

(* A sign-in that waits is ended by a request that takes it, by its time   *)
(* or by the end of the process, never by another sign-in.                 *)
THEOREM SignInsAreKept == FlowsSpec => PendingKept
<1>1. Once /\ Waits /\ [FlowsNext]_flowVars =>
        [\A s \in DOMAIN flows \ DOMAIN flows' :
           \/ boots' # boots
           \/ clock - flows[s] > LoginFlowTTL
           \/ \E f \in Finishers : finish[f] # finish'[f]
                                   /\ finish'[f] = [at |-> "exchanging", state |-> s]]_flowVars
  BY StepKeeps DEF Excused
<1> QED
  BY InitOnce, NextOnce, InitWaits, NextWaits, <1>1, PTL DEF FlowsSpec, PendingKept

Waiting == {r \in DOMAIN flows : clock - flows[r] <= LoginFlowTTL}

LEMMA StepAdmits ==
  ASSUME [FlowsNext]_flowVars, NEW s \in begun' \ begun, s \notin DOMAIN flows'
  PROVE  Cardinality(Waiting) >= MaxLoginFlows
<1>1. ASSUME NEW r \in States, Start(r) PROVE Cardinality(Waiting) >= MaxLoginFlows
  <2>1. r = s
    BY <1>1 DEF Start
  <2>2. CASE Cardinality(DOMAIN Pruned) >= MaxLoginFlows
    <3>1. DOMAIN Pruned = Waiting
      BY PrunedDomain DEF Waiting
    <3> QED
      BY <2>2, <3>1
  <2>3. CASE ~(Cardinality(DOMAIN Pruned) >= MaxLoginFlows)
    <3>1. flows' = With(Pruned, r, clock)
      BY <1>1, <2>3 DEF Start
    <3>2. DOMAIN With(Pruned, r, clock) = DOMAIN Pruned \cup {r}
      BY WithDomain
    <3> QED
      BY <2>1, <3>1, <3>2
  <2> QED
    BY <2>2, <2>3
<1> QED
  BY <1>1 DEF FlowsNext, Named, OnlyPending, Take, Exchange, Reboot, TimePasses, flowVars

(* A sign-in is refused only when as many as may wait are waiting, none of *)
(* them too long.                                                          *)
THEOREM RefusedOnlyWhenFull == FlowsSpec => RefusedWhenFull
<1>1. [FlowsNext]_flowVars =>
        [\A s \in begun' \ begun :
           s \notin DOMAIN flows' =>
             Cardinality({r \in DOMAIN flows : clock - flows[r] <= LoginFlowTTL}) >= MaxLoginFlows]_flowVars
  BY StepAdmits DEF Waiting
<1> QED
  BY <1>1, PTL DEF FlowsSpec, RefusedWhenFull
-----------------------------------------------------------------------------
(* Tests of accounts. *)

TestStages == {"asking_leave", "opening", "reading", "served", "failed"}
Members == [creds : Credentials, cooling : BOOLEAN]
Sendings == [creds : Credentials, time : Nat]
Tests == [at : TestStages, place : Int, creds : Credentials, frames : Nat]

TestOf(t) == t = NoTest \/ (t \in Tests /\ (t.at = "served" => t.frames > 0))

(* No probe of an account began later than the throttle remembers.         *)
ProbesInv ==
  /\ members \in Seq(Members)
  /\ time \in Nat
  /\ lastProbe \in [Credentials -> Int]
  /\ DOMAIN test = Clicks /\ \A k \in Clicks : TestOf(test[k])
  /\ sent \in Seq(Sendings)
  /\ \A i \in DOMAIN sent :
       lastProbe[sent[i].creds] # NeverProbed /\ sent[i].time <= lastProbe[sent[i].creds]
  /\ Spaced

LEMMA InitProbes == ProbesInit => ProbesInv
<1> SUFFICES ASSUME ProbesInit PROVE ProbesInv
  OBVIOUS
<1>1. /\ members = <<>> /\ time = 0 /\ sent = <<>>
      /\ lastProbe = [c \in Credentials |-> NeverProbed] /\ test = [k \in Clicks |-> NoTest]
  BY DEF ProbesInit
<1> QED
  BY <1>1 DEF ProbesInv, Spaced, TestOf, NeverProbed

(* A step of a handler that sends nothing: only its own test changes.      *)
LEMMA TestMoves ==
  ASSUME ProbesInv, NEW k \in Clicks, NEW t, TestOf(t), test' = [test EXCEPT ![k] = t],
         UNCHANGED <<time, lastProbe, sent>>,
         members' \in Seq(Members)
  PROVE  ProbesInv'
<1>1. DOMAIN test' = Clicks /\ \A j \in Clicks : TestOf(test'[j])
  BY DEF ProbesInv
<1> QED
  BY <1>1 DEF ProbesInv, Spaced, TestOf, NeverProbed

LEMMA TestMovesOn ==
  ASSUME ProbesInv, NEW k \in Clicks, test[k] # NoTest, NEW at \in TestStages,
         at = "served" => test[k].frames > 0, ProbeGoes(k, at)
  PROVE  ProbesInv' /\ test'[k] # NoTest
<1>1. test[k] \in Tests /\ k \in DOMAIN test
  BY DEF ProbesInv, TestOf
<1> DEFINE t == [test[k] EXCEPT !.at = at]
<1>2. t \in Tests /\ t.at = at /\ t.frames = test[k].frames
  BY <1>1 DEF Tests
<1>3. TestOf(t) /\ t # NoTest
  BY <1>2 DEF TestOf, NoTest, TestStages
<1>4. test' = [test EXCEPT ![k] = t] /\ test'[k] = t
  BY <1>1 DEF ProbeGoes
<1>5. UNCHANGED <<time, lastProbe, sent>> /\ members' \in Seq(Members)
  BY DEF ProbeGoes, ProbesInv
<1> HIDE DEF t
<1> QED
  BY <1>3, <1>4, <1>5, TestMoves

LEMMA ClickProbes == ASSUME ProbesInv, NEW k \in Clicks, Click(k) PROVE ProbesInv'
<1>1. PICK i \in DOMAIN members :
        test' = [test EXCEPT ![k] = [at |-> "asking_leave", place |-> i,
                                     creds |-> members[i].creds, frames |-> 0]]
  BY DEF Click
<1>4. members[i] \in Members /\ i \in Int
  BY DEF ProbesInv
<1>5. members[i].creds \in Credentials /\ i \in Int
  BY <1>4 DEF Members
<1>2. [at |-> "asking_leave", place |-> i, creds |-> members[i].creds, frames |-> 0] \in Tests
  BY <1>5 DEF Tests, TestStages
<1>3. TestOf([at |-> "asking_leave", place |-> i, creds |-> members[i].creds, frames |-> 0])
  BY <1>2 DEF TestOf
<1>6. UNCHANGED <<time, lastProbe, sent>> /\ members' \in Seq(Members)
  BY DEF Click, ProbesInv
<1> QED
  BY <1>1, <1>3, <1>6, TestMoves

LEMMA BeginProbeProbes == ASSUME ProbesInv, NEW k \in Clicks, BeginProbe(k) PROVE ProbesInv'
<1> DEFINE c == test[k].creds
<1>1. /\ test[k].at = "asking_leave" /\ UNCHANGED <<members, time>>
      /\ members' \in Seq(Members)
  BY DEF BeginProbe, ProbesInv
<1>2. test[k] \in Tests /\ k \in DOMAIN test
  <2>1. TestOf(test[k]) /\ k \in DOMAIN test
    BY DEF ProbesInv
  <2>2. test[k] # NoTest
    BY <1>1 DEF NoTest
  <2> QED
    BY <2>1, <2>2 DEF TestOf
<1>3. CASE TooSoon(c)
  <2>1. test' = [test EXCEPT ![k] = NoTest] /\ UNCHANGED <<lastProbe, sent>>
    BY <1>3 DEF BeginProbe
  <2>2. TestOf(NoTest)
    BY DEF TestOf
  <2> QED
    BY <1>1, <2>1, <2>2, TestMoves
<1>4. CASE ~TooSoon(c)
  <2> DEFINE e == [creds |-> c, time |-> time]
  <2>1. /\ test' = [test EXCEPT ![k].at = "opening"] /\ lastProbe' = [lastProbe EXCEPT ![c] = time]
        /\ sent' = Append(sent, e)
    BY <1>4 DEF BeginProbe
  <2>2. /\ c \in Credentials /\ time \in Nat /\ e \in Sendings
        /\ sent \in Seq(Sendings) /\ lastProbe \in [Credentials -> Int]
    BY <1>2 DEF Tests, Sendings, ProbesInv
  <2>11. \A i \in DOMAIN sent : sent[i].creds \in Credentials /\ sent[i].time \in Nat
    <3> SUFFICES ASSUME NEW i \in DOMAIN sent PROVE sent[i].creds \in Credentials /\ sent[i].time \in Nat
      OBVIOUS
    <3>1. sent[i] \in Sendings
      BY <2>2
    <3> QED
      BY <3>1 DEF Sendings
  <2>3. [test[k] EXCEPT !.at = "opening"] \in Tests /\ [test[k] EXCEPT !.at = "opening"].at = "opening"
    BY <1>2 DEF Tests, TestStages
  <2>4. DOMAIN test' = Clicks /\ \A j \in Clicks : TestOf(test'[j])
    BY <1>2, <2>1, <2>3 DEF ProbesInv, TestOf
  <2>5. /\ sent' \in Seq(Sendings) /\ Len(sent') = Len(sent) + 1
        /\ DOMAIN sent' = 1..(Len(sent) + 1) /\ DOMAIN sent = 1..Len(sent) /\ Len(sent) \in Nat
        /\ sent'[Len(sent) + 1] = e /\ \A i \in DOMAIN sent : sent'[i] = sent[i]
    BY <2>1, <2>2
  <2>6. e.creds = c /\ e.time = time /\ lastProbe'[c] = time /\ lastProbe' \in [Credentials -> Int]
        /\ \A d \in Credentials : d # c => lastProbe'[d] = lastProbe[d]
    BY <2>1, <2>2
  <2>7. lastProbe[c] # NeverProbed => time - lastProbe[c] >= ProbeInterval
    BY <1>4, <2>2, ProbesAssumption DEF TooSoon
  <2>8. \A i \in DOMAIN sent : sent[i].creds = c => time - sent[i].time >= ProbeInterval
    <3> SUFFICES ASSUME NEW i \in DOMAIN sent, sent[i].creds = c
        PROVE  time - sent[i].time >= ProbeInterval
      OBVIOUS
    <3>1. lastProbe[c] # NeverProbed /\ sent[i].time <= lastProbe[c]
      BY DEF ProbesInv
    <3>2. sent[i].time \in Nat /\ lastProbe[c] \in Int /\ ProbeInterval \in Nat
      BY <2>2, <2>11, ProbesAssumption
    <3> QED
      BY <2>2, <2>7, <3>1, <3>2
  <2>9. \A i \in DOMAIN sent' :
          lastProbe'[sent'[i].creds] # NeverProbed /\ sent'[i].time <= lastProbe'[sent'[i].creds]
    <3> SUFFICES ASSUME NEW i \in DOMAIN sent'
        PROVE  lastProbe'[sent'[i].creds] # NeverProbed /\ sent'[i].time <= lastProbe'[sent'[i].creds]
      OBVIOUS
    <3>1. CASE i = Len(sent) + 1
      BY <2>2, <2>5, <2>6, <3>1 DEF NeverProbed
    <3>2. CASE i # Len(sent) + 1
      <4>0. i \in DOMAIN sent /\ sent'[i] = sent[i]
        BY <2>5, <3>2
      <4>1. sent[i].creds \in Credentials /\ sent[i].time \in Nat
        BY <2>11, <4>0
      <4>2. lastProbe[sent[i].creds] # NeverProbed /\ sent[i].time <= lastProbe[sent[i].creds]
        BY <4>0 DEF ProbesInv
      <4>3. CASE sent[i].creds = c
        <5>1. time - sent[i].time >= ProbeInterval
          BY <2>8, <4>0, <4>3
        <5>2. sent[i].time <= time /\ time # NeverProbed
          BY <2>2, <4>1, <5>1, ProbesAssumption DEF NeverProbed
        <5>3. sent'[i].creds = c /\ sent'[i].time = sent[i].time
          BY <4>0, <4>3
        <5> QED
          BY <2>6, <5>2, <5>3
      <4>4. CASE sent[i].creds # c
        BY <2>6, <4>0, <4>1, <4>2, <4>4
      <4> QED
        BY <4>3, <4>4
    <3> QED
      BY <3>1, <3>2
  <2>10. Spaced'
    <3> SUFFICES ASSUME NEW i \in DOMAIN sent', NEW j \in DOMAIN sent', i < j,
                        sent'[i].creds = sent'[j].creds
        PROVE  sent'[j].time - sent'[i].time >= ProbeInterval
      BY DEF Spaced
    <3>1. i \in DOMAIN sent /\ sent'[i] = sent[i]
      BY <2>5
    <3>2. CASE j = Len(sent) + 1
      BY <2>5, <2>6, <2>8, <3>1, <3>2
    <3>3. CASE j # Len(sent) + 1
      <4>1. j \in DOMAIN sent /\ sent'[j] = sent[j]
        BY <2>5, <3>3
      <4> QED
        BY <3>1, <4>1 DEF ProbesInv, Spaced
    <3> QED
      BY <3>2, <3>3
  <2> QED
    BY <1>1, <2>2, <2>4, <2>5, <2>6, <2>9, <2>10 DEF ProbesInv
<1> QED
  BY <1>3, <1>4

LEMMA ProbeFrameProbes == ASSUME ProbesInv, NEW k \in Clicks, ProbeFrame(k) PROVE ProbesInv'
<1>1. test[k].at = "reading" /\ UNCHANGED <<members, time, lastProbe, sent>>
  BY DEF ProbeFrame
<1>2. test[k] \in Tests /\ k \in DOMAIN test /\ test[k].frames \in Nat
  BY <1>1 DEF ProbesInv, TestOf, NoTest, Tests
<1> DEFINE frames == test[k].frames + 1
           t == [test[k] EXCEPT !.frames = frames, !.at = IF frames = FrameLimit THEN "served" ELSE "reading"]
<1>3. test' = [test EXCEPT ![k] = t]
  BY <1>2 DEF ProbeFrame
<1>6. frames \in Nat /\ frames > 0
  BY <1>2
<1> HIDE DEF frames
<1>4. t \in Tests /\ t.frames = frames
  BY <1>2, <1>6 DEF Tests, TestStages
<1> HIDE DEF t
<1>5. TestOf(t)
  BY <1>4, <1>6 DEF TestOf
<1> QED
  BY <1>1, <1>3, <1>5, TestMoves DEF ProbesInv

(* Where a credential stands.                                              *)
LEMMA PlaceHolds ==
  ASSUME ProbesInv, NEW c \in ProbedIn(members)
  PROVE  PlaceOfCreds(c) \in DOMAIN members /\ members[PlaceOfCreds(c)].creds = c
<1> DEFINE I == {i \in 1..Len(members) : members[i].creds = c}
<1>1. members \in Seq(Members)
  BY DEF ProbesInv
<1>2. I # {} /\ I \subseteq 1..Len(members) /\ Len(members) \in Nat
  BY <1>1 DEF ProbedIn
<1>3. PlaceOfCreds(c) = Min(I)
  BY <1>2 DEF PlaceOfCreds, SelectInSeq
<1>4. \E x \in I : \A y \in I : x <= y
  <2>1. I \in SUBSET Nat
    BY <1>2
  <2> HIDE DEF I
  <2> QED
    BY <1>2, <2>1, LeastNatural
<1>5. Min(I) \in I
  BY <1>4 DEF Min
<1> QED
  BY <1>1, <1>3, <1>5

(* What a probe that is over does to the pool.                             *)
LEMMA FileProbeProbes ==
  ASSUME ProbesInv, NEW k \in Clicks, FileProbe(k)
  PROVE  ProbesInv' /\ ProvenLift(k)
<1>1. test[k].at \in {"served", "failed"} /\ test' = [test EXCEPT ![k] = NoTest]
      /\ UNCHANGED <<time, lastProbe, sent>>
  BY DEF FileProbe
<1>2. /\ members \in Seq(Members) /\ k \in DOMAIN test
      /\ test[k] \in Tests /\ (test[k].at = "served" => test[k].frames > 0)
  BY <1>1 DEF ProbesInv, TestOf, NoTest
<1> DEFINE c == test[k].creds
           p == PlaceOfCreds(c)
<1>3. CASE test[k].at = "served" /\ c \in ProbedIn(members)
  <2>1. members' = [members EXCEPT ![p].cooling = FALSE]
    BY <1>3 DEF FileProbe
  <2>2. p \in DOMAIN members /\ members[p].creds = c
    BY <1>3, PlaceHolds
  <2>5. members[p] \in Members /\ p \in 1..Len(members)
    BY <1>2, <2>2
  <2>6. \A m \in Members : [m EXCEPT !.cooling = FALSE] = [creds |-> m.creds, cooling |-> FALSE]
    <3> SUFFICES ASSUME NEW m \in Members
        PROVE  [m EXCEPT !.cooling = FALSE] = [creds |-> m.creds, cooling |-> FALSE]
      OBVIOUS
    <3>1. PICK warm : warm = FALSE
      OBVIOUS
    <3>2. [m EXCEPT !.cooling = warm] = [creds |-> m.creds, cooling |-> warm]
      BY DEF Members
    <3> QED
      BY <3>1, <3>2
  <2>3. [members[p] EXCEPT !.cooling = FALSE] = [creds |-> c, cooling |-> FALSE]
    BY <2>2, <2>5, <2>6
  <2> HIDE DEF p
  <2>4. /\ members' \in Seq(Members)
        /\ \A i \in DOMAIN members : i # p => members'[i] = members[i]
        /\ members'[p] = [creds |-> c, cooling |-> FALSE]
    <3>1. c \in Credentials
      BY <1>2 DEF Tests
    <3>2. [creds |-> c, cooling |-> FALSE] \in Members
      BY <3>1 DEF Members
    <3>3. members' = [members EXCEPT ![p] = [creds |-> c, cooling |-> FALSE]]
      BY <2>1, <2>3
    <3> QED
      BY <1>2, <2>5, <3>2, <3>3, ExceptSeq
  <2> QED
    BY <1>1, <1>2, <1>3, <2>4, TestMoves DEF ProvenLift, TestOf
<1>4. CASE ~(test[k].at = "served" /\ c \in ProbedIn(members))
  <2>1. members' = members
    BY <1>4 DEF FileProbe
  <2> QED
    BY <1>1, <1>2, <2>1, TestMoves DEF ProvenLift, TestOf
<1> QED
  BY <1>3, <1>4

(* A change of the pool during a probe.                                    *)
LEMMA PoolProbes ==
  ASSUME ProbesInv, Leave \/ Enter \/ CoolsOrWarms \/ MomentPasses
  PROVE  ProbesInv' /\ test' = test
<1>1. members \in Seq(Members) /\ time \in Nat
  BY DEF ProbesInv
<1>2. test' = test /\ UNCHANGED <<lastProbe, sent>>
  BY DEF Leave, Enter, CoolsOrWarms, MomentPasses
<1>3. time' \in Nat
  BY <1>1 DEF Leave, Enter, CoolsOrWarms, MomentPasses
<1>4. members' \in Seq(Members)
  <2>1. CASE Leave
    <3>1. PICK i \in DOMAIN members : members' = RemoveAt(members, i)
      BY <2>1 DEF Leave
    <3> QED
      BY <1>1, <3>1, RemoveAtProperties
  <2>2. CASE Enter
    BY <1>1, <2>2 DEF Enter, Members
  <2>3. CASE CoolsOrWarms
    <3>1. PICK i \in DOMAIN members : members' = [members EXCEPT ![i].cooling = ~@]
      BY <2>3 DEF CoolsOrWarms
    <3> DEFINE m == [members[i] EXCEPT !.cooling = ~@]
    <3>2. members[i] \in Members /\ i \in 1..Len(members)
      BY <1>1
    <3>3. m \in Members
      BY <3>2 DEF Members
    <3>4. members' = [members EXCEPT ![i] = m]
      BY <1>1, <3>1
    <3> HIDE DEF m
    <3> QED
      BY <1>1, <3>2, <3>3, <3>4, ExceptSeq
  <2>4. CASE MomentPasses
    BY <1>1, <2>4 DEF MomentPasses
  <2> QED
    BY <2>1, <2>2, <2>3, <2>4
<1> QED
  BY <1>2, <1>3, <1>4 DEF ProbesInv, Spaced, TestOf, NeverProbed

LEMMA NextProbes ==
  ProbesInv /\ [ProbesNext]_probeVars =>
    ProbesInv' /\ [Spaced' /\ \A k \in Clicks : ProvenLift(k)]_probeVars
<1> SUFFICES ASSUME ProbesInv, [ProbesNext]_probeVars
    PROVE  ProbesInv' /\ (UNCHANGED probeVars \/ (Spaced' /\ \A k \in Clicks : ProvenLift(k)))
  BY DEF probeVars
<1>1. CASE UNCHANGED probeVars
  BY <1>1 DEF probeVars, ProbesInv, Spaced, TestOf, NeverProbed
<1>2. ASSUME test' = test PROVE \A k \in Clicks : ProvenLift(k)
  BY <1>2 DEF ProvenLift
<1>3. ASSUME members' = members PROVE \A k \in Clicks : ProvenLift(k)
  BY <1>3 DEF ProvenLift
<1>4. ASSUME NEW k \in Clicks, FileProbe(k) PROVE \A j \in Clicks : ProvenLift(j)
  <2>1. \A j \in Clicks : j # k => test'[j] = test[j]
    BY <1>4 DEF FileProbe, ProbesInv
  <2> QED
    BY <1>4, <2>1, FileProbeProbes DEF ProvenLift
<1>5. ASSUME ProbesInv' PROVE Spaced'
  BY <1>5 DEF ProbesInv
<1>6. ASSUME NEW k \in Clicks, HandlesTest(k) PROVE ProbesInv' /\ \A j \in Clicks : ProvenLift(j)
  <2>1. CASE Click(k)
    BY <1>3, <2>1, ClickProbes DEF Click
  <2>2. CASE BeginProbe(k)
    BY <1>3, <2>2, BeginProbeProbes DEF BeginProbe
  <2>3. CASE ProbeOpens(k)
    <3>1. test[k] # NoTest /\ ProbeGoes(k, "reading") /\ "reading" \in TestStages
      BY <2>3 DEF ProbeOpens, NoTest, TestStages
    <3> QED
      BY <1>3, <3>1, TestMovesOn DEF ProbeGoes
  <2>4. CASE ProbeFrame(k)
    BY <1>3, <2>4, ProbeFrameProbes DEF ProbeFrame
  <2>5. CASE ProbeStreamEnds(k)
    <3>1. test[k].at = "reading" /\ test[k] # NoTest
      BY <2>5 DEF ProbeStreamEnds, NoTest
    <3>2. test[k].frames \in Nat
      BY <3>1 DEF ProbesInv, TestOf, Tests
    <3>3. CASE test[k].frames = 0
      <4>1. ProbeGoes(k, "failed") /\ "failed" \in TestStages
        BY <2>5, <3>3 DEF ProbeStreamEnds, TestStages
      <4> QED
        BY <1>3, <3>1, <4>1, TestMovesOn DEF ProbeGoes
    <3>4. CASE test[k].frames # 0
      <4>1. ProbeGoes(k, "served") /\ "served" \in TestStages /\ test[k].frames > 0
        BY <2>5, <3>2, <3>4 DEF ProbeStreamEnds, TestStages
      <4> QED
        BY <1>3, <3>1, <4>1, TestMovesOn DEF ProbeGoes
    <3> QED
      BY <3>3, <3>4
  <2>6. CASE ProbeBreaks(k)
    <3>1. test[k] # NoTest /\ ProbeGoes(k, "failed") /\ "failed" \in TestStages
      BY <2>6 DEF ProbeBreaks, NoTest, TestStages
    <3> QED
      BY <1>3, <3>1, TestMovesOn DEF ProbeGoes
  <2>7. CASE FileProbe(k)
    BY <1>4, <2>7, FileProbeProbes
  <2> QED
    BY <1>6, <2>1, <2>2, <2>3, <2>4, <2>5, <2>6, <2>7 DEF HandlesTest
<1>7. CASE Leave \/ Enter \/ CoolsOrWarms \/ MomentPasses
  BY <1>2, <1>7, PoolProbes, <1>5
<1> QED
  BY <1>1, <1>5, <1>6, <1>7 DEF ProbesNext

(* Tests are fair, for any number of clicks and accounts, any interval and *)
(* any limit: probes of an account keep their distance, and a click lifts  *)
(* no cooldown but that of the account it was for, and only after a frame. *)
THEOREM ProbesAreFair == ProbesSpec => TestsAreFair
<1>1. ProbesInit => ProbesInv
  BY InitProbes
<1>2. ProbesInv /\ [ProbesNext]_probeVars =>
        ProbesInv' /\ [Spaced' /\ \A k \in Clicks : ProvenLift(k)]_probeVars
  BY NextProbes
<1> QED
  BY <1>1, <1>2, PTL DEF ProbesSpec, TestsAreFair

-----------------------------------------------------------------------------
(* The model catalogue is fetched for a reason and shown whole.            *)

LoadTypes ==
  {NotLoading} \cup [at : {"waiting"}, force : BOOLEAN, deadline : Int]
    \cup [at : {"fetching"}, force : BOOLEAN, deadline : Int, left : Seq(Lenders), tries : Nat]

(* Nothing else writes the cache than a load that read or failed to read   *)
(* the catalogue; and the load that holds the lock found no fresh one, or  *)
(* was asked not to look.                                                  *)
CatalogueInv ==
  /\ hour \in Nat /\ lastRead.fetched \in Int /\ NeverRead \in Int
  /\ cache \in {Catalogue(lastRead, fail) : fail \in BOOLEAN}
  /\ load \in [Loads -> LoadTypes]
  /\ \A l \in Loads : load[l].at = "fetching" <=> holder = l
  /\ \A l \in Loads : load[l].at = "fetching" => load[l].force \/ ~Fresh

CatalogueStep == FetchedForAReason /\ \A l \in Loads : Shows(l)

LEMMA CacheRead ==
  ASSUME cache \in {Catalogue(lastRead, fail) : fail \in BOOLEAN}
  PROVE  cache.fetched = lastRead.fetched
BY DEF Catalogue

(* A page that is answered changes no other load. *)
LEMMA OneLoadMoves ==
  ASSUME load \in [Loads -> LoadTypes], NEW l \in Loads, NEW v \in LoadTypes,
         load' = [load EXCEPT ![l] = v]
  PROVE  /\ load' \in [Loads -> LoadTypes]
         /\ load'[l] = v
         /\ \A m \in Loads \ {l} : load'[m] = load[m]
OBVIOUS

LEMMA SeqOfIsSeq == \A n : SeqOf(Lenders, n) \subseteq Seq(Lenders)
BY DEF SeqOf

LEMMA NotLoadingIs == NotLoading \in LoadTypes /\ NotLoading.at = "none"
BY DEF LoadTypes, NotLoading

LEMMA InitCatalogue == CatalogueInit => CatalogueInv
<1> SUFFICES ASSUME CatalogueInit PROVE CatalogueInv
  OBVIOUS
<1>1. hour = 0 /\ cache = EmptyCache /\ holder = NoLoad /\ lastRead = NothingRead
      /\ load = [l \in Loads |-> NotLoading]
  BY DEF CatalogueInit
<1>2. lastRead.fetched = -1 /\ NeverRead = -1
  BY <1>1 DEF NothingRead, NeverRead
<1>3. cache \in {Catalogue(lastRead, fail) : fail \in BOOLEAN}
  BY <1>1 DEF EmptyCache
<1>4. \A l \in Loads : load[l] = NotLoading
  BY <1>1
<1>5. load \in [Loads -> LoadTypes]
  BY <1>1, NotLoadingIs
<1>6. \A l \in Loads : load[l].at # "fetching" /\ holder # l
  BY <1>1, <1>4, NotLoadingIs, CatalogueAssumption
<1> QED
  BY <1>1, <1>2, <1>3, <1>5, <1>6 DEF CatalogueInv

(* Without a word to the cache, only the loads have to be looked at.       *)
LEMMA Unread ==
  ASSUME CatalogueInv, UNCHANGED <<cache, lastRead>>, hour' \in Nat,
         load' \in [Loads -> LoadTypes],
         \A l \in Loads : load'[l].at = "fetching" <=> holder' = l,
         \A l \in Loads : load'[l].at = "fetching" => load'[l].force \/ ~Fresh'
  PROVE  CatalogueInv'
<1>1. lastRead'.fetched \in Int /\ cache' \in {Catalogue(lastRead', fail) : fail \in BOOLEAN}
  BY DEF CatalogueInv
<1>2. NeverRead \in Int
  BY DEF CatalogueInv
<1> QED
  BY <1>1, <1>2 DEF CatalogueInv

(* What is shown of a cache that is fresh. *)
LEMMA FreshShows ==
  ASSUME CatalogueInv, UNCHANGED <<cache, lastRead>>, Fresh, NEW l \in Loads
  PROVE  Shows(l)
<1>1. cache' \in {Catalogue(lastRead', fail) : fail \in BOOLEAN}
  BY DEF CatalogueInv
<1>2. cache'.fetched # NeverRead /\ hour - cache'.fetched <= CatalogueTTL
  BY DEF Fresh
<1> QED
  BY <1>1, <1>2 DEF Shows

(* A load that goes on does not show anything. *)
LEMMA GoesOnLoading ==
  ASSUME NEW l \in Loads, load' \in [Loads -> LoadTypes], load'[l] # NotLoading
  PROVE  Shows(l)
BY DEF Shows

LEMMA StaysAsItWas == ASSUME NEW l \in Loads, load'[l] = load[l] PROVE Shows(l)
BY DEF Shows

LEMMA LoadCatalogue ==
  ASSUME CatalogueInv, NEW l \in Loads, Load(l) PROVE CatalogueInv' /\ CatalogueStep
<1>1. load \in [Loads -> LoadTypes] /\ hour \in Nat
  BY DEF CatalogueInv
<1>2. load[l] = NotLoading /\ holder = NoLoad /\ UNCHANGED <<hour, edition, cache, holder, lastRead>>
  BY DEF Load
<1>3. PICK v \in LoadTypes : /\ load' = [load EXCEPT ![l] = v]
                             /\ v.at # "fetching"
                             /\ v # NotLoading \/ Fresh
  <2>1. PICK refresh \in BOOLEAN :
          IF refresh \/ ~Fresh
            THEN load' = [load EXCEPT ![l] = [at |-> "waiting", force |-> refresh,
                                              deadline |-> hour + FetchTimeout]]
            ELSE AnswerPage(l)
    BY DEF Load
  <2>2. CASE refresh \/ ~Fresh
    <3>1. PICK v : v = [at |-> "waiting", force |-> refresh, deadline |-> hour + FetchTimeout]
      OBVIOUS
    <3>2. v \in LoadTypes /\ v.at = "waiting"
      BY <1>1, <3>1, CatalogueAssumption DEF LoadTypes
    <3> QED
      BY <2>1, <2>2, <3>1, <3>2, NotLoadingIs
  <2>3. CASE ~(refresh \/ ~Fresh)
    BY <2>1, <2>3, NotLoadingIs DEF AnswerPage
  <2> QED
    BY <2>2, <2>3
<1>4. load' \in [Loads -> LoadTypes] /\ load'[l] = v /\ \A m \in Loads \ {l} : load'[m] = load[m]
  BY <1>1, <1>3
<1>5. \A m \in Loads : load[m].at # "fetching" /\ holder # m
  BY <1>2, CatalogueAssumption DEF CatalogueInv
<1>6. \A m \in Loads : load'[m].at # "fetching" /\ holder' # m
  BY <1>2, <1>3, <1>4, <1>5
<1>7. CatalogueInv'
  BY <1>1, <1>2, <1>4, <1>6, Unread
<1>8. \A m \in Loads : Shows(m)
  <2> SUFFICES ASSUME NEW m \in Loads PROVE Shows(m)
    OBVIOUS
  <2>1. CASE m # l
    BY <1>4, <2>1, StaysAsItWas
  <2>2. CASE m = l /\ v # NotLoading
    BY <1>4, <2>2, GoesOnLoading
  <2>3. CASE m = l /\ Fresh
    BY <1>2, <2>3, FreshShows
  <2> QED
    BY <1>3, <2>1, <2>2, <2>3
<1> QED
  BY <1>2, <1>7, <1>8 DEF CatalogueStep, FetchedForAReason

LEMMA TakeLockCatalogue ==
  ASSUME CatalogueInv, NEW l \in Loads, TakeLock(l) PROVE CatalogueInv' /\ CatalogueStep
<1>1. load \in [Loads -> LoadTypes] /\ hour \in Nat
  BY DEF CatalogueInv
<1>2. load[l].at = "waiting" /\ holder = NoLoad /\ UNCHANGED <<hour, edition, cache, lastRead>>
  BY DEF TakeLock
<1>3. \A m \in Loads : load[m].at # "fetching" /\ holder # m
  BY <1>2, CatalogueAssumption DEF CatalogueInv
<1>4. CASE Fresh /\ ~load[l].force
  <2>1. load' = [load EXCEPT ![l] = NotLoading] /\ holder' = holder
    BY <1>4 DEF TakeLock, AnswerPage
  <2>2. load' \in [Loads -> LoadTypes] /\ load'[l] = NotLoading
        /\ \A m \in Loads \ {l} : load'[m] = load[m]
    BY <1>1, <2>1, NotLoadingIs
  <2>3. \A m \in Loads : load'[m].at # "fetching" /\ holder' # m
    BY <1>3, <2>1, <2>2, NotLoadingIs
  <2>4. CatalogueInv'
    BY <1>1, <1>2, <2>2, <2>3, Unread
  <2>5. \A m \in Loads : Shows(m)
    BY <1>2, <1>4, FreshShows
  <2> QED
    BY <1>2, <2>4, <2>5 DEF CatalogueStep, FetchedForAReason
<1>5. CASE ~(Fresh /\ ~load[l].force)
  <2>1. holder' = l
    BY <1>5 DEF TakeLock
  <2>2. PICK v \in LoadTypes : /\ load' = [load EXCEPT ![l] = v]
                               /\ v.at = "fetching" /\ v.force = load[l].force
    <3>1. PICK order \in CatalogueCredentials :
            load' = [load EXCEPT ![l] = [at |-> "fetching", force |-> load[l].force,
                                         deadline |-> load[l].deadline, left |-> order, tries |-> 0]]
      BY <1>1, <1>5 DEF TakeLock
    <3>2. order \in Seq(Lenders)
      BY SeqOfIsSeq DEF CatalogueCredentials
    <3>3. load[l].force \in BOOLEAN /\ load[l].deadline \in Int
      BY <1>1, <1>2, NotLoadingIs DEF LoadTypes
    <3>4. PICK v : v = [at |-> "fetching", force |-> load[l].force, deadline |-> load[l].deadline,
                        left |-> order, tries |-> 0]
      OBVIOUS
    <3>5. v \in LoadTypes /\ v.at = "fetching" /\ v.force = load[l].force
      BY <3>2, <3>3, <3>4 DEF LoadTypes
    <3> QED
      BY <3>1, <3>4, <3>5
  <2>3. load' \in [Loads -> LoadTypes] /\ load'[l] = v /\ \A m \in Loads \ {l} : load'[m] = load[m]
    BY <1>1, <2>2
  <2>4. \A m \in Loads : load'[m].at = "fetching" <=> holder' = m
    BY <1>3, <2>1, <2>2, <2>3
  <2>5. Fresh' = Fresh
    BY <1>2 DEF Fresh
  <2>6. \A m \in Loads : load'[m].at = "fetching" => load'[m].force \/ ~Fresh'
    BY <1>3, <1>5, <2>2, <2>3, <2>5
  <2>7. CatalogueInv'
    BY <1>1, <1>2, <2>3, <2>4, <2>6, Unread
  <2>8. \A m \in Loads : Shows(m)
    <3> SUFFICES ASSUME NEW m \in Loads PROVE Shows(m)
      OBVIOUS
    <3>1. CASE m # l
      BY <2>3, <3>1, StaysAsItWas
    <3>2. CASE m = l
      BY <2>2, <2>3, <3>2, NotLoadingIs, GoesOnLoading
    <3> QED
      BY <3>1, <3>2
  <2> QED
    BY <1>2, <2>7, <2>8 DEF CatalogueStep, FetchedForAReason
<1> QED
  BY <1>4, <1>5

(* A load that is done lets go of the lock. *)
LEMMA DoneLetsGo ==
  ASSUME CatalogueInv, NEW l \in Loads, load[l].at = "fetching", AnswerPage(l), holder' = NoLoad
  PROVE  /\ load' \in [Loads -> LoadTypes] /\ load'[l] = NotLoading
         /\ \A m \in Loads \ {l} : load'[m] = load[m]
         /\ \A m \in Loads : load'[m].at # "fetching" /\ holder' # m
<1>1. load \in [Loads -> LoadTypes] /\ load' = [load EXCEPT ![l] = NotLoading]
  BY DEF CatalogueInv, AnswerPage
<1>2. load' \in [Loads -> LoadTypes] /\ load'[l] = NotLoading
      /\ \A m \in Loads \ {l} : load'[m] = load[m]
  BY <1>1, NotLoadingIs
<1>3. holder = l
  BY DEF CatalogueInv
<1>4. \A m \in Loads \ {l} : load[m].at # "fetching"
  BY <1>3 DEF CatalogueInv
<1> QED
  BY <1>2, <1>4, NotLoadingIs, CatalogueAssumption

LEMMA AnswersCatalogue ==
  ASSUME CatalogueInv, NEW l \in Loads, AccountAnswers(l) PROVE CatalogueInv' /\ CatalogueStep
<1>1. /\ load[l].at = "fetching" /\ AnswerPage(l) /\ holder' = NoLoad /\ hour' = hour
      /\ lastRead' = [models |-> edition, fetched |-> hour, account |-> Head(load[l].left)]
      /\ cache' = Catalogue(lastRead', FALSE)
  BY DEF AccountAnswers
<1>2. hour \in Nat /\ NeverRead \in Int /\ lastRead'.fetched = hour
  BY <1>1 DEF CatalogueInv
<1>3. /\ load' \in [Loads -> LoadTypes] /\ load'[l] = NotLoading
      /\ \A m \in Loads \ {l} : load'[m] = load[m]
      /\ \A m \in Loads : load'[m].at # "fetching" /\ holder' # m
  BY <1>1, DoneLetsGo
<1>4. cache' \in {Catalogue(lastRead', fail) : fail \in BOOLEAN}
  BY <1>1
<1>5. cache'.fetched = hour
  BY <1>1, <1>2 DEF Catalogue
<1>6. CatalogueInv'
  <2>1. hour' \in Nat /\ lastRead'.fetched \in Int
    BY <1>1, <1>2
  <2> QED
    BY <1>2, <1>3, <1>4, <2>1 DEF CatalogueInv
<1>7. FetchedForAReason
  <2>1. holder = l /\ (load[l].force \/ ~Fresh)
    BY <1>1 DEF CatalogueInv
  <2>2. cache.fetched = lastRead.fetched /\ lastRead.fetched \in Int
    BY CacheRead DEF CatalogueInv
  <2>3. ~Fresh => lastRead.fetched = NeverRead \/ hour - lastRead.fetched > CatalogueTTL
    BY <1>2, <2>2, CatalogueAssumption DEF Fresh
  <2> QED
    BY <2>1, <2>3 DEF FetchedForAReason
<1>8. \A m \in Loads : Shows(m)
  <2>1. cache'.fetched # NeverRead /\ hour - cache'.fetched <= CatalogueTTL
    BY <1>2, <1>5, CatalogueAssumption DEF NeverRead
  <2> QED
    BY <1>4, <2>1 DEF Shows
<1> QED
  BY <1>6, <1>7, <1>8 DEF CatalogueStep

LEMMA FailsCatalogue ==
  ASSUME CatalogueInv, NEW l \in Loads, AccountFails(l) PROVE CatalogueInv' /\ CatalogueStep
<1>1. load \in [Loads -> LoadTypes] /\ hour \in Nat
  BY DEF CatalogueInv
<1>2. /\ load[l].at = "fetching" /\ UNCHANGED <<hour, edition, cache, holder, lastRead>>
      /\ load[l].left # <<>>
      /\ load' = [load EXCEPT ![l].left = Tail(@), ![l].tries = @ + 1]
  BY DEF AccountFails, More
<1>3. load[l] \in [at : {"fetching"}, force : BOOLEAN, deadline : Int, left : Seq(Lenders), tries : Nat]
  BY <1>1, <1>2, NotLoadingIs DEF LoadTypes
<1>4. PICK left, tries : left = Tail(load[l].left) /\ tries = load[l].tries + 1
  OBVIOUS
<1>5. left \in Seq(Lenders) /\ tries \in Nat
  BY <1>2, <1>3, <1>4
<1>6. PICK v \in LoadTypes : /\ load' = [load EXCEPT ![l] = v]
                             /\ v.at = "fetching" /\ v.force = load[l].force
  <2>1. PICK v : v = [load[l] EXCEPT !.left = left, !.tries = tries]
    OBVIOUS
  <2>2. v \in LoadTypes /\ v.at = "fetching" /\ v.force = load[l].force
    BY <1>3, <1>5, <2>1 DEF LoadTypes
  <2> QED
    BY <1>1, <1>2, <1>4, <2>1, <2>2
<1>7. load' \in [Loads -> LoadTypes] /\ load'[l] = v /\ \A m \in Loads \ {l} : load'[m] = load[m]
  BY <1>1, <1>6
<1>8. Fresh' = Fresh
  BY <1>2 DEF Fresh
<1>9. /\ \A m \in Loads : load'[m].at = "fetching" <=> holder' = m
      /\ \A m \in Loads : load'[m].at = "fetching" => load'[m].force \/ ~Fresh'
  BY <1>2, <1>6, <1>7, <1>8 DEF CatalogueInv
<1>10. CatalogueInv'
  BY <1>1, <1>2, <1>7, <1>9, Unread
<1>11. \A m \in Loads : Shows(m)
  <2> SUFFICES ASSUME NEW m \in Loads PROVE Shows(m)
    OBVIOUS
  <2>1. CASE m # l
    BY <1>7, <2>1, StaysAsItWas
  <2>2. CASE m = l
    BY <1>6, <1>7, <2>2, NotLoadingIs, GoesOnLoading
  <2> QED
    BY <2>1, <2>2
<1> QED
  BY <1>2, <1>10, <1>11 DEF CatalogueStep, FetchedForAReason

LEMMA FetchFailsCatalogue ==
  ASSUME CatalogueInv, NEW l \in Loads, FetchFails(l) PROVE CatalogueInv' /\ CatalogueStep
<1>1. /\ load[l].at = "fetching" /\ AnswerPage(l) /\ holder' = NoLoad
      /\ UNCHANGED <<hour, edition, lastRead>>
      /\ cache' = [cache EXCEPT !.fail = TRUE]
  BY DEF FetchFails
<1>2. /\ load' \in [Loads -> LoadTypes] /\ load'[l] = NotLoading
      /\ \A m \in Loads \ {l} : load'[m] = load[m]
      /\ \A m \in Loads : load'[m].at # "fetching" /\ holder' # m
  BY <1>1, DoneLetsGo
<1>3. cache' = Catalogue(lastRead', TRUE) /\ cache'.fail
  <2>1. PICK fail \in BOOLEAN : cache = Catalogue(lastRead, fail)
    BY DEF CatalogueInv
  <2>2. cache = [models |-> lastRead.models, fetched |-> lastRead.fetched,
                 account |-> lastRead.account, fail |-> fail]
    BY <2>1 DEF Catalogue
  <2>3. cache' = [models |-> lastRead.models, fetched |-> lastRead.fetched,
                  account |-> lastRead.account, fail |-> TRUE]
    BY <1>1, <2>2
  <2> QED
    BY <1>1, <2>3 DEF Catalogue
<1>4. CatalogueInv'
  <2>1. hour' \in Nat /\ lastRead'.fetched \in Int /\ NeverRead \in Int
    BY <1>1 DEF CatalogueInv
  <2>2. cache' \in {Catalogue(lastRead', fail) : fail \in BOOLEAN}
    BY <1>3
  <2> QED
    BY <1>2, <2>1, <2>2 DEF CatalogueInv
<1>5. \A m \in Loads : Shows(m)
  BY <1>3 DEF Shows
<1> QED
  BY <1>1, <1>4, <1>5 DEF CatalogueStep, FetchedForAReason

LEMMA TimeOrModels ==
  ASSUME CatalogueInv, HourPasses \/ ModelsChange \/ UNCHANGED catalogueVars
  PROVE  CatalogueInv' /\ CatalogueStep
<1>1. UNCHANGED <<cache, holder, load, lastRead>> /\ hour' \in {hour, hour + 1} /\ hour \in Nat
  BY DEF CatalogueInv, HourPasses, ModelsChange, catalogueVars
<1>2. cache.fetched = lastRead.fetched /\ lastRead.fetched \in Int
  BY CacheRead DEF CatalogueInv
<1>3. ~Fresh => ~Fresh'
  <2> SUFFICES ASSUME ~Fresh, Fresh' PROVE FALSE
    OBVIOUS
  <2>1. cache.fetched # NeverRead /\ hour' - cache.fetched <= CatalogueTTL
    BY <1>1 DEF Fresh
  <2>2. hour - cache.fetched <= CatalogueTTL
    BY <1>1, <1>2, <2>1, CatalogueAssumption
  <2> QED
    BY <2>1, <2>2 DEF Fresh
<1>4. CatalogueInv'
  <2>1. load' \in [Loads -> LoadTypes] /\ hour' \in Nat
    BY <1>1 DEF CatalogueInv
  <2>2. \A l \in Loads : load'[l].at = "fetching" <=> holder' = l
    BY <1>1 DEF CatalogueInv
  <2>3. \A l \in Loads : load'[l].at = "fetching" => load'[l].force \/ ~Fresh'
    BY <1>1, <1>3 DEF CatalogueInv
  <2> QED
    BY <1>1, <2>1, <2>2, <2>3, Unread
<1>5. \A l \in Loads : Shows(l)
  BY <1>1 DEF Shows
<1> QED
  BY <1>1, <1>4, <1>5 DEF CatalogueStep, FetchedForAReason

LEMMA NextCatalogue ==
  CatalogueInv /\ [CatalogueNext]_catalogueVars => CatalogueInv' /\ [CatalogueStep]_catalogueVars
<1> SUFFICES ASSUME CatalogueInv, [CatalogueNext]_catalogueVars
             PROVE  CatalogueInv' /\ CatalogueStep
  OBVIOUS
<1>1. ASSUME NEW l \in Loads, Load(l) PROVE CatalogueInv' /\ CatalogueStep
  BY <1>1, LoadCatalogue
<1>2. ASSUME NEW l \in Loads, TakeLock(l) PROVE CatalogueInv' /\ CatalogueStep
  BY <1>2, TakeLockCatalogue
<1>3. ASSUME NEW l \in Loads, AccountAnswers(l) PROVE CatalogueInv' /\ CatalogueStep
  BY <1>3, AnswersCatalogue
<1>4. ASSUME NEW l \in Loads, AccountFails(l) PROVE CatalogueInv' /\ CatalogueStep
  BY <1>4, FailsCatalogue
<1>5. ASSUME NEW l \in Loads, FetchFails(l) PROVE CatalogueInv' /\ CatalogueStep
  BY <1>5, FetchFailsCatalogue
<1>6. CASE HourPasses \/ ModelsChange \/ UNCHANGED catalogueVars
  BY <1>6, TimeOrModels
<1> QED
  BY <1>1, <1>2, <1>3, <1>4, <1>5, <1>6 DEF CatalogueNext

(* The catalogue is shared, for any number of page loads and of accounts,  *)
(* any time to live and to fetch: it is read again for a reason only, and  *)
(* a page shows what was read last, stale only beside its failure.         *)
THEOREM CatalogueIsShared == CatalogueSpec => CatalogueShared
<1>1. CatalogueInit => CatalogueInv
  BY InitCatalogue
<1>2. CatalogueInv /\ [CatalogueNext]_catalogueVars
      => CatalogueInv' /\ [FetchedForAReason /\ \A l \in Loads : Shows(l)]_catalogueVars
  BY NextCatalogue DEF CatalogueStep
<1> QED
  BY <1>1, <1>2, PTL DEF CatalogueSpec, CatalogueShared

-----------------------------------------------------------------------------
(* The route list and its file. *)

(* What a page has installed is what it is about to store; and what is     *)
(* running is what the file says, but for a page between the two and a     *)
(* file that could not be written.  A file never holds an empty list.      *)
FileInv ==
  /\ DOMAIN saving = Pages
  /\ filed # <<<<>>>>
  /\ \A p \in Pages : saving[p].at = "storing" => running = CleanSpecs(saving[p].list)
  /\ ~unstored =>
       /\ filed = Written(listed)
       /\ (\A p \in Pages : saving[p].at # "storing") =>
            running = IF filed = <<>> THEN <<>> ELSE filed[1]

LEMMA WrittenIs ==
  /\ Written(<<>>) = <<>>
  /\ \A key : Written(key) # <<<<>>>> /\ (key # <<<<>>>> => Written(key) = key)
  /\ \A list : list = IF Written(<<list>>) = <<>> THEN <<>> ELSE Written(<<list>>)[1]
<1>1. <<>> # <<<<>>>>
  OBVIOUS
<1>2. ASSUME NEW list PROVE list = IF Written(<<list>>) = <<>> THEN <<>> ELSE Written(<<list>>)[1]
  <2>1. <<list>> # <<>> /\ <<list>>[1] = list
    OBVIOUS
  <2>2. CASE list = <<>>
    BY <2>2 DEF Written
  <2>3. CASE list # <<>>
    <3>1. <<list>> # <<<<>>>>
      BY <2>1, <2>3
    <3> QED
      BY <2>1, <3>1 DEF Written
  <2> QED
    BY <2>2, <2>3
<1> QED
  BY <1>1, <1>2 DEF Written

LEMMA InitFile == RoutesInit => FileInv
<1> SUFFICES ASSUME RoutesInit PROVE FileInv
  OBVIOUS
<1>1. /\ running = <<>> /\ listed = <<>> /\ filed = <<>> /\ saving = [p \in Pages |-> NoSave]
  BY DEF RoutesInit
<1>2. <<>> # <<<<>>>> /\ NoSave.at = "none"
  BY DEF NoSave
<1> QED
  BY <1>1, <1>2, WrittenIs DEF FileInv

LEMMA NextFile ==
  ASSUME NEW q, Pages = {q}
  PROVE  FileInv /\ [RoutesNext]_routeVars => FileInv'
<1> SUFFICES ASSUME FileInv, [RoutesNext]_routeVars PROVE FileInv'
  OBVIOUS
<1>1. /\ DOMAIN saving = {q} /\ filed # <<<<>>>>
      /\ saving[q].at = "storing" => running = CleanSpecs(saving[q].list)
      /\ ~unstored => filed = Written(listed)
      /\ ~unstored /\ saving[q].at # "storing" => running = IF filed = <<>> THEN <<>> ELSE filed[1]
  BY DEF FileInv
<1>2. SUFFICES
        /\ DOMAIN saving' = {q} /\ filed' # <<<<>>>>
        /\ saving'[q].at = "storing" => running' = CleanSpecs(saving'[q].list)
        /\ ~unstored' => filed' = Written(listed')
        /\ ~unstored' /\ saving'[q].at # "storing" =>
             running' = IF filed' = <<>> THEN <<>> ELSE filed'[1]
  BY DEF FileInv
<1>3. CASE Show(q)
  BY <1>1, <1>3 DEF Show
<1>4. CASE Submit(q)
  <2>1. /\ saving[q] = NoSave /\ UNCHANGED <<running, listed, filed, unstored>>
        /\ \E list, asked : saving' = [saving EXCEPT ![q] = [at |-> "installing", asked |-> asked, list |-> list]]
    BY <1>4 DEF Submit
  <2>2. saving[q].at = "none"
    BY <2>1 DEF NoSave
  <2>3. DOMAIN saving' = {q} /\ saving'[q].at = "installing"
    BY <1>1, <2>1
  <2> QED
    BY <1>1, <2>1, <2>2, <2>3
<1>5. CASE Install(q)
  <2>1. /\ running' = CleanSpecs(saving[q].list) /\ UNCHANGED <<listed, filed, unstored>>
        /\ saving' = [saving EXCEPT ![q] = [at |-> "storing", list |-> saving[q].list]]
    BY <1>5 DEF Install
  <2>2. DOMAIN saving' = {q} /\ saving'[q].at = "storing" /\ saving'[q].list = saving[q].list
    BY <1>1, <2>1
  <2> QED
    BY <1>1, <2>1, <2>2
<1>6. CASE StoreList(q)
  <2>1. /\ saving[q].at = "storing" /\ listed' = <<CleanSpecs(saving[q].list)>>
        /\ filed' = Written(listed') /\ saving' = [saving EXCEPT ![q] = NoSave] /\ running' = running
    BY <1>6 DEF StoreList
  <2>2. DOMAIN saving' = {q} /\ saving'[q].at = "none"
    BY <1>1, <2>1 DEF NoSave
  <2>3. running' = IF filed' = <<>> THEN <<>> ELSE filed'[1]
    BY <1>1, <2>1, WrittenIs
  <2> QED
    BY <2>1, <2>2, <2>3, WrittenIs
<1>7. CASE StoreListFails(q)
  <2>1. unstored' = TRUE /\ saving' = [saving EXCEPT ![q] = NoSave] /\ filed' = filed
    BY <1>7 DEF StoreListFails
  <2>2. DOMAIN saving' = {q} /\ saving'[q].at = "none"
    BY <1>1, <2>1 DEF NoSave
  <2> QED
    BY <1>1, <2>1, <2>2
<1>8. CASE StoreOthers
  <2>1. filed' = Written(listed) /\ filed' # filed /\ UNCHANGED <<running, listed, saving, unstored>>
    BY <1>8 DEF StoreOthers
  <2> QED
    BY <1>1, <2>1, WrittenIs
<1>9. CASE Relaunch
  <2>1. /\ listed' = filed /\ running' = IF filed = <<>> THEN <<>> ELSE filed[1]
        /\ saving' = [p \in Pages |-> NoSave] /\ filed' = filed
    BY <1>9 DEF Relaunch
  <2>2. DOMAIN saving' = {q} /\ saving'[q].at = "none"
    BY <2>1 DEF NoSave
  <2> QED
    BY <1>1, <2>1, <2>2, WrittenIs
<1>10. CASE UNCHANGED routeVars
  BY <1>1, <1>10 DEF routeVars
<1> QED
  BY <1>3, <1>4, <1>5, <1>6, <1>7, <1>8, <1>9, <1>10 DEF RoutesNext

(* With one page open, a restart rebuilds exactly what is running, for any *)
(* lists and any order of saves, failed writes and restarts.  With two it  *)
(* does not: their saves can install in one order and store in the other.  *)
THEOREM OnePageIsRebuilt ==
  ASSUME NEW q, Pages = {q}
  PROVE  RoutesSpec => []FileFollowsRoutes
<1>1. FileInv => FileFollowsRoutes
  <2> SUFFICES ASSUME FileInv, \A p \in Pages : saving[p] = NoSave, ~unstored
      PROVE  running = IF filed = <<>> THEN <<>> ELSE filed[1]
    BY DEF FileFollowsRoutes
  <2>1. \A p \in Pages : saving[p].at # "storing"
    BY DEF NoSave
  <2> QED
    BY <2>1 DEF FileInv
<1> QED
  BY <1>1, InitFile, NextFile, PTL DEF RoutesSpec

-----------------------------------------------------------------------------
(* A password stays with the host it was typed for.                        *)

(* A function whose values are of a set is a list of them.                 *)
LEMMA ListOf ==
  ASSUME NEW S, NEW list \in Seq(S), NEW T, NEW f, DOMAIN f = DOMAIN list, \A i \in DOMAIN list : f[i] \in T,
         f = [i \in DOMAIN list |-> f[i]]
  PROVE  f \in Seq(T)
<1>1. Len(list) \in Nat /\ DOMAIN list = 1..Len(list)
  BY SeqFacts
<1>2. f \in [1..Len(list) -> T]
  BY <1>1
<1> QED
  BY <1>1, <1>2

Hosts    == {l.host : l \in TypedLines} \cup {Ignored, Unusable}
Creds    == {l.cred : l \in TypedLines} \cup {NoCred, Mask}
RouteSet == [host : Hosts, cred : Creds]

(* What may be in a list: a route as it was typed, or one that shows no    *)
(* password.                                                               *)
Homely == {l \in RouteSet : IsMasked(l) \/ l \in TypedLines}

HoldsAList(key) == key = <<>> \/ \E list \in Seq(Homely) : key = <<list>>

HomeInv ==
  /\ running \in Seq(Homely) /\ HoldsAList(listed) /\ HoldsAList(filed)
  /\ shown \in [Pages -> Seq(Homely)]
  /\ DOMAIN saving = Pages
  /\ \A p \in Pages : saving[p].at \in {"installing", "storing"} => saving[p].list \in Seq(Homely \cup {BlankLine})

LEMMA RoutesTyped ==
  /\ \A l \in TypedLines : l \in RouteSet
  /\ BlankLine \in RouteSet /\ BadLine \in RouteSet
<1>1. ASSUME NEW l \in TypedLines  PROVE l \in RouteSet
  <2>1. PICK host, cred : host = l.host /\ cred = l.cred
    OBVIOUS
  <2>2. l = [host |-> host, cred |-> cred] /\ host \in Hosts /\ cred \in Creds
    BY <2>1, RouteListAssumption DEF RouteListAssumption, Hosts, Creds
  <2> QED
    BY <2>2 DEF RouteSet
<1>2. Ignored \in Hosts /\ Unusable \in Hosts /\ NoCred \in Creds
  BY DEF Hosts, Creds
<1> QED
  BY <1>1, <1>2 DEF RouteSet, BlankLine, BadLine

LEMMA MaskedIs ==
  ASSUME NEW l \in RouteSet
  PROVE  /\ MaskSpec(l) \in RouteSet
         /\ MaskSpec(l) = l \/ IsMasked(MaskSpec(l))
<1>1. PICK host, cred : l = [host |-> host, cred |-> cred] /\ host \in Hosts /\ cred \in Creds
  BY DEF RouteSet
<1>2. PICK mask : mask = Mask
  OBVIOUS
<1>3. [l EXCEPT !.cred = mask] = [host |-> host, cred |-> mask] /\ mask \in Creds
  BY <1>1, <1>2 DEF Creds
<1>4. [host |-> host, cred |-> mask] \in RouteSet /\ IsMasked([host |-> host, cred |-> mask])
  BY <1>1, <1>2, <1>3 DEF RouteSet, IsMasked
<1> QED
  BY <1>2, <1>3, <1>4 DEF MaskSpec

LEMMA MaskSpecsHomely ==
  ASSUME NEW list \in Seq(Homely)
  PROVE  MaskSpecs(list) \in Seq(Homely)
<1>1. \A i \in DOMAIN list : list[i] \in Homely
  BY SeqFacts
<1>2. \A i \in DOMAIN list : MaskSpec(list[i]) \in Homely
  BY <1>1, MaskedIs DEF Homely
<1>3. PICK f : f = [i \in DOMAIN list |-> MaskSpec(list[i])]
  OBVIOUS
<1>4. DOMAIN f = DOMAIN list /\ f = [i \in DOMAIN list |-> f[i]] /\ \A i \in DOMAIN list : f[i] \in Homely
  BY <1>2, <1>3
<1>5. f \in Seq(Homely)
  BY <1>4, ListOf
<1> QED
  BY <1>3, <1>5 DEF MaskSpecs

LEMMA CleanHomely ==
  ASSUME NEW list \in Seq(Homely \cup {BlankLine})
  PROVE  CleanSpecs(list) \in Seq(Homely)
<1>1. \A i \in DOMAIN list : list[i] \in Homely \cup {BlankLine}
  BY SeqFacts
<1>2. ASSUME NEW i \in DOMAIN list  PROVE Kept(list[i]) \in Seq(Homely)
  <2>1. CASE list[i] = BlankLine
    BY <2>1, EmptySeq DEF Kept
  <2>2. CASE list[i] # BlankLine
    <3>1. PICK l \in Homely : l = list[i]
      BY <1>1, <2>2
    <3>2. Kept(list[i]) = <<l>>
      BY <2>2, <3>1 DEF Kept
    <3> QED
      BY <3>2
  <2> QED
    BY <2>1, <2>2
<1>3. PICK f : f = [i \in DOMAIN list |-> Kept(list[i])]
  OBVIOUS
<1>4. DOMAIN f = DOMAIN list /\ f = [i \in DOMAIN list |-> f[i]] /\ \A i \in DOMAIN list : f[i] \in Seq(Homely)
  BY <1>2, <1>3
<1>5. f \in Seq(Seq(Homely))
  BY <1>4, ListOf
<1> QED
  BY <1>3, <1>5, FlattenHolds DEF CleanSpecs

LEMMA ProxySpecsHomely == HomeInv => ProxySpecs \in Seq(Homely)
<1> SUFFICES ASSUME HomeInv  PROVE ProxySpecs \in Seq(Homely)
  OBVIOUS
<1>1. CASE listed = <<>>
  BY <1>1, MaskSpecsHomely DEF HomeInv, ProxySpecs
<1>2. CASE listed # <<>>
  <2>1. PICK list \in Seq(Homely) : listed = <<list>>
    BY <1>2 DEF HomeInv, HoldsAList
  <2> QED
    BY <1>2, <2>1 DEF ProxySpecs
<1> QED
  BY <1>1, <1>2

(* What a page may save, with the passwords put back.                      *)
Editable == TypedLines \cup {BlankLine, BadLine} \cup Homely

LEMMA SourcesAre ==
  ASSUME NEW line, NEW i, NEW stored
  PROVE  /\ Sources(line, i, stored) \subseteq DOMAIN stored
         /\ i \in DOMAIN stored /\ MaskSpec(stored[i]) = line /\ ~IsMasked(stored[i]) =>
              Sources(line, i, stored) = {i}
BY DEF Sources

LEMMA RestoredHomely ==
  ASSUME NEW list \in Seq(Editable), NEW stored \in Seq(Homely), Builds(RestoreCredentials(list, stored))
  PROVE  RestoreCredentials(list, stored) \in Seq(Homely \cup {BlankLine})
<1>1. PICK f : f = RestoreCredentials(list, stored)
  OBVIOUS
<1>2. /\ DOMAIN f = DOMAIN list /\ f = [i \in DOMAIN list |-> f[i]]
      /\ \A i \in DOMAIN list :
           f[i] = IF ~IsMasked(list[i]) \/ Sources(list[i], i, stored) = {} THEN list[i]
                  ELSE stored[CHOOSE j \in Sources(list[i], i, stored) : TRUE]
  BY <1>1 DEF RestoreCredentials
<1>3. \A i \in DOMAIN list : list[i] \in Editable
  BY SeqFacts
<1>4. \A l \in Editable : l \in RouteSet
  BY RoutesTyped DEF Editable, Homely
<1>5. \A j \in DOMAIN stored : stored[j] \in Homely
  BY SeqFacts
<1>6. ASSUME NEW i \in DOMAIN list  PROVE f[i] \in Editable
  <2>1. CASE f[i] = list[i]
    BY <1>3, <2>1
  <2>2. CASE f[i] # list[i]
    <3>1. PICK j : j = CHOOSE k \in Sources(list[i], i, stored) : TRUE
      OBVIOUS
    <3>2. Sources(list[i], i, stored) # {} /\ f[i] = stored[j]
      BY <1>2, <2>2, <3>1
    <3>3. j \in DOMAIN stored
      BY <3>1, <3>2, SourcesAre
    <3> QED
      BY <1>5, <3>2, <3>3 DEF Editable
  <2> QED
    BY <2>1, <2>2
<1>7. f \in Seq(Editable)
  BY <1>2, <1>6, ListOf
<1>8. \A i \in DOMAIN f : f[i] # BadLine
  BY <1>1, <1>7, SeqFacts DEF Builds, Contains
<1>9. ASSUME NEW i \in DOMAIN list  PROVE f[i] \in Homely \cup {BlankLine}
  <2>1. f[i] \in Editable /\ f[i] # BadLine /\ f[i] \in RouteSet
    BY <1>2, <1>4, <1>6, <1>8
  <2>2. CASE f[i] \in TypedLines
    BY <2>1, <2>2 DEF Homely
  <2> QED
    BY <2>1, <2>2 DEF Editable
<1> QED
  BY <1>1, <1>2, <1>9, ListOf

(* Saving the list as it is shown puts every password back.                *)
LEMMA UntouchedIsRestored ==
  ASSUME NEW stored \in Seq(Homely), \A i \in DOMAIN stored : ~IsMasked(stored[i])
  PROVE  RestoreCredentials(MaskSpecs(stored), stored) = stored
<1>1. PICK masked, f : masked = MaskSpecs(stored) /\ f = RestoreCredentials(masked, stored)
  OBVIOUS
<1>2. DOMAIN masked = DOMAIN stored /\ \A i \in DOMAIN stored : masked[i] = MaskSpec(stored[i])
  BY <1>1 DEF MaskSpecs
<1>3. f = [i \in DOMAIN stored |->
             IF ~IsMasked(masked[i]) \/ Sources(masked[i], i, stored) = {} THEN masked[i]
             ELSE stored[CHOOSE j \in Sources(masked[i], i, stored) : TRUE]]
  BY <1>1, <1>2 DEF RestoreCredentials
<1>4. ASSUME NEW i \in DOMAIN stored
      PROVE  (IF ~IsMasked(masked[i]) \/ Sources(masked[i], i, stored) = {} THEN masked[i]
              ELSE stored[CHOOSE j \in Sources(masked[i], i, stored) : TRUE]) = stored[i]
  <2>1. Sources(masked[i], i, stored) = {i}
    BY <1>2, SourcesAre
  <2>2. (CHOOSE j \in {i} : TRUE) = i
    OBVIOUS
  <2>3. stored[i] \in RouteSet
    BY SeqFacts DEF Homely
  <2>4. ~IsMasked(masked[i]) => masked[i] = stored[i]
    BY <1>2, <2>3, MaskedIs
  <2> QED
    BY <2>1, <2>2, <2>4
<1>5. stored = [i \in DOMAIN stored |-> stored[i]]
  <2>1. stored \in [1..Len(stored) -> Homely]
    BY LenProperties
  <2> QED
    BY <2>1
<1> QED
  BY <1>1, <1>3, <1>4, <1>5

-----------------------------------------------------------------------------
(* The inductive invariant through the steps.                              *)

LEMMA HomeInit == RoutesInit => HomeInv
<1> SUFFICES ASSUME RoutesInit  PROVE HomeInv
  OBVIOUS
<1>1. running \in Seq(Homely) /\ shown \in [Pages -> Seq(Homely)]
  BY EmptySeq DEF RoutesInit
<1>2. DOMAIN saving = Pages /\ \A p \in Pages : saving[p].at = "none"
  BY DEF RoutesInit, NoSave
<1>3. HoldsAList(listed) /\ HoldsAList(filed)
  BY DEF RoutesInit, HoldsAList
<1> QED
  BY <1>1, <1>2, <1>3 DEF HomeInv

LEMMA ShowStaysHome ==
  ASSUME HomeInv, NEW p \in Pages, Show(p)
  PROVE  HomeInv'
<1>1. PICK list \in Seq(Homely) : list = MaskSpecs(ProxySpecs)
  BY ProxySpecsHomely, MaskSpecsHomely
<1>2. shown' = [shown EXCEPT ![p] = list]
  BY <1>1 DEF Show
<1>3. shown' \in [Pages -> Seq(Homely)]
  BY <1>2 DEF HomeInv
<1> QED
  BY <1>3 DEF Show, HomeInv, HoldsAList

(* What Submit asks to install, under a name.                              *)
Asks(p, list, restored) ==
  /\ restored = RestoreCredentials(list, ProxySpecs) /\ Builds(restored)
  /\ saving' = [saving EXCEPT ![p] = [at |-> "installing", asked |-> list, list |-> restored]]

LEMMA SubmitAsks ==
  ASSUME HomeInv, NEW p \in Pages, Submit(p)
  PROVE  \E list \in Seq(Editable) : \E restored \in Seq(Homely \cup {BlankLine}) : Asks(p, list, restored)
<1>1. PICK list \in Edits(p) : Asks(p, list, RestoreCredentials(list, ProxySpecs))
  BY DEF Submit, Asks
<1>2. shown[p] \in Seq(Homely)
  BY DEF HomeInv
<1>3. \A l \in ToSet(shown[p]) : l \in Homely
  BY <1>2, SeqFacts DEF ToSet
<1>4. PICK lines : lines = TypedLines \cup {BlankLine, BadLine} \cup ToSet(shown[p])
  OBVIOUS
<1>5. \A l \in lines : l \in Editable
  BY <1>3, <1>4 DEF Editable
<1>6. PICK n \in 0..(MaxSpecs + 1) : list \in [1..n -> lines]
  BY <1>1, <1>4 DEF Edits, SeqOf
<1>7. list \in [1..n -> Editable]
  BY <1>5, <1>6
<1>8. list \in Seq(Editable)
  BY <1>6, <1>7, RouteListAssumption DEF RouteListAssumption
<1>9. PICK stored \in Seq(Homely) : stored = ProxySpecs
  BY ProxySpecsHomely
<1>10. RestoreCredentials(list, stored) \in Seq(Homely \cup {BlankLine})
  BY <1>1, <1>8, <1>9, RestoredHomely DEF Asks
<1> QED
  BY <1>1, <1>8, <1>9, <1>10

LEMMA SubmitStaysHome ==
  ASSUME HomeInv, NEW p \in Pages, Submit(p)
  PROVE  HomeInv'
<1>1. PICK list \in Seq(Editable), restored \in Seq(Homely \cup {BlankLine}) : Asks(p, list, restored)
  BY SubmitAsks
<1>2. PICK save : save = [at |-> "installing", asked |-> list, list |-> restored]
  OBVIOUS
<1>3. save.list = restored
  BY <1>2
<1>4. saving' = [saving EXCEPT ![p] = save]
  BY <1>1, <1>2 DEF Asks
<1>5. DOMAIN saving' = Pages /\ \A q \in Pages : saving'[q] = IF q = p THEN save ELSE saving[q]
  BY <1>4 DEF HomeInv
<1>6. \A q \in Pages : saving'[q].at \in {"installing", "storing"} => saving'[q].list \in Seq(Homely \cup {BlankLine})
  BY <1>3, <1>5 DEF HomeInv
<1> QED
  BY <1>5, <1>6 DEF Submit, HomeInv, HoldsAList

LEMMA InstallStaysHome ==
  ASSUME HomeInv, NEW p \in Pages, Install(p)
  PROVE  HomeInv'
<1>1. PICK list \in Seq(Homely \cup {BlankLine}) : list = saving[p].list
  BY DEF HomeInv, Install
<1>2. running' \in Seq(Homely)
  BY <1>1, CleanHomely DEF Install
<1>3. PICK save : save = [at |-> "storing", list |-> list]
  OBVIOUS
<1>4. save.list = list
  BY <1>3
<1>5. saving' = [saving EXCEPT ![p] = save]
  BY <1>1, <1>3 DEF Install
<1>6. DOMAIN saving' = Pages /\ \A q \in Pages : saving'[q] = IF q = p THEN save ELSE saving[q]
  BY <1>5 DEF HomeInv
<1>7. \A q \in Pages : saving'[q].at \in {"installing", "storing"} => saving'[q].list \in Seq(Homely \cup {BlankLine})
  BY <1>4, <1>6 DEF HomeInv
<1> QED
  BY <1>2, <1>6, <1>7 DEF Install, HomeInv, HoldsAList

LEMMA WrittenHolds ==
  ASSUME NEW key, HoldsAList(key)
  PROVE  HoldsAList(Written(key))
BY DEF Written, HoldsAList

(* A save that is over leaves the others where they were.                  *)
LEMMA SaveEnds ==
  ASSUME HomeInv, NEW p \in Pages, saving' = [saving EXCEPT ![p] = NoSave]
  PROVE  /\ DOMAIN saving' = Pages
         /\ \A q \in Pages : saving'[q].at \in {"installing", "storing"} => saving'[q].list \in Seq(Homely \cup {BlankLine})
<1>1. DOMAIN saving' = Pages /\ \A q \in Pages : saving'[q] = IF q = p THEN NoSave ELSE saving[q]
  BY DEF HomeInv
<1>2. NoSave.at = "none"
  BY DEF NoSave
<1> QED
  BY <1>1, <1>2 DEF HomeInv

LEMMA StoreListStaysHome ==
  ASSUME HomeInv, NEW p \in Pages, StoreList(p)
  PROVE  HomeInv'
<1>1. PICK list \in Seq(Homely) : list = CleanSpecs(saving[p].list)
  BY CleanHomely DEF HomeInv, StoreList
<1>2. listed' = <<list>>
  BY <1>1 DEF StoreList
<1>3. HoldsAList(listed')
  BY <1>2 DEF HoldsAList
<1>4. HoldsAList(filed')
  BY <1>3, WrittenHolds DEF StoreList
<1>5. PICK masked \in Seq(Homely) : masked = MaskSpecs(list)
  BY MaskSpecsHomely
<1>6. shown' = [shown EXCEPT ![p] = masked]
  <2>1. listed'[1] = list
    BY <1>2
  <2>2. shown' = [shown EXCEPT ![p] = MaskSpecs(listed'[1])]
    BY DEF StoreList
  <2> QED
    BY <1>5, <2>1, <2>2, Zenon
<1>7. shown' \in [Pages -> Seq(Homely)]
  BY <1>6 DEF HomeInv
<1>8. running' \in Seq(Homely)
  BY DEF HomeInv, StoreList
<1>9. saving' = [saving EXCEPT ![p] = NoSave]
  BY DEF StoreList
<1> QED
  BY <1>3, <1>4, <1>7, <1>8, <1>9, SaveEnds DEF HomeInv, HoldsAList

LEMMA StoreListFailsStaysHome ==
  ASSUME HomeInv, NEW p \in Pages, StoreListFails(p)
  PROVE  HomeInv'
<1>1. PICK list \in Seq(Homely) : list = CleanSpecs(saving[p].list)
  BY CleanHomely DEF HomeInv, StoreListFails
<1>2. listed' = <<list>>
  BY <1>1 DEF StoreListFails
<1>3. HoldsAList(listed')
  BY <1>2 DEF HoldsAList
<1>4. HoldsAList(filed') /\ shown' \in [Pages -> Seq(Homely)] /\ running' \in Seq(Homely)
  BY DEF HomeInv, StoreListFails, HoldsAList
<1>5. saving' = [saving EXCEPT ![p] = NoSave]
  BY DEF StoreListFails
<1> QED
  BY <1>3, <1>4, <1>5, SaveEnds DEF HomeInv, HoldsAList

LEMMA RelaunchStaysHome ==
  ASSUME HomeInv, Relaunch
  PROVE  HomeInv'
<1>1. HoldsAList(listed') /\ HoldsAList(filed') /\ shown' \in [Pages -> Seq(Homely)]
  BY DEF HomeInv, Relaunch, HoldsAList
<1>2. running' \in Seq(Homely)
  <2>1. CASE filed = <<>>
    BY <2>1, EmptySeq DEF Relaunch
  <2>2. CASE filed # <<>>
    <3>1. PICK list \in Seq(Homely) : filed = <<list>>
      BY <2>2 DEF HomeInv, HoldsAList
    <3> QED
      BY <2>2, <3>1 DEF Relaunch
  <2> QED
    BY <2>1, <2>2
<1>3. DOMAIN saving' = Pages /\ \A q \in Pages : saving'[q].at = "none"
  BY DEF Relaunch, NoSave
<1> QED
  BY <1>1, <1>2, <1>3 DEF HomeInv, HoldsAList

LEMMA HomeStep == HomeInv /\ [RoutesNext]_routeVars => HomeInv'
<1> SUFFICES ASSUME HomeInv, [RoutesNext]_routeVars  PROVE HomeInv'
  OBVIOUS
<1>1. ASSUME NEW p \in Pages, Show(p)  PROVE HomeInv'
  BY <1>1, ShowStaysHome
<1>2. ASSUME NEW p \in Pages, Submit(p)  PROVE HomeInv'
  BY <1>2, SubmitStaysHome
<1>3. ASSUME NEW p \in Pages, Install(p)  PROVE HomeInv'
  BY <1>3, InstallStaysHome
<1>4. ASSUME NEW p \in Pages, StoreList(p)  PROVE HomeInv'
  BY <1>4, StoreListStaysHome
<1>5. ASSUME NEW p \in Pages, StoreListFails(p)  PROVE HomeInv'
  BY <1>5, StoreListFailsStaysHome
<1>6. CASE StoreOthers
  <2>1. HoldsAList(filed')
    BY <1>6, WrittenHolds DEF StoreOthers, HomeInv
  <2> QED
    BY <1>6, <2>1 DEF StoreOthers, HomeInv, HoldsAList
<1>7. CASE Relaunch
  BY <1>7, RelaunchStaysHome
<1>8. CASE UNCHANGED routeVars
  BY <1>8 DEF routeVars, HomeInv, HoldsAList
<1> QED
  BY <1>1, <1>2, <1>3, <1>4, <1>5, <1>6, <1>7, <1>8 DEF RoutesNext

LEMMA HomelyListsAtHome == HomeInv => AtHome
<1> SUFFICES ASSUME HomeInv, NEW list \in Lists, NEW i \in DOMAIN list
             PROVE  IsMasked(list[i]) \/ list[i] \in TypedLines
  BY DEF AtHome
<1>1. ASSUME NEW key, HoldsAList(key), list \in ToSet(key)  PROVE list \in Seq(Homely)
  <2>1. key # <<>>
    BY <1>1 DEF ToSet
  <2>2. PICK one \in Seq(Homely) : key = <<one>>
    BY <1>1, <2>1 DEF HoldsAList
  <2> QED
    BY <1>1, <2>2 DEF ToSet
<1>2. list \in Seq(Homely)
  BY <1>1 DEF Lists, HomeInv
<1>3. list[i] \in Homely
  BY <1>2, SeqFacts
<1> QED
  BY <1>3 DEF Homely

LEMMA OnlySubmitBegins ==
  ASSUME HomeInv, [RoutesNext]_routeVars, NEW p \in Pages, saving[p] = NoSave, saving'[p] # NoSave
  PROVE  Submit(p)
<1>1. ASSUME NEW q \in Pages, Show(q)  PROVE FALSE
  BY <1>1 DEF Show
<1>2. ASSUME NEW q \in Pages, NEW save, q # p, saving' = [saving EXCEPT ![q] = save]  PROVE FALSE
  BY <1>2 DEF HomeInv
<1>3. ASSUME NEW q \in Pages, Submit(q), q # p  PROVE FALSE
  <2>1. PICK list \in Seq(Editable), restored \in Seq(Homely \cup {BlankLine}) : Asks(q, list, restored)
    BY <1>3, SubmitAsks
  <2> QED
    BY <1>2, <1>3, <2>1 DEF Asks
<1>4. NoSave.at = "none"
  BY DEF NoSave
<1>5. ASSUME NEW q \in Pages, Install(q)  PROVE FALSE
  BY <1>2, <1>4, <1>5 DEF Install
<1>6. ASSUME NEW q \in Pages, StoreList(q)  PROVE FALSE
  BY <1>2, <1>4, <1>6 DEF StoreList
<1>7. ASSUME NEW q \in Pages, StoreListFails(q)  PROVE FALSE
  BY <1>2, <1>4, <1>7 DEF StoreListFails
<1>8. CASE StoreOthers
  BY <1>8 DEF StoreOthers
<1>9. CASE Relaunch
  BY <1>9 DEF Relaunch
<1>10. CASE UNCHANGED routeVars
  BY <1>10 DEF routeVars
<1> QED
  BY <1>1, <1>3, <1>5, <1>6, <1>7, <1>8, <1>9, <1>10 DEF RoutesNext

LEMMA UntouchedKeepsAll ==
  ASSUME HomeInv, [RoutesNext]_routeVars, NEW p \in Pages, Untouched(p)
  PROVE  saving'[p].list = listed[1]
<1>1. Submit(p)
  BY OnlySubmitBegins DEF Untouched
<1>2. PICK list \in Seq(Editable), restored \in Seq(Homely \cup {BlankLine}) : Asks(p, list, restored)
  BY <1>1, SubmitAsks
<1>3. PICK save : save = [at |-> "installing", asked |-> list, list |-> restored]
  OBVIOUS
<1>4. save.asked = list /\ save.list = restored
  BY <1>3
<1>5. saving' = [saving EXCEPT ![p] = save]
  BY <1>2, <1>3 DEF Asks
<1>6. saving'[p] = save
  BY <1>5 DEF HomeInv
<1>7. PICK stored \in Seq(Homely) : listed = <<stored>>
  BY DEF HomeInv, HoldsAList, Untouched
<1>8. listed # <<>> /\ listed[1] = stored
  BY <1>7
<1>9. list = MaskSpecs(stored) /\ \A i \in DOMAIN stored : ~IsMasked(stored[i])
  BY <1>4, <1>6, <1>8 DEF Untouched
<1>10. restored = RestoreCredentials(list, stored)
  BY <1>2, <1>8 DEF Asks, ProxySpecs
<1> QED
  BY <1>4, <1>6, <1>8, <1>9, <1>10, UntouchedIsRestored

(* A password goes to the host it was typed for and to no other, through   *)
(* any sequence of edits of any number of pages, saves that fail and       *)
(* restarts, and a list saved as it was shown keeps every password         *)
(* (restoreCredentials, handleProxiesSave).                                *)
THEOREM PasswordsAreKeptHome == RoutesSpec => PasswordsStayHome
<1>1. RoutesInit => HomeInv
  BY HomeInit
<1>2. HomeInv /\ [RoutesNext]_routeVars => HomeInv'
  BY HomeStep
<1>3. HomeInv => AtHome
  BY HomelyListsAtHome
<1>4. HomeInv /\ [RoutesNext]_routeVars =>
        [\A p \in Pages : Untouched(p) => saving'[p].list = listed[1]]_routeVars
  BY UntouchedKeepsAll
<1> QED
  BY <1>1, <1>2, <1>3, <1>4, PTL DEF RoutesSpec, PasswordsStayHome

-----------------------------------------------------------------------------
(* The log. *)

Stages == {"none", "checking", "walking", "asking", "streaming", "collecting", "returned", "logged"}

(* What a request is refused with: nothing by name, what an operator has   *)
(* to act on, or what the client or the backend has to answer for.         *)
Urgent == {"no_credential", "credential_rejected", "upstream_error", "egress_unavailable",
           "model_unavailable"}
Coded  == {"body_too_large", "invalid_api_key", "not_implemented", "timeout", "internal_error",
           "rate_limit_exceeded", "invalid_argument"}
Uncoded == {"bad_request", "method_not_allowed", "unavailable"}

Answers ==
  [status : {400, 405, 503}, code : {NoWords}] \cup [status : {502}, code : Urgent] \cup
  [status : {400, 401, 413, 429, 500, 501, 504}, code : Coded]

Texts == Urgent \cup Coded \cup Uncoded \cup {NoWords, "stream_failed", "panic"}
Hows  == Urgent \cup Coded \cup Uncoded \cup {"in_band", "torn", "answer", "nothing"}

Responses == [status : Int, error : Texts, code : Urgent \cup Coded \cup {NoWords}]
Events == [post : Posts \cup {NoPost}, seq : Int, status : Int, error : Texts,
           level : {"info", "warn", "error"}]

LogTyped ==
  /\ post \in [Posts -> [at : Stages, attempts : Int]]
  /\ trace \in [Posts -> Texts]
  /\ written \in [Posts -> Responses]
  /\ told \in [Posts -> Hows]
  /\ log \in Seq(Events)

(* What the line of a request says, from what was written to its client    *)
(* and what its trace holds.                                               *)
ErrorOf(w, words) == IF w.error # NoWords THEN w.error ELSE words
LevelOf(w, words) ==
  IF w.status >= 500 \/ Errorish(w.code) THEN "error"
  ELSE IF w.status >= 400 \/ ErrorOf(w, words) # NoWords THEN "warn" ELSE "info"

(* A line that tells the truth of a request that ended this way.           *)
Truthful(how, spoilt, status, error, level) ==
  /\ how \in {"in_band", "torn"}   => level # "info" /\ error # NoWords
  /\ how = "answer"  => (level = "info" <=> ~spoilt)
  /\ how = "nothing" => level # "error" /\ (~spoilt => level = "info")
  /\ how \notin {"in_band", "torn", "answer", "nothing"} =>
       error = how /\ status >= 400 /\ (level = "error" <=> status >= 500)

(* Before a request has returned, its client was told nothing, its trace   *)
(* holds words exactly if an account was tried in vain, and a response has *)
(* been committed exactly if it streams.                                   *)
InHand(at, words, w, how, spoilt) ==
  /\ at \in {"none", "checking"} => ~spoilt
  /\ how = "nothing"
  /\ words # NoWords <=> spoilt
  /\ w = IF at = "streaming" THEN [status |-> 200, error |-> NoWords, code |-> NoWords] ELSE NotWritten

Tells(at, words, w, how, spoilt) ==
  /\ at \notin {"returned", "logged"} => InHand(at, words, w, how, spoilt)
  /\ at = "returned" => Truthful(how, spoilt, w.status, ErrorOf(w, words), LevelOf(w, words))

TellsOf(q) == Tells(post[q].at, trace[q], written[q], told[q], q \in spoiled)

Line(q, i) ==
  /\ EventsOf(q) = {i}
  /\ Truthful(told[q], q \in spoiled, log[i].status, log[i].error, log[i].level)

LinesOf(q) ==
  /\ post[q].at # "logged" => EventsOf(q) = {}
  /\ post[q].at = "logged" => \E i \in DOMAIN log : Line(q, i)

LinesInv == LogTyped /\ \A q \in Posts : TellsOf(q) /\ LinesOf(q)

(* A failure's words are never empty and none of the four that say how     *)
(* else an answer ended; a code an operator has to act on comes with a     *)
(* status of 500 or more.                                                  *)
LEMMA WordsSay == \A text \in Urgent \cup Coded \cup Uncoded \cup {"stream_failed", "panic"} : text # NoWords
BY DEF NoWords, Urgent, Coded, Uncoded

LEMMA AnswersSpeak ==
  ASSUME NEW answer \in Answers
  PROVE  /\ answer.status \in Int /\ answer.status >= 400
         /\ answer.code \in Urgent \cup Coded \cup {NoWords}
         /\ Words(answer) \in Urgent \cup Coded \cup Uncoded
         /\ answer = [status |-> answer.status, code |-> answer.code]
         /\ Errorish(answer.code) => answer.status >= 500
<1>1. Words(answer) \in {answer.code} \cup Uncoded /\ (answer.code = NoWords => Words(answer) \in Uncoded)
  BY Zenon DEF Words, Uncoded
<1>2. \/ answer.code = NoWords /\ answer.status \in {400, 405, 503}
      \/ answer.code \in Urgent /\ answer.status = 502
      \/ answer.code \in Coded /\ answer.status \in {400, 401, 413, 429, 500, 501, 504}
  BY DEF Answers
<1>3. answer.status \in Int /\ answer.status >= 400
  BY <1>2
<1>4. answer.code \in Urgent \cup Coded \cup {NoWords}
  BY <1>2
<1>5. Words(answer) \in Urgent \cup Coded \cup Uncoded
  BY <1>1, <1>4
<1>6. Errorish(answer.code) => answer.status >= 500
  <2>1. CASE answer.code = NoWords
    BY <2>1 DEF Errorish, NoWords
  <2>2. CASE answer.code \in Coded
    BY <2>2 DEF Errorish, Coded
  <2> QED
    BY <1>2, <2>1, <2>2
<1>7. answer = [status |-> answer.status, code |-> answer.code]
  BY DEF Answers
<1> QED
  BY <1>3, <1>4, <1>5, <1>6, <1>7

LEMMA AnswersKnown ==
  /\ LocalRefusals \subseteq Answers
  /\ {NoCredential, BadRequest, TimedOut, InternalError} \subseteq Answers
BY DEF LocalRefusals, NoCredential, BadRequest, TimedOut, InternalError, Answer, Answers, Urgent, Coded

LEMMA ServedIsAnswer == \A status : ServedAs(status) \in Answers
<1> SUFFICES ASSUME NEW status PROVE ServedAs(status) \in Answers
  OBVIOUS
<1>1. ServedAs(status) = IF status \in {401, 403} THEN Answer(502, "credential_rejected")
                         ELSE IF status = 429 THEN Answer(429, "rate_limit_exceeded")
                         ELSE Answer(502, "upstream_error")
  BY DEF ServedAs
<1> QED
  BY <1>1 DEF Answer, Answers, Urgent, Coded

LEMMA UpstreamIsAnswer == \A err : UpstreamAnswer(err) \in Answers
<1> SUFFICES ASSUME NEW err PROVE UpstreamAnswer(err) \in Answers
  OBVIOUS
<1>1. \/ UpstreamAnswer(err) \in {ServedAs(err.status), ServedAs(StatusFromConnectCode(err.code))}
      \/ UpstreamAnswer(err) \in {Answer(502, "egress_unavailable"), Answer(400, "invalid_argument"),
                                  Answer(502, "model_unavailable"), Answer(502, "upstream_error")}
  BY DEF UpstreamAnswer
<1>2. {Answer(502, "egress_unavailable"), Answer(400, "invalid_argument"),
       Answer(502, "model_unavailable"), Answer(502, "upstream_error")} \subseteq Answers
  BY DEF Answer, Answers, Urgent, Coded
<1> QED
  BY <1>1, <1>2, ServedIsAnswer

(* A request that is refused before anything was committed is logged with  *)
(* the words it was refused with, whatever its trace holds.                *)
LEMMA RefusalTold ==
  ASSUME NEW answer \in Answers, NEW words,
         NEW w, w = [status |-> answer.status, error |-> Words(answer), code |-> answer.code]
  PROVE  /\ w \in Responses
         /\ Words(answer) \notin {"in_band", "torn", "answer", "nothing"}
         /\ ErrorOf(w, words) = Words(answer) /\ w.status >= 400
         /\ LevelOf(w, words) = "error" <=> w.status >= 500
<1>1. /\ w.status = answer.status /\ w.error = Words(answer) /\ w.code = answer.code
  OBVIOUS
<1>2. w.error # NoWords
  BY <1>1, AnswersSpeak, WordsSay
<1>7. Words(answer) \notin {"in_band", "torn", "answer", "nothing"}
  BY AnswersSpeak DEF Urgent, Coded, Uncoded
<1>3. ErrorOf(w, words) = Words(answer)
  BY <1>1, <1>2 DEF ErrorOf
<1>4. LevelOf(w, words) = "error" <=> answer.status >= 500
  BY <1>1, AnswersSpeak DEF LevelOf
<1>6. w \in Responses
  BY AnswersSpeak DEF Responses, Texts
<1> QED
  BY <1>1, <1>3, <1>4, <1>6, <1>7, AnswersSpeak

(* A step of a handler concerns its own request and not the hub: it is     *)
(* enough to know where it leaves that request.                            *)
Handled(q, at, attempts, words, w, how) ==
  /\ post' = [post EXCEPT ![q] = [at |-> at, attempts |-> attempts]]
  /\ trace' = [trace EXCEPT ![q] = words]
  /\ written' = [written EXCEPT ![q] = w]
  /\ told' = [told EXCEPT ![q] = how]
  /\ spoiled' \in {spoiled, spoiled \cup {q}}
  /\ UNCHANGED hub

LEMMA HandledKeeps ==
  ASSUME LinesInv, NEW q \in Posts, post[q].at # "logged",
         NEW at \in Stages \ {"logged"}, NEW attempts \in Int, NEW words \in Texts,
         NEW w \in Responses, NEW how \in Hows,
         Handled(q, at, attempts, words, w, how),
         Tells(at, words, w, how, q \in spoiled')
  PROVE  LinesInv'
<1>1. LogTyped'
  BY DEF LinesInv, LogTyped, Handled, hub
<1>2. \A r \in Posts : EventsOf(r)' = EventsOf(r) /\ log' = log
  BY DEF EventsOf, Handled, hub
<1>3. ASSUME NEW r \in Posts PROVE TellsOf(r)' /\ LinesOf(r)'
  <2>1. CASE r = q
    <3>1. /\ post'[r].at = at /\ trace'[r] = words /\ written'[r] = w /\ told'[r] = how
      BY <2>1 DEF LinesInv, LogTyped, Handled
    <3>2. TellsOf(r)'
      BY <2>1, <3>1 DEF TellsOf
    <3>3. LinesOf(r)'
      BY <2>1, <3>1, <1>2 DEF LinesOf, LinesInv
    <3> QED
      BY <3>2, <3>3
  <2>2. CASE r # q
    <3>1. /\ post'[r] = post[r] /\ trace'[r] = trace[r] /\ written'[r] = written[r]
          /\ told'[r] = told[r] /\ (r \in spoiled') = (r \in spoiled)
      BY <2>2 DEF LinesInv, LogTyped, Handled
    <3>2. TellsOf(r)'
      BY <3>1 DEF TellsOf, LinesInv
    <3>3. ASSUME NEW i, Line(r, i) PROVE Line(r, i)'
      BY <3>1, <3>3, <1>2 DEF Line
    <3>4. LinesOf(r)'
      BY <3>1, <3>3, <1>2 DEF LinesOf, LinesInv
    <3> QED
      BY <3>2, <3>4
  <2> QED
    BY <2>1, <2>2
<1> QED
  BY <1>1, <1>3 DEF LinesInv

LEMMA FailingsAreAnswers ==
  /\ \A answer \in LocalRefusals : answer \in Answers
  /\ NoCredential \in Answers /\ BadRequest \in Answers
  /\ TimedOut \in Answers /\ InternalError \in Answers
BY AnswersKnown

(* What is known of a request that has not returned yet.                   *)
LEMMA StillInHand ==
  ASSUME LinesInv, NEW q \in Posts, post[q].at \notin {"returned", "logged"}
  PROVE  /\ InHand(post[q].at, trace[q], written[q], told[q], q \in spoiled)
         /\ post[q].at \in Stages /\ post[q].attempts \in Int
         /\ post[q] = [at |-> post[q].at, attempts |-> post[q].attempts]
         /\ trace[q] \in Texts /\ written[q] \in Responses /\ told[q] \in Hows
<1>1. TellsOf(q) /\ LogTyped
  BY DEF LinesInv
<1> QED
  BY <1>1 DEF TellsOf, Tells, LogTyped

LEMMA NothingChanges ==
  ASSUME LinesInv, NEW q \in Posts
  PROVE  /\ trace = [trace EXCEPT ![q] = trace[q]]
         /\ written = [written EXCEPT ![q] = written[q]]
         /\ told = [told EXCEPT ![q] = told[q]]
<1>1. /\ trace \in [Posts -> Texts] /\ written \in [Posts -> Responses] /\ told \in [Posts -> Hows]
  BY DEF LinesInv, LogTyped
<1> QED
  BY <1>1

LEMMA GoesOn ==
  ASSUME LinesInv, NEW q \in Posts, NEW at, GoesTo(q, at)
  PROVE  post' = [post EXCEPT ![q] = [at |-> at, attempts |-> post[q].attempts]]
<1>1. post \in [Posts -> [at : Stages, attempts : Int]]
  BY DEF LinesInv, LogTyped
<1>2. [post[q] EXCEPT !.at = at] = [at |-> at, attempts |-> post[q].attempts]
  BY <1>1
<1> QED
  BY <1>1, <1>2 DEF GoesTo

(* A request that moves on without a word to anybody.                      *)
LEMMA RequestMovesOn ==
  ASSUME LinesInv, NEW q \in Posts, post[q].at \notin {"returned", "logged", "streaming"},
         NEW at \in Stages \ {"returned", "logged", "streaming"}, NEW attempts \in Int,
         at \in {"none", "checking"} => q \notin spoiled,
         post' = [post EXCEPT ![q] = [at |-> at, attempts |-> attempts]],
         UNCHANGED <<trace, written, told, spoiled, hub>>
  PROVE  LinesInv'
<1>1. Handled(q, at, attempts, trace[q], written[q], told[q])
  BY NothingChanges DEF Handled
<1>2. Tells(at, trace[q], written[q], told[q], q \in spoiled')
  BY StillInHand DEF Tells, InHand
<1>3. /\ post[q].at # "logged" /\ at \in Stages \ {"logged"}
      /\ trace[q] \in Texts /\ written[q] \in Responses /\ told[q] \in Hows
  BY StillInHand
<1> QED
  BY <1>1, <1>2, <1>3, HandledKeeps

(* A request that is refused while nothing of a response is out.           *)
LEMMA RefusedKeeps ==
  ASSUME LinesInv, NEW q \in Posts, post[q].at \notin {"returned", "logged", "streaming"},
         NEW answer \in Answers, WriteError(q, answer),
         NEW words \in Texts, trace' = [trace EXCEPT ![q] = words],
         spoiled' \in {spoiled, spoiled \cup {q}}, UNCHANGED hub
  PROVE  LinesInv'
<1> DEFINE w == [status |-> answer.status, error |-> Words(answer), code |-> answer.code]
<1>1. written[q] = NotWritten
  BY StillInHand DEF InHand
<1>2. written[q].status = 0
  BY <1>1 DEF NotWritten
<1>3. written' = [written EXCEPT ![q] = w] /\ told' = [told EXCEPT ![q] = Words(answer)]
  BY <1>2 DEF WriteError, Tell
<1>4. post' = [post EXCEPT ![q] = [at |-> "returned", attempts |-> post[q].attempts]]
  BY GoesOn DEF WriteError
<1>5. /\ w \in Responses /\ Words(answer) \notin {"in_band", "torn", "answer", "nothing"}
      /\ ErrorOf(w, words) = Words(answer) /\ w.status >= 400
      /\ LevelOf(w, words) = "error" <=> w.status >= 500
  BY RefusalTold
<1> HIDE DEF w
<1>6. Tells("returned", words, w, Words(answer), q \in spoiled')
  BY <1>5 DEF Tells, Truthful
<1>7. Handled(q, "returned", post[q].attempts, words, w, Words(answer))
  BY <1>3, <1>4 DEF Handled
<1>8. "returned" \in Stages \ {"logged"} /\ post[q].attempts \in Int /\ Words(answer) \in Hows
  BY StillInHand, AnswersSpeak DEF Stages, Hows
<1> QED
  BY <1>5, <1>6, <1>7, <1>8, HandledKeeps

(* What a line is when no error body was written: a warning exactly if     *)
(* there are words in the trace.                                           *)
LEMMA LineOfTrace ==
  ASSUME NEW w, NEW words, w.error = NoWords, w.code = NoWords, w.status \in {0, 200}
  PROVE  /\ ErrorOf(w, words) = words
         /\ LevelOf(w, words) = IF words # NoWords THEN "warn" ELSE "info"
<1>1. ~Errorish(w.code)
  BY DEF Errorish, NoWords
<1> QED
  BY <1>1 DEF ErrorOf, LevelOf

(* A request that ends without an error body: the answer is complete, or   *)
(* its client has gone, or what was begun is broken off.                   *)
Ended(q, how, w, words) ==
  /\ GoesTo(q, "returned")
  /\ told' = [told EXCEPT ![q] = how]
  /\ written' = [written EXCEPT ![q] = w]
  /\ trace' = [trace EXCEPT ![q] = words]
  /\ spoiled' \in {spoiled, spoiled \cup {q}}
  /\ how \in {"in_band", "torn"} => words # NoWords
  /\ how \in {"answer", "nothing"} => (words # NoWords <=> q \in spoiled')
  /\ UNCHANGED hub

LEMMA EndedKeeps ==
  ASSUME LinesInv, NEW q \in Posts, post[q].at \notin {"returned", "logged"},
         NEW how \in {"in_band", "torn", "answer", "nothing"}, NEW words \in Texts,
         NEW w \in Responses, w.error = NoWords, w.code = NoWords, w.status \in {0, 200},
         Ended(q, how, w, words)
  PROVE  LinesInv'
<1>1. post' = [post EXCEPT ![q] = [at |-> "returned", attempts |-> post[q].attempts]]
  BY GoesOn DEF Ended
<1>2. /\ ErrorOf(w, words) = words
      /\ LevelOf(w, words) = IF words # NoWords THEN "warn" ELSE "info"
  BY LineOfTrace
<1>3. Tells("returned", words, w, how, q \in spoiled')
  BY <1>2 DEF Tells, Truthful, Ended
<1>4. Handled(q, "returned", post[q].attempts, words, w, how)
  BY <1>1 DEF Handled, Ended
<1>5. "returned" \in Stages \ {"logged"} /\ post[q].attempts \in Int /\ how \in Hows
  BY StillInHand DEF Stages, Hows
<1> QED
  BY <1>3, <1>4, <1>5, HandledKeeps

(* A trace is told of a failure.                                           *)
LEMMA FailTells ==
  ASSUME LinesInv, NEW q \in Posts, post[q].at \notin {"returned", "logged"},
         NEW words \in Texts, words # NoWords, Fail(q, words)
  PROVE  \E told2 \in Texts : told2 # NoWords /\ trace' = [trace EXCEPT ![q] = told2]
<1> DEFINE told2 == IF trace[q] = NoWords THEN words ELSE trace[q]
<1>1. told2 \in Texts /\ told2 # NoWords
  BY StillInHand
<1>2. trace' = [trace EXCEPT ![q] = told2]
  BY DEF Fail
<1> QED
  BY <1>1, <1>2

-----------------------------------------------------------------------------
LEMMA ReceiveLines == ASSUME LinesInv, NEW q \in Posts, Receive(q) PROVE LinesInv'
<1>1. post[q].at = "none"
  BY DEF Receive, At
<1>2. q \notin spoiled /\ post[q].attempts \in Int
  BY <1>1, StillInHand DEF InHand
<1>3. post' = [post EXCEPT ![q] = [at |-> "checking", attempts |-> post[q].attempts]]
  BY GoesOn DEF Receive
<1>4. UNCHANGED <<trace, written, told, spoiled, hub>>
  BY DEF Receive
<1>5. "checking" \in Stages \ {"returned", "logged", "streaming"}
  BY DEF Stages
<1> QED
  BY <1>1, <1>2, <1>3, <1>4, <1>5, RequestMovesOn

LEMMA RefuseLines == ASSUME LinesInv, NEW q \in Posts, Refuse(q) PROVE LinesInv'
<1>1. post[q].at = "checking" /\ UNCHANGED <<trace, spoiled, hub>>
  BY DEF Refuse, At
<1>2. PICK answer \in LocalRefusals : WriteError(q, answer)
  BY DEF Refuse
<1>3. answer \in Answers
  BY FailingsAreAnswers
<1>4. /\ trace' = [trace EXCEPT ![q] = trace[q]] /\ trace[q] \in Texts
  BY <1>1, NothingChanges, StillInHand
<1> QED
  BY <1>1, <1>2, <1>3, <1>4, RefusedKeeps

LEMMA AskAccountLines == ASSUME LinesInv, NEW q \in Posts, AskAccount(q) PROVE LinesInv'
<1>1. post[q].at \in {"checking", "walking"} /\ UNCHANGED <<spoiled, hub>>
  BY DEF AskAccount, At
<1>2. CASE /\ post' = [post EXCEPT ![q] = [at |-> "asking", attempts |-> @.attempts + 1]]
           /\ UNCHANGED <<trace, written, told>>
  <2>1. "asking" \in Stages \ {"returned", "logged", "streaming"}
    BY DEF Stages
  <2>2. post[q].attempts \in Int
    BY <1>1, StillInHand
  <2>3. post' = [post EXCEPT ![q] = [at |-> "asking", attempts |-> post[q].attempts + 1]]
    BY <1>2
  <2>4. post[q].attempts + 1 \in Int
    BY <2>2
  <2> QED
    BY <1>1, <1>2, <2>1, <2>3, <2>4, RequestMovesOn
<1>3. ASSUME NEW answer \in Answers, WriteError(q, answer), trace' = trace PROVE LinesInv'
  <2>1. /\ trace' = [trace EXCEPT ![q] = trace[q]] /\ trace[q] \in Texts
    BY <1>1, <1>3, NothingChanges, StillInHand
  <2> QED
    BY <1>1, <1>3, <2>1, RefusedKeeps
<1>4. CASE WriteError(q, TimedOut) /\ Fail(q, Words(TimedOut))
  <2>1. TimedOut \in Answers /\ Words(TimedOut) \in Texts /\ Words(TimedOut) # NoWords
    BY FailingsAreAnswers, AnswersSpeak, WordsSay DEF Texts
  <2>2. PICK words \in Texts : trace' = [trace EXCEPT ![q] = words]
    BY <1>1, <1>4, <2>1, FailTells
  <2> QED
    BY <1>1, <1>4, <2>1, <2>2, RefusedKeeps
<1>5. CASE GoesTo(q, "returned") /\ Quietly(q) /\ UNCHANGED <<trace, written>>
  <2>1. /\ trace[q] \in Texts
        /\ trace[q] # NoWords <=> q \in spoiled
        /\ written[q] = NotWritten /\ written[q] \in Responses /\ told[q] = "nothing"
    BY <1>1, StillInHand DEF InHand
  <2>2. written[q].error = NoWords /\ written[q].code = NoWords /\ written[q].status \in {0, 200}
    BY <2>1 DEF NotWritten
  <2>3. Ended(q, "nothing", written[q], trace[q])
    BY <1>1, <1>5, <2>1, NothingChanges DEF Ended, Quietly
  <2> QED
    BY <1>1, <2>1, <2>2, <2>3, EndedKeeps
<1> QED
  BY <1>2, <1>3, <1>4, <1>5, FailingsAreAnswers DEF AskAccount

LEMMA AttemptFailsLines == ASSUME LinesInv, NEW q \in Posts, AttemptFails(q) PROVE LinesInv'
<1>1. post[q].at = "asking" /\ spoiled' = spoiled \cup {q} /\ UNCHANGED hub
  BY DEF AttemptFails, At
<1> DEFINE answer(err) == UpstreamAnswer(err)
<1>2. PICK err \in Failures :
        /\ Fail(q, Words(answer(err)))
        /\ \/ GoesTo(q, "walking") /\ UNCHANGED <<written, told>>
           \/ WriteError(q, answer(err)) \/ WriteError(q, TimedOut)
           \/ GoesTo(q, "returned") /\ Quietly(q) /\ written' = written
  BY DEF AttemptFails
<1>3. answer(err) \in Answers /\ Words(answer(err)) \in Texts /\ Words(answer(err)) # NoWords
  BY UpstreamIsAnswer, AnswersSpeak, WordsSay DEF Texts
<1>4. PICK words \in Texts : words # NoWords /\ trace' = [trace EXCEPT ![q] = words]
  BY <1>1, <1>2, <1>3, FailTells
<1>5. /\ written[q] = NotWritten /\ written[q] \in Responses /\ told[q] = "nothing"
      /\ post[q].attempts \in Int
  BY <1>1, StillInHand DEF InHand
<1>6. CASE GoesTo(q, "walking") /\ UNCHANGED <<written, told>>
  <2>1. post' = [post EXCEPT ![q] = [at |-> "walking", attempts |-> post[q].attempts]]
    BY <1>6, GoesOn
  <2>2. Handled(q, "walking", post[q].attempts, words, written[q], told[q])
    BY <1>1, <1>4, <1>6, <2>1, NothingChanges DEF Handled
  <2>3. Tells("walking", words, written[q], told[q], q \in spoiled')
    BY <1>1, <1>4, <1>5 DEF Tells, InHand
  <2>4. "walking" \in Stages \ {"logged"} /\ told[q] \in Hows /\ post[q].at # "logged"
    BY <1>1, <1>5 DEF Stages, Hows
  <2> QED
    BY <1>5, <2>2, <2>3, <2>4, HandledKeeps
<1>7. ASSUME NEW given \in Answers, WriteError(q, given) PROVE LinesInv'
  BY <1>1, <1>4, <1>7, RefusedKeeps
<1>8. CASE GoesTo(q, "returned") /\ Quietly(q) /\ written' = written
  <2>1. told' = [told EXCEPT ![q] = "nothing"] /\ written' = [written EXCEPT ![q] = written[q]]
    BY <1>5, <1>8, NothingChanges DEF Quietly
  <2>2. written[q].error = NoWords /\ written[q].code = NoWords /\ written[q].status \in {0, 200}
    BY <1>5 DEF NotWritten
  <2>3. Ended(q, "nothing", written[q], words)
    BY <1>1, <1>4, <1>8, <2>1 DEF Ended
  <2> QED
    BY <1>1, <1>5, <2>2, <2>3, EndedKeeps
<1> QED
  BY <1>2, <1>3, <1>6, <1>7, <1>8, FailingsAreAnswers

LEMMA StreamOpensLines == ASSUME LinesInv, NEW q \in Posts, StreamOpens(q) PROVE LinesInv'
<1>1. post[q].at = "asking" /\ UNCHANGED <<trace, told, spoiled, hub>>
  BY DEF StreamOpens, At
<1>2. written[q] = NotWritten /\ post[q].attempts \in Int
  BY <1>1, StillInHand DEF InHand
<1>3. CASE GoesTo(q, "streaming") /\ Commit(q, 200)
  <2> DEFINE w == [status |-> 200, error |-> NoWords, code |-> NoWords]
  <2>1. post' = [post EXCEPT ![q] = [at |-> "streaming", attempts |-> post[q].attempts]]
    BY <1>3, GoesOn
  <2>2. written' = [written EXCEPT ![q].status = 200]
    BY <1>2, <1>3 DEF Commit, NotWritten
  <2>3. [written[q] EXCEPT !.status = 200] = w
    BY <1>2 DEF NotWritten
  <2>4. written' = [written EXCEPT ![q] = w]
    BY <2>2, <2>3
  <2>5. w \in Responses
    BY DEF Responses, Texts
  <2>6. Handled(q, "streaming", post[q].attempts, trace[q], w, told[q])
    BY <1>1, <2>1, <2>4, NothingChanges DEF Handled
  <2>7. Tells("streaming", trace[q], w, told[q], q \in spoiled')
    BY <1>1, StillInHand DEF Tells, InHand
  <2>8. /\ "streaming" \in Stages \ {"logged"} /\ post[q].at # "logged"
        /\ trace[q] \in Texts /\ told[q] \in Hows
    BY <1>1, StillInHand DEF Stages
  <2> HIDE DEF w
  <2> QED
    BY <1>2, <2>5, <2>6, <2>7, <2>8, HandledKeeps
<1>4. CASE GoesTo(q, "collecting") /\ written' = written
  <2>1. post' = [post EXCEPT ![q] = [at |-> "collecting", attempts |-> post[q].attempts]]
    BY <1>4, GoesOn
  <2>2. "collecting" \in Stages \ {"returned", "logged", "streaming"}
    BY DEF Stages
  <2> QED
    BY <1>1, <1>2, <1>4, <2>1, <2>2, RequestMovesOn
<1> QED
  BY <1>3, <1>4 DEF StreamOpens

(* What has been committed of a response that streams, or will be of one   *)
(* that is collected.                                                      *)
LEMMA Committed ==
  ASSUME LinesInv, NEW q \in Posts, post[q].at \in {"streaming", "collecting"}
  PROVE  /\ written[q] \in Responses /\ written[q].status \in {0, 200}
         /\ written[q].error = NoWords /\ written[q].code = NoWords
         /\ written[q].status = 200 <=> post[q].at = "streaming"
<1>1. written[q] = IF post[q].at = "streaming"
                   THEN [status |-> 200, error |-> NoWords, code |-> NoWords] ELSE NotWritten
  BY StillInHand DEF InHand
<1>2. written[q] \in Responses
  BY StillInHand
<1>3. CASE post[q].at = "streaming"
  BY <1>1, <1>2, <1>3
<1>4. CASE post[q].at # "streaming"
  BY <1>1, <1>2, <1>4 DEF NotWritten
<1> QED
  BY <1>3, <1>4

LEMMA TraceStands ==
  ASSUME LinesInv, NEW q \in Posts, post[q].at \notin {"returned", "logged"},
         UNCHANGED <<trace, spoiled>>
  PROVE  /\ trace' = [trace EXCEPT ![q] = trace[q]] /\ trace[q] \in Texts
         /\ spoiled' \in {spoiled, spoiled \cup {q}}
         /\ trace[q] # NoWords <=> q \in spoiled'
BY NothingChanges, StillInHand DEF InHand

LEMMA AnswerEndsLines == ASSUME LinesInv, NEW q \in Posts, AnswerEnds(q) PROVE LinesInv'
<1> DEFINE w == [status |-> 200, error |-> NoWords, code |-> NoWords]
<1>1. /\ post[q].at \in {"streaming", "collecting"} /\ GoesTo(q, "returned")
      /\ told' = [told EXCEPT ![q] = "answer"] /\ UNCHANGED <<trace, spoiled, hub>>
  BY DEF AnswerEnds, At, Tell
<1>2. written' = [written EXCEPT ![q].status = 200]
  BY <1>1, Committed DEF AnswerEnds, Commit
<1>3. [written[q] EXCEPT !.status = 200] = w
  BY <1>1, Committed DEF Responses
<1>4. written' = [written EXCEPT ![q] = w]
  BY <1>2, <1>3
<1>7. w \in Responses
  BY DEF Responses, Texts
<1>5. w.error = NoWords /\ w.code = NoWords /\ w.status \in {0, 200}
  OBVIOUS
<1> HIDE DEF w
<1>6. /\ trace' = [trace EXCEPT ![q] = trace[q]] /\ trace[q] \in Texts
      /\ spoiled' \in {spoiled, spoiled \cup {q}}
      /\ trace[q] # NoWords <=> q \in spoiled'
  BY <1>1, TraceStands
<1>8. Ended(q, "answer", w, trace[q])
  BY <1>1, <1>4, <1>6 DEF Ended
<1> QED
  BY <1>1, <1>5, <1>6, <1>7, <1>8, EndedKeeps

LEMMA HangsUpLines == ASSUME LinesInv, NEW q \in Posts, HangsUp(q) PROVE LinesInv'
<1>1. /\ post[q].at \in {"streaming", "collecting"} /\ GoesTo(q, "returned")
      /\ UNCHANGED <<told, written, trace, spoiled, hub>>
  BY DEF HangsUp, At, Quietly
<1>2. told' = [told EXCEPT ![q] = "nothing"] /\ written' = [written EXCEPT ![q] = written[q]]
  BY <1>1, NothingChanges, StillInHand DEF InHand
<1>3. /\ trace' = [trace EXCEPT ![q] = trace[q]] /\ trace[q] \in Texts
      /\ spoiled' \in {spoiled, spoiled \cup {q}}
      /\ trace[q] # NoWords <=> q \in spoiled'
  BY <1>1, TraceStands
<1>4. Ended(q, "nothing", written[q], trace[q])
  BY <1>1, <1>2, <1>3 DEF Ended
<1>5. /\ written[q] \in Responses /\ written[q].status \in {0, 200}
      /\ written[q].error = NoWords /\ written[q].code = NoWords
  BY <1>1, Committed
<1> QED
  BY <1>1, <1>3, <1>4, <1>5, EndedKeeps

(* What is told in-band or by a torn connection is in the trace.           *)
LEMMA BrokenOffKeeps ==
  ASSUME LinesInv, NEW q \in Posts, post[q].at = "streaming", GoesTo(q, "returned"),
         NEW how \in {"in_band", "torn"}, told' = [told EXCEPT ![q] = how],
         NEW failure \in {"stream_failed", "panic"}, Fail(q, failure),
         UNCHANGED <<written, spoiled, hub>>
  PROVE  LinesInv'
<1>1. failure \in Texts /\ failure # NoWords
  BY WordsSay DEF Texts
<1>2. PICK words \in Texts : words # NoWords /\ trace' = [trace EXCEPT ![q] = words]
  BY <1>1, FailTells
<1>3. /\ written[q] \in Responses /\ written[q].status \in {0, 200}
      /\ written[q].error = NoWords /\ written[q].code = NoWords
      /\ written' = [written EXCEPT ![q] = written[q]]
  BY Committed, NothingChanges
<1>4. spoiled' \in {spoiled, spoiled \cup {q}}
  OBVIOUS
<1>5. Ended(q, how, written[q], words)
  BY <1>2, <1>3, <1>4 DEF Ended
<1> QED
  BY <1>3, <1>5, EndedKeeps

LEMMA StreamFailsLines == ASSUME LinesInv, NEW q \in Posts, StreamFails(q) PROVE LinesInv'
BY BrokenOffKeeps DEF StreamFails, At, Tell

LEMMA CollectFailsLines == ASSUME LinesInv, NEW q \in Posts, CollectFails(q) PROVE LinesInv'
<1>1. post[q].at = "collecting" /\ UNCHANGED <<spoiled, hub>>
  BY DEF CollectFails, At
<1>2. PICK answer \in Answers : Fail(q, Words(answer)) /\ WriteError(q, answer)
  BY UpstreamIsAnswer, FailingsAreAnswers DEF CollectFails
<1>3. Words(answer) \in Texts /\ Words(answer) # NoWords
  BY AnswersSpeak, WordsSay DEF Texts
<1>4. PICK words \in Texts : trace' = [trace EXCEPT ![q] = words]
  BY <1>1, <1>2, <1>3, FailTells
<1> QED
  BY <1>1, <1>2, <1>4, RefusedKeeps

LEMMA PanicsLines == ASSUME LinesInv, NEW q \in Posts, Panics(q) PROVE LinesInv'
<1>1. /\ post[q].at \in {"checking", "asking", "streaming", "collecting"}
      /\ Fail(q, "panic") /\ UNCHANGED <<spoiled, hub>>
  BY DEF Panics, At
<1>2. CASE post[q].at = "streaming"
  <2>1. written[q].status # 0
    BY <1>2, Committed
  <2> QED
    BY <1>1, <1>2, <2>1, BrokenOffKeeps DEF Panics, Tell
<1>3. CASE post[q].at # "streaming"
  <2>1. written[q] = NotWritten
    BY <1>1, <1>3, StillInHand DEF InHand
  <2>2. WriteError(q, InternalError)
    BY <2>1 DEF Panics, NotWritten
  <2>3. "panic" \in Texts /\ "panic" # NoWords
    BY WordsSay DEF Texts
  <2>4. PICK words \in Texts : trace' = [trace EXCEPT ![q] = words]
    BY <1>1, <2>3, FailTells
  <2> QED
    BY <1>1, <1>3, <2>2, <2>4, FailingsAreAnswers, RefusedKeeps
<1> QED
  BY <1>2, <1>3

(* A line more: the lines that were there stay where they were.            *)
LEMMA LogGrows ==
  ASSUME log \in Seq(Events), NEW e \in Events, log' = Append(log, e)
  PROVE  /\ log' \in Seq(Events) /\ Len(log') = Len(log) + 1
         /\ \A i \in DOMAIN log : i \in DOMAIN log' /\ log'[i] = log[i]
         /\ log'[Len(log) + 1] = e
         /\ \A q : EventsOf(q)' = IF e.post = q THEN EventsOf(q) \cup {Len(log) + 1} ELSE EventsOf(q)
<1>1. /\ log' \in Seq(Events) /\ Len(log') = Len(log) + 1
      /\ DOMAIN log = 1..Len(log) /\ DOMAIN log' = 1..(Len(log) + 1)
      /\ \A i \in DOMAIN log : i \in DOMAIN log' /\ log'[i] = log[i]
      /\ log'[Len(log) + 1] = e
  OBVIOUS
<1>2. ASSUME NEW q
      PROVE  EventsOf(q)' = IF e.post = q THEN EventsOf(q) \cup {Len(log) + 1} ELSE EventsOf(q)
  <2>1. \A i \in DOMAIN log' : i \in DOMAIN log \/ i = Len(log) + 1
    BY <1>1
  <2>2. \A i : i \in EventsOf(q)' <=> i \in DOMAIN log' /\ log'[i].post = q
    BY DEF EventsOf
  <2>3. \A i : i \in EventsOf(q) <=> i \in DOMAIN log /\ log[i].post = q
    BY DEF EventsOf
  <2>4. \A i : i \in EventsOf(q)' <=> i \in EventsOf(q) \/ (i = Len(log) + 1 /\ e.post = q)
    <3>1. Len(log) + 1 \in DOMAIN log' /\ Len(log) + 1 \notin DOMAIN log
      BY <1>1
    <3> QED
      BY <1>1, <2>1, <2>2, <2>3, <3>1
  <2>5. CASE e.post = q
    <3>1. EventsOf(q)' = EventsOf(q) \cup {Len(log) + 1}
      BY <2>4, <2>5
    <3> QED
      BY <3>1, <2>5
  <2>6. CASE e.post # q
    <3>1. EventsOf(q)' = EventsOf(q)
      BY <2>4, <2>6
    <3> QED
      BY <3>1, <2>6
  <2> QED
    BY <2>5, <2>6
<1> QED
  BY <1>1, <1>2

LEMMA LineStays ==
  ASSUME LinesInv, NEW e \in Events, log' = Append(log, e), NEW r \in Posts, e.post # r,
         post'[r] = post[r], UNCHANGED <<told, spoiled>>
  PROVE  LinesOf(r)'
<1>1. log \in Seq(Events) /\ LinesOf(r)
  BY DEF LinesInv, LogTyped
<1>2. /\ EventsOf(r)' = EventsOf(r)
      /\ \A i \in DOMAIN log : i \in DOMAIN log' /\ log'[i] = log[i]
  BY <1>1, LogGrows
<1>3. ASSUME NEW i \in DOMAIN log, Line(r, i) PROVE Line(r, i)'
  BY <1>2, <1>3 DEF Line
<1> QED
  BY <1>1, <1>2, <1>3 DEF LinesOf

LEMMA EventFacts ==
  ASSUME LinesInv, NEW q \in Posts
  PROVE  LET e == EventOf(q)
         IN  /\ e \in Events /\ e.post = q /\ e.status = written[q].status
             /\ e.error = ErrorOf(written[q], trace[q]) /\ e.level = LevelOf(written[q], trace[q])
<1>1. /\ written[q] \in Responses /\ trace[q] \in Texts /\ Len(log) + 1 \in Int
  BY DEF LinesInv, LogTyped
<1>2. EventOf(q) = [post |-> q, seq |-> Len(log) + 1, status |-> written[q].status,
                    error |-> ErrorOf(written[q], trace[q]),
                    level |-> LevelOf(written[q], trace[q])]
  BY DEF EventOf, ErrorOf, LevelOf
<1>3. /\ written[q].status \in Int /\ ErrorOf(written[q], trace[q]) \in Texts
      /\ LevelOf(written[q], trace[q]) \in {"info", "warn", "error"}
  BY <1>1 DEF Responses, ErrorOf, LevelOf, Texts
<1> QED
  BY <1>1, <1>2, <1>3 DEF Events

LEMMA EmitRequestLines == ASSUME LinesInv, NEW q \in Posts, EmitRequest(q) PROVE LinesInv'
<1> DEFINE e == EventOf(q)
<1>1. /\ post[q].at = "returned" /\ log' = Append(log, e) /\ GoesTo(q, "logged")
      /\ UNCHANGED <<trace, written, told, spoiled>>
  BY DEF EmitRequest, At, Emit
<1>2. /\ LogTyped /\ TellsOf(q) /\ LinesOf(q) /\ log \in Seq(Events)
      /\ post \in [Posts -> [at : Stages, attempts : Int]]
  BY DEF LinesInv, LogTyped
<1>3. /\ e \in Events /\ e.post = q /\ e.status = written[q].status
      /\ e.error = ErrorOf(written[q], trace[q]) /\ e.level = LevelOf(written[q], trace[q])
  BY EventFacts
<1> HIDE DEF e
<1>4. /\ post' = [post EXCEPT ![q] = [at |-> "logged", attempts |-> post[q].attempts]]
      /\ "logged" \in Stages /\ post[q].attempts \in Int
  BY <1>1, <1>2, GoesOn DEF Stages
<1>5. /\ log' \in Seq(Events) /\ Len(log') = Len(log) + 1
      /\ log'[Len(log) + 1] = e /\ EventsOf(q)' = EventsOf(q) \cup {Len(log) + 1}
  BY <1>1, <1>2, <1>3, LogGrows
<1>6. LogTyped'
  BY <1>1, <1>2, <1>4, <1>5 DEF LogTyped
<1>7. post'[q].at = "logged" /\ \A r \in Posts \ {q} : post'[r] = post[r]
  BY <1>2, <1>4
<1>8. TellsOf(q)' /\ LinesOf(q)'
  <2>1. EventsOf(q) = {}
    BY <1>1, <1>2 DEF LinesOf
  <2>2. Truthful(told[q], q \in spoiled, e.status, e.error, e.level)
    BY <1>1, <1>2, <1>3 DEF TellsOf, Tells
  <2>3. PICK k : k = Len(log) + 1
    OBVIOUS
  <2>4. EventsOf(q)' = {k} /\ log'[k] = e /\ k \in DOMAIN log'
    BY <1>2, <1>5, <2>1, <2>3
  <2>5. Line(q, k)'
    BY <1>1, <2>2, <2>4 DEF Line
  <2>6. LinesOf(q)'
    BY <1>7, <2>4, <2>5 DEF LinesOf
  <2>7. TellsOf(q)'
    BY <1>7 DEF TellsOf, Tells
  <2> QED
    BY <2>6, <2>7
<1>9. ASSUME NEW r \in Posts, r # q PROVE TellsOf(r)' /\ LinesOf(r)'
  <2>1. LinesOf(r)'
    BY <1>1, <1>3, <1>7, <1>9, LineStays
  <2>2. TellsOf(r)'
    BY <1>1, <1>7, <1>9 DEF TellsOf, LinesInv
  <2> QED
    BY <2>1, <2>2
<1> QED
  BY <1>6, <1>8, <1>9 DEF LinesInv

LEMMA LogLineLines == ASSUME LinesInv, LogLine PROVE LinesInv'
<1> DEFINE e == [post |-> NoPost, seq |-> Len(log) + 1, status |-> 0, error |-> NoWords, level |-> "info"]
<1>1. log' = Append(log, e) /\ UNCHANGED <<post, trace, written, told, spoiled>>
  BY DEF LogLine, Emit
<1>2. log \in Seq(Events) /\ Len(log) + 1 \in Int
  BY DEF LinesInv, LogTyped
<1>3. e \in Events /\ e.post = NoPost
  BY <1>2 DEF Events, Texts
<1> HIDE DEF e
<1>4. LogTyped'
  BY <1>1, <1>2, <1>3, LogGrows DEF LinesInv, LogTyped
<1>5. ASSUME NEW r \in Posts PROVE TellsOf(r)' /\ LinesOf(r)'
  <2>1. e.post # r
    BY <1>3, RequestLogAssumption
  <2>2. LinesOf(r)'
    BY <1>1, <1>3, <2>1, LineStays
  <2>3. TellsOf(r)'
    BY <1>1 DEF TellsOf, LinesInv
  <2> QED
    BY <2>2, <2>3
<1> QED
  BY <1>4, <1>5 DEF LinesInv

LEMMA QuietLines == ASSUME LinesInv, UNCHANGED logVars PROVE LinesInv'
<1>1. UNCHANGED <<post, trace, written, log, told, spoiled>>
  BY DEF logVars
<1>2. LogTyped'
  BY <1>1 DEF LinesInv, LogTyped
<1>3. ASSUME NEW r \in Posts PROVE TellsOf(r)' /\ LinesOf(r)'
  <2>1. TellsOf(r) /\ LinesOf(r)
    BY DEF LinesInv
  <2> QED
    BY <1>1, <2>1 DEF TellsOf, LinesOf, Line, EventsOf
<1> QED
  BY <1>2, <1>3 DEF LinesInv

LEMMA InitLines == LogInit => LinesInv
<1> SUFFICES ASSUME LogInit PROVE LinesInv
  OBVIOUS
<1>1. /\ post = [q \in Posts |-> [at |-> "none", attempts |-> 0]]
      /\ trace = [q \in Posts |-> NoWords] /\ written = [q \in Posts |-> NotWritten]
      /\ told = [q \in Posts |-> "nothing"] /\ log = <<>> /\ spoiled = {}
  BY DEF LogInit
<1>2. NotWritten \in Responses /\ NoWords \in Texts /\ "nothing" \in Hows /\ "none" \in Stages
  BY DEF NotWritten, Responses, Texts, Hows, Stages
<1>3. LogTyped
  BY <1>1, <1>2 DEF LogTyped
<1>4. ASSUME NEW r \in Posts PROVE TellsOf(r) /\ LinesOf(r)
  <2>1. /\ post[r].at = "none" /\ trace[r] = NoWords /\ written[r] = NotWritten
        /\ told[r] = "nothing" /\ r \notin spoiled
    BY <1>1
  <2>2. EventsOf(r) = {}
    BY <1>1 DEF EventsOf
  <2> QED
    BY <2>1, <2>2 DEF TellsOf, Tells, InHand, LinesOf
<1> QED
  BY <1>3, <1>4 DEF LinesInv

LEMMA NextLines == LinesInv /\ [LogNext]_logVars => LinesInv'
<1> SUFFICES ASSUME LinesInv, [LogNext]_logVars PROVE LinesInv'
  OBVIOUS
<1>1. CASE LogLine
  BY <1>1, LogLineLines
<1>2. CASE UNCHANGED logVars
  BY <1>2, QuietLines
<1>3. ASSUME NEW q \in Posts,
             \/ Receive(q) \/ Refuse(q) \/ AskAccount(q) \/ AttemptFails(q) \/ StreamOpens(q)
             \/ AnswerEnds(q) \/ StreamFails(q) \/ CollectFails(q) \/ HangsUp(q) \/ Panics(q)
             \/ EmitRequest(q)
      PROVE  LinesInv'
  BY <1>3, ReceiveLines, RefuseLines, AskAccountLines, AttemptFailsLines, StreamOpensLines,
     AnswerEndsLines, StreamFailsLines, CollectFailsLines, HangsUpLines, PanicsLines,
     EmitRequestLines
<1> QED
  BY <1>1, <1>2, <1>3 DEF LogNext

LEMMA LinesTell == LinesInv => RequestsLogged
<1> SUFFICES ASSUME LinesInv, NEW q \in Posts
    PROVE  /\ Cardinality(EventsOf(q)) = IF post[q].at = "logged" THEN 1 ELSE 0
           /\ \A i \in EventsOf(q) :
                LET e == log[i]
                IN  CASE told[q] \in {"in_band", "torn"} -> e.level # "info" /\ e.error # NoWords
                      [] told[q] = "answer"  -> (e.level = "info" <=> q \notin spoiled)
                      [] told[q] = "nothing" -> e.level # "error" /\ (q \notin spoiled => e.level = "info")
                      [] OTHER -> /\ e.error = told[q] /\ e.status >= 400
                                  /\ e.level = "error" <=> e.status >= 500
  BY DEF RequestsLogged
<1>1. LinesOf(q)
  BY DEF LinesInv
<1>2. CASE post[q].at # "logged"
  <2>1. EventsOf(q) = {}
    BY <1>1, <1>2 DEF LinesOf
  <2> QED
    BY <1>2, <2>1, FS_EmptySet
<1>3. CASE post[q].at = "logged"
  <2>1. PICK i \in DOMAIN log : Line(q, i)
    BY <1>1, <1>3 DEF LinesOf
  <2>2. EventsOf(q) = {i} /\ Truthful(told[q], q \in spoiled, log[i].status, log[i].error, log[i].level)
    BY <2>1 DEF Line
  <2>3. Cardinality(EventsOf(q)) = 1
    BY <2>2, FS_Singleton
  <2>4. CASE told[q] \in {"in_band", "torn"}
    BY <1>3, <2>2, <2>3, <2>4 DEF Truthful
  <2>5. CASE told[q] = "answer"
    BY <1>3, <2>2, <2>3, <2>5 DEF Truthful
  <2>7. CASE told[q] = "nothing"
    BY <1>3, <2>2, <2>3, <2>7 DEF Truthful
  <2>6. CASE told[q] \notin {"in_band", "torn", "answer", "nothing"}
    BY <1>3, <2>2, <2>3, <2>6 DEF Truthful
  <2> QED
    BY <2>4, <2>5, <2>6, <2>7
<1> QED
  BY <1>2, <1>3

-----------------------------------------------------------------------------
(* The ring. *)

(* The newest `count` events, from the oldest slot round the ring; until   *)
(* it is full, it holds the whole log from its first slot on.              *)
RingInv ==
  /\ log \in Seq(Events)
  /\ start \in 0..(Capacity - 1) /\ count \in 0..Capacity
  /\ count <= Len(log)
  /\ count < Capacity => start = 0 /\ count = Len(log)
  /\ DOMAIN ring = 1..Capacity
  /\ \A i \in 1..count : ring[Slot(start + i - 1)] = log[Len(log) - count + i]

LEMMA SlotsRound ==
  /\ Capacity \in Nat \ {0}
  /\ \A i \in 0..(Capacity - 1) : Slot(i) = i + 1
  /\ \A i \in Capacity..(2 * Capacity - 1) : Slot(i) = i - Capacity + 1
  /\ (Capacity % Capacity) = 0
<1>1. Capacity \in Nat \ {0}
  BY RequestLogAssumption
<1>2. \A i \in 0..(Capacity - 1) : i % Capacity = i
  BY <1>1
<1>3. \A i \in Capacity..(2 * Capacity - 1) : i % Capacity = i - Capacity
  <2> SUFFICES ASSUME NEW i \in Capacity..(2 * Capacity - 1) PROVE i % Capacity = i - Capacity
    OBVIOUS
  <2>1. \A x \in 0..(Capacity - 1) : (x + Capacity) % Capacity = x
    BY <1>1
  <2>2. i - Capacity \in 0..(Capacity - 1) /\ (i - Capacity) + Capacity = i
    BY <1>1
  <2> QED
    BY <2>1, <2>2
<1>4. (Capacity % Capacity) = 0
  BY <1>1, <1>3
<1> QED
  BY <1>1, <1>2, <1>3, <1>4 DEF Slot

LEMMA EmitRing ==
  ASSUME RingInv, NEW e \in Events, Emit(e)
  PROVE  RingInv'
<1>1. /\ log' = Append(log, e) /\ log \in Seq(Events)
      /\ start \in 0..(Capacity - 1) /\ count \in 0..Capacity /\ Len(log) \in Nat
      /\ count <= Len(log) /\ DOMAIN ring = 1..Capacity /\ Capacity \in Nat \ {0}
  BY SlotsRound DEF RingInv, Emit
<1>2. /\ log' \in Seq(Events) /\ Len(log') = Len(log) + 1 /\ log'[Len(log) + 1] = e
      /\ \A i \in 1..Len(log) : log'[i] = log[i]
  BY <1>1
<1>3. CASE count < Capacity
  <2>1. start = 0 /\ count = Len(log)
    BY <1>3 DEF RingInv
  <2>2. /\ ring' = [ring EXCEPT ![Slot(start + count)] = e] /\ count' = count + 1 /\ start' = start
    BY <1>3 DEF Emit
  <2>3. Slot(start + count) = count + 1
    BY <1>1, <1>3, <2>1, SlotsRound
  <2>4. ASSUME NEW i \in 1..(count + 1)
        PROVE  ring'[Slot(start' + i - 1)] = log'[Len(log') - count' + i]
    <3>1. Slot(start' + i - 1) = i
      <4>1. start' + i - 1 = i - 1 /\ i - 1 \in 0..(Capacity - 1)
        BY <1>1, <1>3, <2>1, <2>2
      <4>2. Slot(i - 1) = (i - 1) + 1
        BY <4>1, SlotsRound
      <4> QED
        BY <4>1, <4>2
    <3>2. Len(log') - count' + i = i
      BY <1>1, <1>2, <2>1, <2>2
    <3>3. ring'[i] = IF i = count + 1 THEN e ELSE ring[i]
      BY <1>1, <1>3, <2>2, <2>3
    <3>4. i # count + 1 => i \in 1..count /\ ring[Slot(start + i - 1)] = log[Len(log) - count + i]
      BY <1>1 DEF RingInv
    <3>5. i # count + 1 => ring[i] = log[i]
      <4>1. start' + i - 1 = start + i - 1 /\ Len(log) - count + i = i
        BY <1>1, <2>1, <2>2
      <4> QED
        BY <3>1, <3>4, <4>1
    <3> QED
      BY <1>1, <1>2, <2>1, <3>1, <3>2, <3>3, <3>5
  <2>5. /\ start' \in 0..(Capacity - 1) /\ count' \in 0..Capacity /\ count' = Len(log')
        /\ start' = 0 /\ DOMAIN ring' = 1..Capacity
    BY <1>1, <1>2, <1>3, <2>1, <2>2
  <2>6. \A i \in 1..count' : ring'[Slot(start' + i - 1)] = log'[Len(log') - count' + i]
    BY <2>2, <2>4
  <2> QED
    BY <1>1, <1>2, <2>5, <2>6 DEF RingInv, Slot
<1>4. CASE count = Capacity
  <2>1. /\ ring' = [ring EXCEPT ![Slot(start)] = e] /\ count' = count
        /\ start' = (start + 1) % Capacity
    BY <1>1, <1>4 DEF Emit
  <2>2. /\ Slot(start) = start + 1
        /\ start' = IF start = Capacity - 1 THEN 0 ELSE start + 1
    <3>1. Slot(start) = start + 1
      BY <1>1, SlotsRound
    <3>2. CASE start = Capacity - 1
      <4>1. start + 1 = Capacity
        BY <1>1, <3>2
      <4> QED
        BY <2>1, <3>1, <3>2, <4>1, SlotsRound
    <3>3. CASE start # Capacity - 1
      <4>1. start + 1 \in 0..(Capacity - 1)
        BY <1>1, <3>3
      <4>2. Slot(start + 1) = (start + 1) + 1 /\ Slot(start + 1) = start' + 1
        BY <2>1, <4>1, SlotsRound DEF Slot
      <4>3. start' \in Int
        BY <1>1, <2>1
      <4>4. start' = start + 1
        BY <1>1, <4>2, <4>3
      <4> QED
        BY <3>1, <3>3, <4>4
    <3> QED
      BY <3>2, <3>3
  <2>3. ASSUME NEW i \in 1..Capacity
        PROVE  ring'[Slot(start' + i - 1)] = log'[Len(log') - count' + i]
    <3>1. CASE i = Capacity
      <4>1. Slot(start' + i - 1) = start + 1
        <5>1. CASE start = Capacity - 1
          <6>1. start' + i - 1 = Capacity - 1 /\ Capacity - 1 \in 0..(Capacity - 1)
            BY <1>1, <2>2, <3>1, <5>1
          <6>2. Slot(Capacity - 1) = (Capacity - 1) + 1
            BY <6>1, SlotsRound
          <6> QED
            BY <1>1, <5>1, <6>1, <6>2
        <5>2. CASE start # Capacity - 1
          <6>1. start' + i - 1 = start + Capacity /\ start + Capacity \in Capacity..(2 * Capacity - 1)
            BY <1>1, <2>2, <3>1, <5>2
          <6>2. Slot(start + Capacity) = (start + Capacity) - Capacity + 1
            BY <6>1, SlotsRound
          <6> QED
            BY <1>1, <6>1, <6>2
        <5> QED
          BY <5>1, <5>2
      <4>2. Len(log') - count' + i = Len(log) + 1
        BY <1>1, <1>2, <1>4, <2>1, <3>1
      <4>3. ring'[start + 1] = e
        BY <1>1, <2>1, <2>2
      <4> QED
        BY <1>2, <4>1, <4>2, <4>3
    <3>2. CASE i # Capacity
      <4>1. i + 1 \in 1..count /\ i \in 1..Capacity /\ i < Capacity
        BY <1>1, <1>4, <3>2
      <4>2. ring[Slot(start + (i + 1) - 1)] = log[Len(log) - count + (i + 1)]
        BY <4>1 DEF RingInv
      <4>3. start + (i + 1) - 1 = start + i
        BY <1>1
      <4>4. Slot(start' + i - 1) = Slot(start + i)
        <5>1. CASE start = Capacity - 1
          <6>1. start' + i - 1 = i - 1 /\ i - 1 \in 0..(Capacity - 1)
            BY <1>1, <2>2, <5>1
          <6>2. start + i \in Capacity..(2 * Capacity - 1) /\ (start + i) - Capacity = i - 1
            BY <1>1, <4>1, <5>1
          <6>3. Slot(i - 1) = (i - 1) + 1 /\ Slot(start + i) = (start + i) - Capacity + 1
            BY <6>1, <6>2, SlotsRound
          <6> QED
            BY <6>1, <6>2, <6>3
        <5>2. CASE start # Capacity - 1
          <6>1. start' + i - 1 = start + i
            BY <1>1, <2>2, <5>2
          <6> QED
            BY <6>1
        <5> QED
          BY <5>1, <5>2
      <4>5. Slot(start + i) \in 1..Capacity /\ Slot(start + i) # start + 1
        <5>1. CASE start + i < Capacity
          <6>1. start + i \in 0..(Capacity - 1)
            BY <1>1, <4>1, <5>1
          <6>2. Slot(start + i) = (start + i) + 1
            BY <6>1, SlotsRound
          <6> QED
            BY <1>1, <4>1, <6>1, <6>2
        <5>2. CASE ~(start + i < Capacity)
          <6>1. start + i \in Capacity..(2 * Capacity - 1)
            BY <1>1, <4>1, <5>2
          <6>2. Slot(start + i) = (start + i) - Capacity + 1
            BY <6>1, SlotsRound
          <6> QED
            BY <1>1, <4>1, <6>1, <6>2
        <5> QED
          BY <5>1, <5>2
      <4>6. ring'[Slot(start + i)] = ring[Slot(start + i)]
        BY <1>1, <2>1, <2>2, <4>5
      <4>7. /\ Len(log') - count' + i = Len(log) - count + (i + 1)
            /\ Len(log) - count + (i + 1) \in 1..Len(log)
        BY <1>1, <1>2, <1>4, <2>1, <4>1
      <4> QED
        BY <1>2, <4>2, <4>3, <4>4, <4>6, <4>7
    <3> QED
      BY <3>1, <3>2
  <2>4. /\ start' \in 0..(Capacity - 1) /\ count' = Capacity /\ count' <= Len(log')
        /\ DOMAIN ring' = 1..Capacity
    BY <1>1, <1>2, <1>4, <2>1, <2>2
  <2>5. \A i \in 1..count' : ring'[Slot(start' + i - 1)] = log'[Len(log') - count' + i]
    BY <2>3, <2>4
  <2>6. count' < Capacity => start' = 0 /\ count' = Len(log')
    BY <1>1, <2>4
  <2>7. count' \in 0..Capacity /\ log' \in Seq(Events)
    BY <1>1, <1>2, <2>4
  <2> QED
    BY <2>4, <2>5, <2>6, <2>7 DEF RingInv, Slot
<1> QED
  BY <1>1, <1>3, <1>4

LEMMA InitRing == LogInit => RingInv
<1> SUFFICES ASSUME LogInit PROVE RingInv
  OBVIOUS
<1>1. /\ start = 0 /\ count = 0 /\ log = <<>> /\ DOMAIN ring = 1..Capacity
      /\ Capacity \in Nat \ {0}
  BY RequestLogAssumption DEF LogInit
<1>2. log \in Seq(Events) /\ Len(log) = 0 /\ 1..count = {}
  BY <1>1
<1> QED
  BY <1>1, <1>2 DEF RingInv

LEMMA NextRing == LinesInv /\ RingInv /\ [LogNext]_logVars => RingInv'
<1> SUFFICES ASSUME LinesInv, RingInv, [LogNext]_logVars PROVE RingInv'
  OBVIOUS
<1>1. ASSUME UNCHANGED hub PROVE RingInv'
  BY <1>1 DEF RingInv, hub, Slot
<1>2. CASE LogLine
  <2>1. [post |-> NoPost, seq |-> Len(log) + 1, status |-> 0, error |-> NoWords, level |-> "info"] \in Events
    BY DEF Events, Texts, RingInv
  <2> QED
    BY <1>2, <2>1, EmitRing DEF LogLine
<1>3. ASSUME NEW q \in Posts, EmitRequest(q) PROVE RingInv'
  BY <1>3, EventFacts, EmitRing DEF EmitRequest
<1>4. ASSUME NEW q \in Posts,
             \/ Receive(q) \/ Refuse(q) \/ AskAccount(q) \/ AttemptFails(q) \/ StreamOpens(q)
             \/ AnswerEnds(q) \/ StreamFails(q) \/ CollectFails(q) \/ HangsUp(q) \/ Panics(q)
      PROVE  RingInv'
  BY <1>1, <1>4 DEF Receive, Refuse, AskAccount, AttemptFails, StreamOpens, AnswerEnds, StreamFails,
     CollectFails, HangsUp, Panics
<1>5. CASE UNCHANGED logVars
  BY <1>1, <1>5 DEF logVars, hub
<1> QED
  BY <1>2, <1>3, <1>4, <1>5 DEF LogNext

LEMMA RingShows == RingInv => LogShowsLatest
<1> SUFFICES ASSUME RingInv, NEW asked \in 0..(PageSize + 1)
    PROVE  LET limit == IF asked \in 1..PageSize THEN asked ELSE PageSize
           IN  /\ Len(Page(asked)) = Min({limit, Capacity, Len(log)})
               /\ \A i \in DOMAIN Page(asked) : Page(asked)[i] = log[Len(log) + 1 - i]
  BY DEF LogShowsLatest
<1> DEFINE limit == IF asked \in 1..PageSize THEN asked ELSE PageSize
           least == IF count <= limit THEN count ELSE limit
<1>1. /\ PageSize \in Nat \ {0} /\ Capacity \in Nat \ {0} /\ limit \in Nat \ {0}
      /\ count \in 0..Capacity /\ Len(log) \in Nat /\ count <= Len(log)
      /\ count < Capacity => count = Len(log)
  BY RequestLogAssumption DEF RingInv
<1>2. /\ DOMAIN Recent = 1..count /\ Len(Recent) = count
      /\ \A i \in 1..count : Recent[i] = log[Len(log) - count + i]
  BY <1>1 DEF Recent, RingInv
<1> DEFINE window == IF count <= limit THEN Recent ELSE SubSeq(Recent, count - limit + 1, count)
<1> HIDE DEF limit
<1>3. /\ Len(window) = least
      /\ \A i \in 1..least : window[i] = log[Len(log) - least + i]
  <2>1. CASE count <= limit
    BY <1>1, <1>2, <2>1
  <2>2. CASE ~(count <= limit)
    <3> DEFINE m == count - limit + 1
    <3>1. /\ m \in Int /\ count \in Int /\ m <= count /\ count - m + 1 = limit
          /\ \A i \in m..count : i \in 1..count /\ Recent[i] \in {Recent[j] : j \in 1..count}
      BY <1>1, <2>2
    <3>2. window = SubSeq(Recent, m, count)
      BY <2>2
    <3> HIDE DEF m, window
    <3>4. Len(window) = limit /\ \A i \in 1..limit : window[i] = Recent[m + i - 1]
      BY <3>1, <3>2, SubSeqProperties
    <3>3. ASSUME NEW i \in 1..limit PROVE window[i] = log[Len(log) - limit + i]
      <4>1. /\ m + i - 1 \in 1..count
            /\ Len(log) - count + (m + i - 1) = Len(log) - limit + i
        BY <1>1, <3>1, <2>2 DEF m
      <4> QED
        BY <1>2, <3>4, <4>1
    <3> QED
      BY <2>2, <3>4, <3>3
  <2> QED
    BY <2>1, <2>2
<1>4. Page(asked) = Reverse(window)
  BY DEF Page, limit
<1> HIDE DEF window, least
<1>5. /\ least \in Nat /\ Len(Page(asked)) = least /\ DOMAIN Page(asked) = 1..least
      /\ \A i \in 1..least : Page(asked)[i] = window[(least - i) + 1]
  <2>1. least \in Nat
    BY <1>1 DEF least
  <2>2. Page(asked) = [i \in 1..least |-> window[(least - i) + 1]]
    BY <1>3, <1>4 DEF Reverse
  <2> QED
    BY <2>1, <2>2
<1>6. \A i \in DOMAIN Page(asked) : Page(asked)[i] = log[Len(log) + 1 - i]
  <2> SUFFICES ASSUME NEW i \in 1..least PROVE Page(asked)[i] = log[Len(log) + 1 - i]
    BY <1>5
  <2>1. (least - i) + 1 \in 1..least /\ Len(log) - least + ((least - i) + 1) = Len(log) + 1 - i
    BY <1>1, <1>5
  <2> QED
    BY <1>3, <1>5, <2>1
<1>7. least = Min({limit, Capacity, Len(log)})
  <2>1. /\ least \in {limit, Capacity, Len(log)}
        /\ \A y \in {limit, Capacity, Len(log)} : least <= y
    BY <1>1 DEF least
  <2>2. \A x \in {limit, Capacity, Len(log)} :
          (\A y \in {limit, Capacity, Len(log)} : x <= y) => x = least
    BY <1>1, <1>5, <2>1
  <2>3. Min({limit, Capacity, Len(log)}) =
          CHOOSE x \in {limit, Capacity, Len(log)} : \A y \in {limit, Capacity, Len(log)} : x <= y
    BY DEF Min
  <2> QED
    BY <2>1, <2>2, <2>3
<1> QED
  BY <1>5, <1>6, <1>7 DEF limit

(* The log view tells the truth: each request is in the log once, with     *)
(* what its client was told and no warning without a cause, and the page   *)
(* shows the newest events in order, for any number of requests, any size  *)
(* of the ring and of the page.                                            *)
THEOREM LogIsTruthful == LogSpec => []LogTells
<1>1. LogInit => LinesInv /\ RingInv
  BY InitLines, InitRing
<1>2. LinesInv /\ RingInv /\ [LogNext]_logVars => (LinesInv /\ RingInv)'
  BY NextLines, NextRing
<1>3. LinesInv /\ RingInv => LogTells
  BY LinesTell, RingShows DEF LogTells
<1> QED
  BY <1>1, <1>2, <1>3, PTL DEF LogSpec
=============================================================================

# A verification of devin2proxy

devin2proxy is an OpenAI-compatible HTTP proxy in front of the Devin backend.
It spreads requests over a pool of accounts, goes out over a pool of routes,
translates a binary stream into chat-completion events, and has a dashboard
that edits all of this while requests are being served. This directory holds
TLA+ models of it, the TLC configurations that check them and the TLAPS proofs
of what holds for every size of the system.

Contents: [the system](#1-the-system), [the plan](#2-the-plan),
[the models](#3-the-models), [the runs](#4-the-runs),
[the proofs](#5-the-proofs), [disagreements](#6-where-code-and-documentation-disagree),
[what is left out](#7-what-is-left-out-and-why).

Run a check with `tlc -config X.cfg M` and the proofs with
`tlapm` on each module whose name ends in `Proofs`.

## 1. The system

Paths are relative to the repository's root (`src/` here).

### 1.1 How the parts interact

```
 client --HTTP--> server (gateway, relay, translation)
                    |  Next / Report            | GetChatMessage
                    v                           v
                  account pool  --status-->  upstream client --> egress pool --> backend
                    ^   ^                       ^                  ^
       add, remove, |   | background status     | SetEgress        |
       remember     |   | call of a rate limit  |                  |
                  dashboard ---------------------------------------+
                    |
                    v
                  store (one JSON file)
```

* The server asks the pool for an account, builds and sends the request through
  the client, and reports refusals back to the pool. It commits to an account
  when the stream has opened and its first frame is not a refusal.
* The pool starts a background status call when a rate limit looks like spent
  quota; the answer comes back seconds later and is filed by credential.
* The client takes a concurrency slot per attempt, asks the installed egress
  pool for a route, and reports failures to whatever pool is installed then.
* The dashboard edits the pool and the route list in place, and stores both.
  Pool, store and egress pool each have their own mutex; nothing holds two.

### 1.2 The components

**Rotation cursor** (`internal/devin/rotate.go`). State: `next`, and one
cooldown deadline per slot. Operations: `pick`, `advance`, `removeSlot`,
`coolOff`, `clampCooling`, `anyCooling`. Both pools embed it and call it under
their own lock. Hard: positions and deadlines after a removal. Correct when the
position is always a slot, deadlines move with their slot, and the walk passes
over nobody.

**Account pool** (`internal/devin/pool.go`). State: `entries` and, slot by slot
beside it, the cursor's deadlines, `quotaCoolUntil`, `busy` and the map
`identities`; in each credential the slot it believes it is in. Operations: `NextCredential`, `Report` and its
asynchronous half `refreshQuota`/`applyQuota`, `Add`, `Remove`,
`RemoveCredential`, `Remember`, `ClearCooldown`. Hard: a verdict comes back
after its account was removed, renumbered or recovered; the clock is read
before the lock is taken; three different cooldown rules and a pool-wide guard
compose. Correct when evidence about an account touches that account alone, a
cooldown ends early only for a reason, and the in-flight mark is always dropped.

**Refusals** (`internal/devin/pool.go`, `internal/server/server.go`). The
classes of backend errors: which are about the account, which are rate limits,
which name the quota. No state.

**Upstream client and egress** (`internal/devin/client.go`, `egress.go`).
State: the semaphore, the installed egress pool (an atomic pointer), each
pool's cursor, the retry loop of each call. Hard: every way out of an attempt
gives back its slot; routes are replaced while attempts are out; calls share a
rotation and its cooldowns. Correct when slots balance, no route is cooled for
a failure that was not its own, and a call gives up on dead routes only when
there was nothing better.

**Gateway** (`internal/server/server.go`, `getChatMessage`,
`reportQuotaRefusal`). State: the walk of each request over the accounts.
Hard: the number of tries is sampled once while others move the shared
rotation. Correct when a client sees a refusal only if no healthy account
remains, and every request is answered.

**Relay and translation** (`internal/server/server.go`,
`internal/openai/translate.go`). State: the stop filter's held-back text, the
tool calls gathered, the finish reason, the usage, and what has been written to
the client. Four handlers have a copy of the loop. Hard: stop sequences and
characters that straddle fragments, tool calls in fragments without ids,
failures after the response has begun, deadlines against clients that leave.
Correct when both endpoints and both forms of answer agree, nothing runs past a
stop, and a failure is never shown as an answer.

**Dashboard accounts and store** (`internal/dashboard/accounts.go`,
`oauth.go`, `store.go`). State: the store's data in memory and in the file; the
pool; the CLI's credential file. Operations: paste, finished sign-in, capture,
sign-out, delete, each of several steps across pool, store and backend. Hard:
failed saves, crashes between steps, two requests at once. Correct when what
was acknowledged is durable and what was removed stays gone.

**Tunnels** (`internal/devin/egress.go`). State: one dial, its socket and its
deadline. Operations: the SOCKS5 and CONNECT handshakes, the direct dial, the
test of a route. Hard: answers in pieces, the destination's first bytes right
behind them, a silent proxy and a caller out of time that look alike. Correct
when a tunnel starts where the proxy's answer ends and a route is blamed for its
own faults only.

**Frames and fields** (`internal/devin/client.go`, `connect.go`, `wire.go`,
`internal/pb/pb.go`). State: the body, a peeked frame; the cursor of a reader.
Hard: a body or a message that ends anywhere, lengths as large as a word.
Correct when every whole message is handed on once and in order, and a decoder
knows that it was cut short.

**Conversations** (`internal/openai/translate.go`, `types.go`). No state in the
proxy: the client sends the whole history every round. Hard: a backend that
knows only users and tools, refuses empty prompts and drops empty fields.
Correct when it is given the whole conversation, in order, every round.

**Dashboard routes** (`internal/dashboard/proxies.go`, the proxies of
`store.go`). State: the list in memory and in the file, the pool in use, the
masked list a page shows. Operations: show, save (restore passwords, build a
pool, install, store), test. Hard: two pages, failed saves and restarts between
the steps; passwords that are restored by comparison. Correct when the stored
list is the installed one and a password stays with its host.

**Dashboard sign-in** (`internal/dashboard/auth.go`, `dashboard.go`). State:
strikes and bans by address, the session epoch, sessions as signed cookies.
Operations: login, logout, guard. Hard: strikes and bans across expiry and
restarts. Correct when a ban lasts as long as stated and a logout ends every
session of the epoch.

**Sign-in flows** (`internal/dashboard/oauth.go`). State: pending flows by
state, at most eight, ten minutes each. Correct when each code is exchanged at
most once.

**Probe throttle and catalogue** (`internal/dashboard/test.go`, `models.go`).
State: when each account was last probed; one cached catalogue. Correct when a
probe is neither repeated too early nor locked out for good, and a failed fetch
does not replace a good catalogue.

**Account status** (`internal/devin/status.go`). No state of its own: what is
left of two quota windows and until when an account is to be left alone, read
from an answer that may lack anything. Correct when an account is held out only
for a window that is empty.

**Request log** (`internal/server/observe.go`, `internal/eventlog/eventlog.go`).
State: a trace and a recording writer per request, a ring of events. Hard:
failures after the response has begun, panics, a ring that comes round. Correct
when the page tells what the client was told.

**Process** (`cmd/devin2proxy/main.go`, `tls.go`). State: the config file, the
two halves of the certificate, the drain. Hard: an end between any two steps of
a first start, keys from the environment, signals while requests run. Correct
when what clients were given to trust is kept and a signal ends the process.

**Model catalogue** (`catalogue.go`, `codename.go`, `shape.go`), **credential
files and upstream sign-in** (`credentials.go`, `devin/oauth.go`), **debug
capture** (`debug.go`) and the **command-line tools** (`cmd/devin-*`): little or
no state of their own.

## 2. The plan

| order | modules | composes | abstract specification | state |
|---|---|---|---|---|
| 1 | `RotationCursor`, `Refusals`, `AccountPool` | cursor in the pool | `AccountRegistry`: evidence per account, no slots | done |
| 2 | `Upstream` | cursor in the egress pools, client, dashboard's `SetEgress` | | done |
| 3 | `Gateway` | the pool with the server's walk | | done |
| 4 | `StopFilter`, `Relay` | filter, accumulator and four handlers | the text before the first stop, `BeforeStop` | done |
| 5 | `AccountAdmin` | pool, store and CLI credential | | done |
| 6 | `SignIn`, `LoginFlows` | failures, bans and sessions with the store's restart; pending sign-ins | | done |
| 7 | `RouteList` | pages, pool and store | | done |
| 8 | `Tunnel`, `Frames`, `Wire` | the stages of a call | a message whole and in order | done |
| 9 | `RequestLog`, `Probes`, `Catalogue` | handlers with the ring; a test with the pool | the log of all that was emitted | done |
| 10 | `AccountStatus` | the backend's windows with the hold | | done |
| 11 | `Process` | starts, kills, signals | | done |
| 12 | `Conversation` | client, proxy and backend over rounds | who said what | done |
| 13 | `RouteList` with `Upstream`, `Conversation` with `Relay`, as one state each | | | open |

Theorems, in order: the cursor's lemmas, the pool's invariants, sessions,
sign-in flows and the process; that `AccountPool` implements `AccountRegistry`, and
`WorkingAccountsServe`; `SlotsAccounted`, `RoutesJudgedFairly` and
`GivesUpInformed` of `Upstream`; `RefusalMeansNobodyReady` of `Gateway`; `FairTurns`
of the pool; `TunnelsStartClean` and `RoutesBlamedFairly` of `Tunnel`; `LogTells` of
`RequestLog`; `FileFollowsRoutes` of `RouteList`; `TestsAreFair` of `Probes`;
`CatalogueShared` of `Catalogue`; `StoreFollowsUnlessOvertaken` of `AccountAdmin` for any number of
operators, and its other three properties for one;
`HoldsAreWorthIt` of `AccountStatus`; `PathsAgree`, `TextIsClean` and `EndsAreTold` of
`Relay`; `FramesHandedOn` of `Frames`, `HistoryReachesBackend` of `Conversation`,
`PasswordsStayHome` of `RouteList` and `HistoryKept` of `SignIn`; `FieldsSurvive` of `Wire`
(all done).

## 3. The models

Definitions keep the code's names where they can (`Report`, `RemoveSlotAt` for
`removeLocked`, `ClampCooling`, `AddCall`). A definition introduced by a
comment that begins "A slip" is not part of the specification: it is a
plausible mistake in the definition that follows it, and `PROJECT.json` uses it
to show that the properties can fail.

### RotationCursor
The record `[next, cooling]` and the operations of `rotate.go` as operators.
Slots count from 1, `NoSlot` is 0; a deadline in the past (the zero time
included) means the slot is warm. `Picked` returns the first warm slot from
`next` on, otherwise the one whose deadline comes first.

### Refusals
Three predicates over the kinds of error the backend gives, as `Report` and
the server classify them.

### AccountPool
| variable | code |
|---|---|
| `entries` | `CredentialPool.entries`; an account is a credential's identity, its token in `Token` |
| `poolIndex` | `Credentials.poolIndex`, of every credential that was ever pooled |
| `rot`, `lastRotation` | the rotation cursor, the slot handed out last |
| `busy`, `quotaCoolUntil`, `identities` | the lists, and the map, of the same names, by slot |
| `request` | what a request holds between `NextCredential` and `Report`, and between `Report` and `refreshQuota`, which takes the lock anew |
| `fetcher` | the background goroutines of `refreshQuota` |
| `now` | the wall clock, in units of the shorter cooldowns |

One action is one critical section. `ApplyQuota` and `ClearCooldown` take the
time they read before the lock from `RecentPast`, which lags by at most
`ClockLag`. The status call itself is external: it fails, answers that quota is
left, or answers that none is left with a reset deadline out of `ResetDelays`.

`AccountRegistry` is the abstract specification: for each account whether it is
a member, until when it rests, until when its quota is spent, whether a check
is under way and what is known of it, with no lists, slots or renumbering;
`AccountPoolRefinement` gives the mapping, and `ImplementsRegistry` is the
abstract specification under it.

### Upstream
`call[c]` is a goroutine in `postStream` (`Streams`) or `PostUnary`
(`Unary`). Its stages are the places where it can be suspended: at the head of
the loop, waiting out a rate limit, queueing for a slot, out on the network,
about to report. `sem` is the semaphore channel, `egress` the atomic pointer
(the n-th list installed is generation n), `rot[g]` and `last[g]` that pool's
cursor and last route. Closing a stream, dropping it, and the runtime's
clean-up of a dropped one are three actions. The fields `began`, `under` and
`broken` are read by properties only.

### Gateway
EXTENDS `AccountPool`: `chat[r]` is the loop of `getChatMessage`, and each of
its steps that touches the pool contains the pool's own action. With an empty
pool the stored credential of the CLI is used; the pool does not know it.
`began` and `undisturbed` are read by properties only.

### StopFilter and Relay
`StopFilter` is `translate.go`'s filter as two operators, `Write` and `Flush`.
Text is a sequence of bytes; `Continuations` are the bytes that continue a
character. `BeforeStop` is what it has to compute: everything before the first
occurrence of a stop.

`Relay` runs the streaming and the whole-answer handler of one endpoint over
the same frames, each at its own pace with its own client and deadline. A frame
carries text, tool-call fragments, a stop reason and usage; the reasoning text,
which no part of the loop looks at, and the role event are left out. The
events written are records, not JSON. A client puts the calls of a stream
together by index, appends arguments, and takes the first name that is not
empty, as the OpenAI client libraries do: `PutTogether` is one fold of `Put` over the
events. `Names` are the ids and names of calls, `""` among them; a frame's text is whole
characters (`WholeTexts`), since a protobuf string is valid UTF-8.

Stops may be any texts, one inside another included, as `ParseStop` accepts them.
With such a pair (say `b` and `abc`) the filter lets out a different prefix
depending on how the backend cuts its text: a shorter stop that is complete in one
fragment wins over a longer one that is not, though that one began earlier. So what
is due to a client, `TextDue`, is everything before the first stop in the text as it
stood when a frame first completed one (`StoppedBy`). If no stop begins and ends
inside another, that is simply everything before the first stop of the whole text;
this is a theorem, `FirstStopEnds`.

### Conversation
`history` is what the client holds, `asked` the request it was translated into.
A round is `Ask` (or `AskInVain`, when the proxy refuses it and the client takes
it back) and `Reply`. Content is a list of parts, so that pictures, remote
pictures and unknown parts are told apart, and a text is a sequence of words.
The client runs the tools it was told to call, in any order, and sends back the
ids it was given, the made-up ones included. A user turn with nothing in it is
left out, a tool-only answer and an empty result become placeholders.

### Tunnel
`dial` is a dialer between two reads or writes; `inbox` is what has reached the
socket, in the units the dialers read whole. The proxy answers in pieces,
wrongly, late or not at all, and the destination may talk right behind it. The
CONNECT dialer reads through a buffer, whose rest belongs to the tunnel; the
SOCKS5 dialer must not read a byte too many. `evidence` records who was at
fault, for `RoutesBlamedFairly`.

### Frames
`sent` are the envelopes the backend began, `wire` what has arrived of them,
`held` a peeked result. A header is two units and a payload as many as it has
bytes, so a body may end inside either, and where it ends right behind a header
the read reports what a clean end reports.

### Wire
A byte is a digit and the bit that more follow. How far a digit counts (`Radix`), how
many digits a word has (`MaxDigits`) and what the last has room for (`LastRoom`) are
parameters; in the code they are 128, ten and two, and a fixed has eight or four bytes.
`Field` reads the tag; `ReadVarint`, `ReadFixed`, `ReadBytes` and `SkipField` read what
follows, so a message that breaks off leaves the cursor where the code leaves it.
`message` and `cut` say what was written, one of `Authored`, and how much of it
arrived; a message nobody wrote is any bytes. `Encode(Kept(message))` is what a writer makes of it,
the fields it leaves out not among them.

### AccountStatus
`left` and `refill` are the backend's two windows; `Response` is any answer that
may be given about them, with any field missing and wrapped or not;
`ResetDeadline` is the code's choice among its resets. `basis` remembers which
answer the last hold rests on.

### Process
`at` is the step `main` is at; `config`, `certFile` and `keyFile` are numbers of
the key and the pair they hold. A step may fail and end the process, and `Dies`
ends it between any two. After a signal, `Drain` closes the listener, `Shutdown`
waits for the requests in `flight`, a second signal and `GraceOver` cut it
short.

### RouteList
`running`, `listed` and `filed` are the list of the installed pool, of the
store's memory and of its file; `shown[p]` is the masked list a page holds;
`saving[p]` a save between two steps: passwords restored from the store as it is
at that moment, the pool installed, the list stored. `StoreOthers` is a save
on behalf of another part.

### RequestLog
`trace` and `written` are the two ways a handler reports a failure; `told`, for
the properties, is how the client learned of the end. `EventOf` puts them
together when the handler has returned or panicked; `ring`, `start` and `count`
are the hub's. The page polls; a subscriber that does not read is skipped by the
hub and has no action here.

### Probes and Catalogue
`Probes`: a click names a place in the list, the throttle is asked by identity,
and the answer lifts the cooldown of the credential that gave it, wherever it
stands by then. `Catalogue`: a load looks at the cache, decides, queues for the
lock and fetches through up to a few accounts; its time began before it queued.

### AccountAdmin
`pool` lists `[token, issued]`: `issued` numbers the credentials of one process and
stands for their identity, since `Pool.RemoveCredential` (`RemoveIssued` here) goes by
identity and `Pool.Remove` (`RemovePlace`) by place. `stored` and `file` are the account list in the store and in
its file: a save that fails leaves the file alone and the memory changed, as
`SetAccounts` does. `task[o]` is a dashboard request between two of its steps.
`StartFromFile` ends the process between any two steps and starts it from the file.
`SaveTheRest` is a save of the whole store on behalf of strikes, sessions or
routes. `acked`, `gone` and `unsaved` are read by properties only. So are `held`, the
requests that have read a list and not stored it, in the order of their reading, and
`overtaken`: `Stores` sets it when the list that is stored was read before another that
has been stored already, and `Undo` when an account is withdrawn without another
save, so that any list in hand may still name it.

### SignIn and LoginFlows
`mem` and `disk` are the rest of what the store holds: by address the failures,
the end of the ban and the last failure (`NoHistory` is an absent record, which
the code never keeps at zero failures), the session epoch and the signing
secret, 0 when there is none yet. `Save` writes all of it or leaves the file
alone. `job[h]` is a login between the look at the ban, the verdict on the
password, the reading of the secret and the reading of the epoch, or a logout
between the guard and the new epoch. A cookie is its secret's number, its epoch
and its expiry; the nonce tells nothing apart here. A time that the code reads
before it takes the lock comes from `RecentPast`. `ended`, `behind`, `failed`
and `forgot` are read by properties and bounds only.

`LoginFlows` has the pending sign-ins as a function from the states that wait to
when they were started; every operation prunes it first, as the code does.
`OnlyPending` and `Take` are two critical sections of one request. A state is
random, so each is drawn once. What becomes of the token that an exchange
returns is `FinishSignIn` of `AccountAdmin`.

## 4. The runs

| run | module, configuration | states | question |
|---|---|---|---|
| `pool` | MCPool | 596 000 | does evidence stay with its account, and does every cooldown begin and end for a reason; does the file follow the pool unless a list is overtaken? |
| `registry` | MCRegistry | 71 000 | does the slot arithmetic implement the registry, does every warm account get its turn, and is the in-flight mark always dropped? |
| `incident` | MCAccountPool, MCIncident.cfg | violated | can one incident park every account for the rejection period? |
| `upstream` | MCUpstream | 1.5 million | do slots balance, are routes judged fairly, is giving up informed? |
| `outbound` | MCOutbound | 288 000 | does each stage of a call end, start clean, and lose nothing? |
| `cut_off` | Frames, MCCutOff.cfg | violated | is a body that breaks off ever taken for a clean end? |
| `spent` | MCSpent | violated | is a request that may have been processed ever sent again? |
| `gateway` | MCGateway | 80 000 | is a client refused only when no account is ready? |
| `relay` | MCRelay | 469 000 | do the handlers agree and tell failures from answers; is what clients trust kept; does the whole conversation reach the backend? |
| `lost_update` | AccountAdmin, MCLostUpdate.cfg | violated | does the file follow the pool with two requests at once? |
| `dashboard` | MCDashboard | 887 000 | is what the dashboard keeps durable, shared, shown and forgotten as it says? |
| `mask_saved` | MCRoutes, MCMaskSaved.cfg | violated | is the mask of a password ever installed as one? |

Deadlock checking is off everywhere: clocks stop at their bound, a pool may be
empty with nothing to do, and a relay ends.

Four runs check several modules that share no state with one another: `MCPool` (the
pool that serves, the pool that two dashboard requests edit), `MCOutbound` (calls, tunnels, frames, fields, status), `MCRelay` (relay, process,
conversation) and `MCDashboard` (sessions, sign-ins, accounts, routes, tests, catalogue, log). A
behaviour of both would be one of each, so a variable `part` picks the one that
moves: that adds their states up instead of multiplying them and loses nothing,
since each property speaks of one of them. Fairness is stated for the part that
moves.

The bounds are small enough for every run to end within a minute and large enough
for each of the slips of section 3 to show. The larger variants named below were
checked once and hold as well; what lies beyond them is what the proofs are for.

### pool, registry
In the serving part of `pool` there are three credentials, two of them pooled at the
start and the third a new object for the token of the first: a token can leave and
come back while a verdict about its former self is under way. One request and two
background status calls, so that calls of two accounts, or of an account and
its readmitted self, overlap. The short cooldown is 1, the rejection cooldown
2, a quota hold up to 3; the clock runs to 2, so deadlines pass while verdicts
are under way, and `ClockLag` 1 lets a verdict be judged by a clock one unit
old. In `registry` the three credentials have tokens of their own, so the pool
has up to three slots: with two, removing a slot never leaves two others to be
told apart, and a walk position that is not moved along goes unnoticed. One
status call and a clock that stands keep that run small: deadlines that pass are
the subject of `pool`. `FairTurns` (module `AccountTurns`, which EXTENDS the pool)
uses a history variable with the accounts served while another waited. Variants
without it and with one clock step (179 000 states), and with two requests and no
status call, hold as well.

* `SlotsAligned`: the per-slot lists have the length of `entries` and the
  position is a slot, after every splice.
* `IdentitiesMatch`: no account shows another one's identity.
* `HeldIsCooling`: a quota hold is never longer than the account's cooldown, so
  no account is displayed as held while it serves.
* `BusyIsFetching`: one status call per account, and a mark only for it.
* `CooldownCutShort`: a cooldown is shortened only by the pool-wide guard, by a
  status that says quota is left, or by the operator.
* `WorkingAccountsServe`: an account goes out of rotation only for its own
  refusal or its own status.
* `ImplementsRegistry`: all of the slot arithmetic, the walk position included,
  implements the registry.
* `BusyIsReleased`: an in-flight mark is dropped in the end, also when the account
  was renumbered or the fetch failed.
* `FairTurns`: nobody is served twice while a warm account waits. It fails when a
  removal does not move the position along.

The editing part of `pool` is `AccountAdmin` with two requests at once, two tokens,
saves that may fail and two credentials per process, which is enough for each order
of two readings and two savings, for a withdrawal between them, and for a restart
after any of these.

* `StoreFollowsUnlessOvertaken`: when no request is at work and the last save
  succeeded, the file lists the pool, unless the list stored last was overtaken. Each
  handler has to read its list behind its own edit and to save behind each edit
  that stays; `lost_update` shows that the exception is needed.

### upstream
Two symmetric streams and a unary call over two slots, any two of them at a
time (`TwoAtATime`); lists of two routes, then of one, so that a failure of
place 2 is reported to a list without a place 2. One attempt by default, raised
to three by the list's length: the loop asks for the limit anew while the list
is replaced. One clock step with a cooldown of 1, so that a route recovers while
a call that saw it fail goes on. Larger variants (two clock steps with a cooldown
of 2, 6 million states; the streams alone with three attempts by default, 9.4
million) hold as well.
`GivesUpInformed` is stated for a list that was not replaced, is not longer than
`MaxAttemptsWithRoutes`, and with no cooldown of this call run out: under any of
these the code may rightly see a route again that it did not try.

### outbound
* `calls`: a stream and a unary call over one slot, lists of two routes and of
  one; the clock stands, since the loop counts its attempts and not the time. An
  open or dropped stream has to give its slot back for the other to go on, which
  is what `OutboundEnds` asks; it asks the same of a dial.
* `tunnel`: each scheme; a bound address that is a name of no or two bytes, or an
  IPv4 or IPv6 address; up to three units of the destination right behind the
  answer, cut anywhere.
* `frames`: up to three envelopes of zero, one or two units, the last being
  implausibly long; a peek before any of them; a body that ends, or is lost, at
  any unit.
* `fields`: words of five bits in digits of four, so the second and last digit of
  a varint has room for one bit, as the tenth byte has in the code; fixeds of two
  and one bytes; messages of up to two out of ten fields, cut anywhere, and any
  three bytes. A word is as large as the longest length, which is what a skip has
  to survive.
* `status`: windows of two and five time units that hold one and two requests,
  a hold of one or up to three, eight moments; an answer may be applied at any
  time after it was given.

### gateway
Two requests, one account at the start, a second one that may join, leave and be
put back; four kinds of failure (rate limit, rejection, spent quota, one that is
not the account's). The clock stands here, so an account that was refused stays
out for the whole of the walk, which is the case the property is about; variants
with one clock step (415 000 states), longer cooldowns (1.5 million) and three
accounts (5.7 million) hold as well. Background status calls are off here;
they are the subject of `pool`. Without `undisturbed` the property is false, and
rightly so: an account that joins after the walk has sampled its length is not
tried.

### relay
A two-byte character `pq` and three stops: `xy`, `xpqxy` and `pqxyx`. The first lies at the
end of the second and inside the third, so a short stop is completed together with a
longer one that began before it, or while one is under way. Five frames carry pieces
of them, an opening and an id-less, continuing tool-call fragment, four kinds of stop
reason, usage and zero usage; up to three frames in any order, which lets a stop
straddle all three.
* `PathsAgree`: the client of a stream has, put together, what the other
  handler writes at once.
* `TextIsClean`: nothing runs past the first stop of the text that completed one, an
  answer is all before it, and no event is cut inside a character.
* `EndsAreTold`: no failure is shown as an answer, tool calls are announced, and
  only a client that left is met with silence.
* `AnswersEnd`: every handler returns, also when the backend stops sending.

The `process` part: three starts, each with or without TLS and a key in the
environment, an end between any two steps, failed writes, two requests, two
signals. Three are the least: one start that makes, one that is cut off or has
another key, one that must find the first one's. `TrustKept` and
`SignalsHeeded` are its properties.

The `chat` part: three rounds, of which the first asks, the second answers two
tool calls in either order, and the third follows; text with a picture in it, a
picture alone, nothing, white space, a remote picture, an unknown role, a system
prompt after the first turn; results that are empty. Texts are sequences of
`Words`, one of them white space, and an image shows one of the `Pictures`.
`HistoryReachesBackend`.

### dashboard
**accounts.** One operator, three tokens, saves that may fail, four credentials
per process. One operator is the bound that matters: with two, the later of two saves
may store the earlier list (see `lost_update`), which takes what is promised of single
accounts with it; what holds for two is checked in `pool`. Saves of the store on
behalf of others and restarts happen between any two steps.

**sessions, sign-ins.** Two addresses, so that a failure of one prunes the record
of the other, and two requests, so that a verdict falls after a ban began or
after somebody else's logout. The second failure in a row earns a ban of 2, the
third the longest of 3; three failures of an address may be counted, so that one falls
on a record that carries a ban, or did, and must not shorten it. A history is stale
after 1 and the clock runs to 3: a failure prunes the record of the other address,
or its own, whose last failure is two units old, while one with a ban in force stays.
(In the code the longest ban and the staleness are both a day.) A clock reading may
be one unit old. One session, one logout, two secrets and one failed save: a
save that fails twice loses what the first one lost. Three sign-ins, two of which
may wait, two finishers, one restart.

**routes.** One page, lists of up to two lines out of three routes, two of which
differ in their password only; blank, unusable and masked lines; writes that
fail, saves elsewhere, restarts. One page is the bound that matters, as above:
with two, lists are installed in one order and stored in the other, and
`mask_saved` shows what a second page can be shown meanwhile.

**tests.** Two clicks, two credentials, an interval of one within two moments,
an answer of one frame at most; accounts leave, return and cool down meanwhile.

**catalogue.** Two loads, three accounts of which a load tries two, a catalogue
that is fresh for one unit, a fetch that may take one, four moments: a load can
wait for the lock until its own time is up.

**log.** Two requests of up to two attempts, one line of the process itself, a
ring of two events and a page of up to three: every slot of the ring is
overwritten.

* `HistoryKept`: a record of failures grows only by its own address, and
  vanishes only by a right password or by age; bans outlive restarts. A strike
  never ends a ban earlier, except at the longest length, where an older clock
  reading shows.
* `SessionsFollowLogout`: a cookie is good exactly until it expires or somebody
  signs out, until a restart finds a file that could not be written. Both
  directions matter: a restart must not sign everybody out either.
* `ExchangedOnce`, `PendingKept`: a code is used once; a sign-in in progress is
  not pushed out. (`RefusedWhenFull`, that an expired one takes nobody's place,
  is proved and not a property of a run.)
* `AckedIsDurable`, `GoneStaysGone`, `SignOutKeeps`: what was acknowledged survives a
  restart and what was removed does not return; a sign-out of the CLI does not lose
  the only copy of a token.
* `PasswordsStayHome`, `FileFollowsRoutes`: a password goes to the host it was
  typed for; after a save that succeeded a restart rebuilds what is running.
* `TestsAreFair`: probes of an account keep their distance, and a probe changes
  nothing but the cooldown of the account that answered.
* `CatalogueShared`: loads that arrive together fetch once; a failed fetch leaves
  the good catalogue, with its failure next to it.
* `LogTells`: one line per request, with the words its client was given, and the
  page shows the newest ones in order after the ring has come round. A client that
  hangs up is never an error, and is an information on its own; nothing is asked of
  the level when an account had failed its request before, see section 6.

### Fairness
* A status call has a timeout, so each step of a fetcher is weakly fair.
* A round trip ends with an answer or the header timeout; a caller closes what
  it opened (a deferred `Close`); a stream dropped unclosed is found by the
  runtime's clean-up. Slots are taken by sending on a channel, and senders
  blocked on a channel are served in order of arrival: strong fairness of
  `Send`, and only of it.
* A client request runs under a timeout, so its walk does not stop.
* A relay's context ends with the client or the deadline, and a read under it
  returns. Nothing is assumed about the backend: it may stop sending for good.
* A dialer's next step is weakly fair, since a handshake runs under a deadline;
  the proxy and the destination are not.
* The drain of the process is weakly fair up to its grace period; requests are
  not assumed to end.
* The other specifications need none: what they promise is safety.

### What the bounds leave out
Times are small integers: what is distinguished is their order, and each
cooldown differs from the others. Retry waits have no length, since nothing
compares them. Three slots (`registry`) are the least for which removing one
renumbers two others that can be told apart. A third stream or a third route adds
no new kind of step to `Upstream`: what each interaction needs is one call that
is out and one that acts in between.

## 5. The proofs

`CommonProofs` proves, for every length and every deadline, what the
cursor's operations give: a picked slot is a slot and a warm one if there is
any, the first of them on the walk, or else one that recovers soonest; and
removing, cooling, clamping and advancing keep the position among the slots and
every other deadline as it was. The pool's proofs cite these lemmas and
never look into the cursor. It also has the lemmas on data that the others keep
needing, proved without an induction theorem, whose operator parameter no prover
here can be given. `NextByNext`: a set of numbers up to n with 0 in it and every
successor is all of them, by a least counterexample (`LeastNatural`). `FoldWalks`
unfolds a fold over a sequence into a walk `p[0], ..., p[n]`, one step an element, and
`SameSteps` says that two walks with the same steps end in the same.
`RecursionExists`: what is defined by recursion over the naturals is a function.
`FlattenJoins` and `FlattenHolds`: what sequences put one behind the other come to.

`AccountPoolProofs` proves for every set of accounts, requests and fetchers,
every cooldown length and every bound, from the named assumptions of
`AccountPool` alone:

| theorem | property |
|---|---|
| `TypeCorrect` | `TypeOK` (of the proof only; no run lists it) |
| `AlwaysAligned` | `SlotsAligned` |
| `HoldsAreKept` | `HeldIsCooling` |
| `IdentitiesStay` | `IdentitiesMatch` |
| `MarksFollowAccounts` | `BusyIsFetching` |
| `CooldownsRun` | the action property `CooldownCutShort` |
| `WorkersStay` | the action property `WorkingAccountsServe` |

The inductive invariant is `Aligned == TypeOK /\ SlotsAligned`. Neither half is
inductive alone: the type of a deadline read through a slot needs the lists to
be as long as `entries`, and a splice keeps them so only if they are sequences
of the right kind. Each action preserves it by a lemma of its own. On top of it,
`HeldIsCooling` is preserved because every action that moves one of the two
deadlines moves the other with it (a removal splices both, the guard exempts a
held slot, `Lifted` drops them together); `IdentitiesMatch` because a filed
status goes to the slot that `SlotOf` finds for its credential; and
`CooldownCutShort` and `WorkingAccountsServe` are read off each action, by lemmas
that say what it does to the cooldown of each account: none, or that of the one
account it is about.

`PoolProofs` proves `PoolImplementsRegistry`, that `AccountPool` implements
`AccountRegistry` (`Spec => ImplementsRegistry`) for any number of accounts and any
refusals, holds, additions and removals. `ReadThrough` turns each fact about a slot
into one about the account in it, `Aligned` makes that possible, and each action of
the pool has a lemma that names the action of the registry it maps to. Three of
them carry the weight. `TurnsAreTheWalk`: the account that `Picked` finds is the
one whose turn the registry says it is, since the distance along the walk is the
registry's `Turns`. `RemovalPassesTurn`: after `removeLocked` has renumbered the
slots, the walk stands on the account it stood on, or on the leaver's successor.
`ReportRefuses`: the pool-wide guard, a loop over slots, is the registry's
retraction, a set of accounts. A hold in the registry has a bound, so the proof
carries `HoldsAreShort`: an answer that is about to be applied was computed from a
clock no later than now.

The module also proves `RotationIsFair`, that `FairTurns` holds of `AccountTurns` for
any number of accounts and requests. `FairTurns` speaks only of the step that
serves somebody, so the invariant `TurnsInv` says where the accounts stand in
between: whoever was served while a ready account waited comes after it on the
walk, or has left the rotation and, an account that left being put back only as
somebody new, will not be found in it again. `ServedGoesLast`,
`LeavingKeepsOrder` and `JoiningKeepsOrder` carry it through a turn, a removal and
an addition.

It also proves `RefusalsAreHonest`, that `RefusalMeansNobodyReady` holds for
any number of accounts and requests. Nothing in the property is inductive, since it
speaks of the end of the walk only. The invariant `WalkInv` counts: while a walk is
undisturbed and shorter than the shortest cooldown, the accounts that are not
cooled beyond it are no more than the tries it has left, the one it has in hand not
included. Each try removes the account it took from that set (`RefusedIsCooled`),
and whatever other requests, status calls and removals do adds none
(`PoolWorksNoneSooner`). That the account in hand is one of the set as long as there
is any is the cursor's lemma on `Picked`. The assumptions are `PoolAssumption`
and `GatewayAssumption`.

`OutboundProofs` proves of `Upstream`, for any number of calls, slots, routes, lists and attempts:

| theorem | property |
|---|---|
| `UpstreamTyped` | `TypeOK` (of the proof only) |
| `SlotsBalance` | `SlotsAccounted` |
| `RoutesKeepTheirFaults` | the action property `RoutesJudgedFairly` |
| `NobodyGivesUpEarly` | `GivesUpInformed` |

`SlotsAccounted` is inductive once the holders are known to be a finite set, which
lets one call be added to them or taken away with the count following.
`GivesUpInformed`, again a claim about an end, rests on `InformedInv`: the routes a
call has seen fail are at least as many as the attempts it has made, or all of
them (`Enough`), as long as its list stands and no cooldown since it began has run
out. A call that is out with a route may find it declared dead by another call, so
while it is out the count leaves that route aside (`Known`).

Of `Tunnel` it proves, for every set of schemes, every length of a name
and any amount of data behind the answer:

| theorem | property |
|---|---|
| `TunnelsAreClean` | `TunnelsStartClean` |
| `BlameIsFair` | `RoutesBlamedFairly` |

`TunnelsStartClean` speaks of a tunnel that is up, when the answer is gone. The
invariant `Awaited` says of every stage before what is still to come of it: what was
read and what the proxy owes are together an answer of a certain shape and the
opening of the tunnel behind it, or else all of the answer has arrived and what
follows is the destination's (`Behind`). Reading some units of an answer leaves its
others to come, however it was cut (`TakenAhead`), so what is taken off the socket
for an address has to be exactly as long as the rest of the answer: the port left
in the stream is where the invariant fails. The opening is the last unit of an
answer (`OpeningIsLast`), which is why nothing of the destination's can be in front
of it. `RoutesBlamedFairly` needs that a dial past its first connection is not the
direct one (`Proxied`).

Of `AccountStatus` it proves `HoldsPayOff`, that `HoldsAreWorthIt` holds for windows and
holds of every length. The property speaks of a hold that rests on an answer, and an
answer may be old when it is applied and older while the hold lasts. What stays true
of it is `Truthful`: a window it told to be empty is still empty and has the refill it
told, or that refill has been. `Earned` says that the hold is the one the answer was
good for when it was applied. That any answer is `Truthful` when it is given, with any
of its fields missing and wrapped or not, is `DecodeTells`.

`RelayProofs` proves, for every set of bytes, names, stops and frames, every prompt and any
number of frames in a stream, from `FrameAssumption` and `StopAssumption`, which asks of the
stops only to be finitely many texts that are not empty:

| theorem | property |
|---|---|
| `HandlersAgree` | `PathsAgree` |
| `ClientsReadCleanText` | `TextIsClean` |
| `EndsAreHonest` | `EndsAreTold` |
| `FirstStopEnds` | what `TextDue` of `TextIsClean` is when no stop lies inside another |

The first three follow from one invariant, `RelayInv`, and none is inductive alone: they speak of
what a client has in the end, and the handlers run over the same frames at different
speeds. The invariant therefore does not compare the handlers. It says that there is one
sequence `g` of what the first k frames come to (filter, text, calls, finish reason and
usage; `Gathers`), and that each handler stands on it where it has read to (`Follows`). What a
handler has written tells its client what it stands on (`OutTells`): the events of a stream,
put together, are the text and the calls gathered so far, and of an answered one the whole
answer. `PathsAgree` is then that both ended at the same place of `g`, which `SameReading`
shows: a handler that ended earlier was stopped there, and so was the other. When the
backend sends a frame, `g` grows and nobody moves (`GathersMore`).

`TextIsClean` needs what the stop filter is: `Filtered(f, out, text)` says that after a
`text`, `out` is what precedes the first stop if there is one and the filter is closed, and
else `out` and what is held back are the text, none of it a stop, and once anything is out
at least the longest stop less a byte is held back. `WriteFilters` is the step. It rests on
`StopsBehind` (no stop begins in what was let out before) and on `CutIs` (what is let out
ends between two characters). A filter that has closed looks at no later text, and neither
may the property: `KeptWalk` is the text of the frames up to the first that completed a stop,
which `Gathers` feeds to `Filtered` and which `KeptIsDue` shows to be the text that decides
`TextDue`. `FirstStopEnds` adds `FirstStays`: a first stop that is complete stays the first
however the text goes on, provided that no stop begins and ends inside another
(`NoneInside`), for a longer stop that began earlier would hold it inside. That a fragment of a call changes the client's calls
as it changes the handler's is `PutCallFollows`: an index is new exactly when the fragment
opens a call, and a made-up id is the client's only when the backend gave none.

The folds are reasoned about as walks (`FoldWalks`): `TextSteps`, `SeenSteps` and
`CallSteps` are what that gives for the text, for the events and for the calls of a
frame.

`DeliveryProofs` proves what arrives, of one stream and of a whole conversation:

| theorem | property |
|---|---|
| `FramesAreHandedOn` | `FramesHandedOn` |
| `HistoriesArrive` | `HistoryReachesBackend` |

The first, from `FramesAssumption`, is for envelopes of every size, any mix of peeks and
receives and a body that is cut or lost at any unit. The property compares messages,
and the reader knows numbers of bytes only. The invariant `FramesInv` therefore lays the
stream out as one run of units: `Ends(g, sent)` says that `g[k]` is where the k-th
envelope ends, headers and messages one behind the other, and `Laid` that what is on
the wire and to come is the end of that run. `Standing(g, k)` is where the reader stands:
at the end of the k-th envelope or behind the header of the next. `HandedOn(k)` is then
that the caller has, or has peeked at, the messages among the first k envelopes, and
`EndsWell(k)` that an end taken for a good one leaves none behind. That `g` climbs by at
least a header from one envelope to the next is what makes a unit's place tell whose
it is (`NextPlace`, `NothingBetween`, `NothingInside`).

The second, from `ChatAssumption`, is for conversations of any number of rounds. The
property compares two flattenings, of the client's history and of the request's
prompts, and they do not go in step: a message may become no prompt, and all system
messages become one, ahead. `Placement` says where the k-th piece of such a sequence
comes to be, `Carried` that each message has a prompt there that says what it says, in
order, or says nothing, and `SameTold` that the flattenings then agree. Calls and their
results are of another kind, since a result may come in any order: `ChatInv` says that each
call that was made is due or was answered, once and behind it (`Settled`), that nothing
is due while the backend has its turn, and that an id is of a round that is over, so
that a new call is never taken for an old one. That nobody says what the proxy puts in
place of an empty text, or a client's word could be taken for a filler, is part of the
assumption.

`DashboardProofs` proves of `LoginFlows`, for every number of sign-ins and requests:

| theorem | property |
|---|---|
| `CodesAreExchangedOnce` | `ExchangedOnce` |
| `SignInsAreKept` | the action property `PendingKept` |
| `RefusedOnlyWhenFull` | the action property `RefusedWhenFull` (of the proof only) |

`ExchangedOnce` alone is not inductive: the invariant `Once` says that a state is
at one place, still to be drawn, waiting, with exactly one request, or spent, and
the proof follows it from place to place. It assumes that states do not repeat,
which `Start` takes from the randomness of a state.

Of `SignIn` it proves `LogoutEndsSessions`, that `SessionsFollowLogout` holds for
every number of addresses, requests and sessions. The invariant `SessionsInv` adds
that a file that is not behind equals the memory, that a request about to sign holds
the current secret, and that a cookie's epoch is the current one exactly if nobody
has signed out since. That needs a secret, once there is one, never to change
short of a restart from a file that is behind.

`HistoriesAreKept` is the action property `HistoryKept`, for bans of any lengths, from
`BansAssumption`. A failure that follows a ban takes the end of the ban anew from a
clock that may be older than the one the last was taken from, and must not move it
back. That holds because the next ban is twice the last one, or at its longest, and no
ban is as short as the wait for a lock (`ClockLag <= FirstBan`, without which the
property is false); and it needs to be known what the old end was. `Consistent` says so
of every record in the memory and in the file: none is in force before the failure
that earns the first, and from then on it is the last failure's time and the rung of
`BanLadder` it earned. `LadderClimbs` is that no rung is below the first.

Of `RequestLog` it proves `LogIsTruthful`, that `LogTells` holds for any number of
requests and every size of the ring and of the page, from `RequestLogAssumption`.
The property speaks of lines in the log, written when a handler has returned.
`LinesInv` says where a request stands before that: until it returns, its trace holds
words exactly if an account was tried in vain, nothing was told, and a response is
committed exactly if it streams; from then on what was written, the trace and what
the client was told fit together (`Tells`), which is what its line is made of.
`RingInv` says that the ring from `start` on is the end of the log, and that `start`
stays at the first slot until the ring is full; without the second half an event
could land on one that is still shown.

Of `RouteList` it proves `OnePageIsRebuilt`: `FileFollowsRoutes`, for any lists, as long
as one page is open. The hypothesis `Pages = {q}` is needed and is that of the run: two
pages can install in one order and store in the other. `FileInv` adds what a page
that has installed is about to store, that a file holds no empty list, and that a file
that could be written is the memory written out.

`PasswordsAreKeptHome` is the action property `PasswordsStayHome` and has no such
hypothesis: it holds for any number of pages, whose saves overlap as they like.
`HomeInv` says that every list anywhere (running, stored, filed, on a page, or half
saved) holds only routes as they were typed and routes that show no password. A page
may put such a line anywhere in its list; what `RestoreCredentials` puts in its place
is a stored route that looks the same, so one that was typed, or the line stays as
it is (`RestoredHomely`). The second half of the property is `UntouchedIsRestored`: a list
saved as it was shown finds each line at its own place. A search for the first line
that looks the same would not.

Of `Probes` it proves `ProbesAreFair`: the action property `TestsAreFair`, for any number of
clicks and accounts, any interval and any limit, from `ProbesAssumption`. `ProbesInv`
adds that no probe of an account began later than the throttle remembers, so the next
one it lets through keeps its distance from all of them, and that a test that is served
has read a frame. That a click lifts no cooldown but its own account's is a fact about
the list: the place the credential is found at holds it (`CommonProofs` has the
lemmas on places and on a list with one element less).

Of `Catalogue` it proves `CatalogueIsShared`: the action property `CatalogueShared`, for
any number of page loads and of accounts and any times. `CatalogueInv` says that the
cache is what was read last, with or without a failure next to it, and that the
one load that holds the lock was told not to look or found no fresh catalogue when it
took it, and so still finds none: nobody else writes the cache, and time makes nothing
fresh.

`SurvivalProofs` proves what outlives a failure, in a file or on the wire.
`TrustIsKept` says that `TrustKept` holds for any number of starts and
requests. The invariant has three parts. `NumbersMade`: the numbers in
the files are those of keys and pairs that were made, so the environment's key
never reaches the config file. `KeyInPlace`: at `saving` nobody has been given a
key and the file holds none; from `keyed` on the key in memory is the
environment's or the file's. `PairInPlace`: a pair is written only where neither
half was, and is served only from the step after both were found. `TrustKept`
alone is not inductive, for it says nothing of a key or a pair on its way.

Of `AccountAdmin` it proves `FileListsThePool`, that `StoreFollowsUnlessOvertaken` holds for
any number of requests at once, any accounts, failures of saves and restarts. So the
overtaking of `lost_update` is the only way in which a file that was written can differ from
the pool. The property speaks of a moment when nobody is at work; `HeldInv` says where
the pool's list is before that. Once nobody is about to read it, it is in the hand of the
last of `held`, who read behind every edit, or, when nobody holds one, in the store,
unless that was overtaken (`Newest`). A request that stores takes all who read before it
off `held` (`StillHeld`), so that `held` runs out exactly when its last stores. What each
step does to its request's record is said once, in the lemmas named `Moves`, for any
number of requests.

What is promised of single accounts it proves for one request at a time:

| theorem | property |
|---|---|
| `AddedIsServed` | `AckedIsDurable` |
| `RemovedIsGone` | `GoneStaysGone` |
| `SignOutLosesNothing` | the action property `SignOutKeeps` |

Their hypothesis is that of the run, `Operators = {o}`. It is needed: a list that was
overtaken, as in `lost_update`, lacks an account that was reported as added. The invariant
`AdminInv` has a part on what is promised and one on where the request stands. `Listed`:
what was reported as added is in the pool, in the memory and in the file, and what
was reported as removed is in none of them; the three, and not two, since a restart
makes the file the others and a save of something else makes the memory the file. No
list names an account twice, or removing it at one place would leave it at another.
`Standing`: the list about to be stored is the pool's, the memory is the pool's list
again when the request is past the save and that succeeded, and the account of the CLI
is in the pool before the CLI is signed out of it.

Of `Wire` it proves `FieldsArrive`: `FieldsSurvive`, from `WordParameters` and
`AuthoredAssumption` alone. So it holds for the code's digits of seven bits and words of
64 as for any others, for any set of messages a writer can be asked for, whatever
their length, for every cut, and over any bytes that nobody wrote. The argument
has three layers.

* Words. `Weight` and the number a run of digits stands for are recursive functions, and
  are unfolded by `RecursionExists`. `DigitsSayWord` is that the digits of a word are at
  most `MaxDigits`, say where they end, leave the last within its room and sum to the
  word; it keeps, digit by digit, that what was split off and what is left make up
  the word (`Split`). Then a run that begins with the digits of a word is read as that
  word, and takes just those (`VarintIsRead`); a run that ends among them is no word
  (`VarintIsMissed`); and of any bytes at all, what is read without an error is a word
  (`VarintIsSafe`).
* Fields. `EncodeIs` says where each field of a message ends, and that the fields lie one
  behind the other. `VarintHandled`, `BytesHandled`, `FixedHandled` and `UnknownHandled` say of
  one field what reading or skipping it gives: its value and its end when it is
  there whole, an error when it is not, and in any case a place that is no step back.
* Messages. `WireInv` adds to the property where the reader is. `ReaderOK`, over any
  bytes: it stands at the end of what it took last, or behind the tag of what is next.
  `Delivered`, over what was written: what was taken is the first fields of the message,
  up to the one the cut goes through; the reader stands at the end of one of them or
  behind its tag; and a reader that failed did so in the field that was cut, having
  taken every field before it. The property alone says nothing of where the reader
  stands, so no step could
  be shown to find the next field.

The assumption on `Authored` asks that a tag and a length are words, which the code's field
numbers and lengths are by far, and that a fixed has the bytes of its kind.

With these, every invariant and every safety property of the passing runs is stated by a
theorem. Model-checked only is liveness (`BusyIsReleased`, `OutboundEnds`,
`ChatsAreAnswered`, `AnswersEnd`, `SignalsHeeded`), which needs ENABLED and is out of the
prover's reach. No module declares a RECURSIVE operator.

## 6. Where code and documentation disagree

* `incident`: the guard against a provider-wide incident (`pool.go:567`) acts at
  the refusal that empties the pool; when the incident goes on, every account is
  rejected once more while it is already cooling, which the guard exempts, and
  all of them end up parked for the rejection period.
* `spent`: `client.go:316-320` promises no retry where the backend may have
  started; the loop retries every transport error, a header timeout included.
* `lost_update`: the account list to store is read from the pool before the
  store's lock is taken, so two dashboard requests can store their lists in the
  wrong order; a deleted account returns on restart.
* `cut_off`: a body that ends right behind an envelope's header is taken for the
  clean end that `client.go:204-206` distinguishes, because `io.ReadFull` reports
  `io.EOF` when it has read nothing (`client.go:252`).
* `mask_saved`: `proxies.go:256-257` expects the pool to reject a line with a
  mask; it parses it as a user and a password. A page that loads the list between
  another's installation and its storing gets the pool's masked one and may save
  it.

Smaller ones met while reading, without a run of their own:

* `types.go:114-117` calls a silently discarded image the thing to avoid, and
  `translate.go:420-421` says that nothing the client sent is dropped; images in
  assistant, tool and system messages are (`translate.go:331-402`).
* `observe.go:266-268` says that a disconnect "lands on info on its own". One that comes
  while an account is being asked has traced the failure (`server.go:139`), and one
  that comes later may follow a refusal by an earlier account, which is traced as well:
  both are warnings. `LogTells` therefore asks for an information only if no account
  has failed the request. A request that was served after a first account refused it is
  a warning, too.
* `translate.go:178` says that text is cut at the first stop sequence. With stops
  inside one another, which `ParseStop` accepts (`translate.go:154-176`), where an answer
  ends depends on how the backend cuts its text into frames: of the stops `b` and `abc`
  and the text `abc`, the client is given nothing when it comes in one piece and `a`
  when it comes as `ab` and `c`.
* Two saves of the route list may install in one order and store in the other
  (`proxies.go:86` and `93`), as in `lost_update`.
* `store.go:252-256` distinguishes an empty list of routes from none; `omitempty`
  writes both alike.
* A load that waited for the catalogue's lock past its own deadline marks a fresh
  catalogue as failed.
* A save of an added account that fails is rolled back by the slot it was added
  to, which a deletion may have renumbered (`accounts.go:192`); a save of the
  list that failed is written out by the next save of anything else. The CLI's
  sign-out runs although keeping its credential could not be saved
  (`accounts.go:428`, `370-374`).
* `rotate.go:122-123` says of the pool-wide clamp more than it does for a slot
  that is held; `auth.go:186-189` and the forgetting of stale bans differ in which
  clock they read.
* SOCKS5 names and passwords over 255 bytes wrap in their length byte
  (`egress.go:630-633`).
* An account that is added again has a new credential, which the throttle of
  tests does not know.
* A crash between the saving of a generated dashboard password and its printing
  leaves one nobody was shown; a crash between the two renames of the certificate
  leaves half a pair and a process that does not start until it is removed, and
  the temporary file is not synced as the config file is (`tls.go:149-151`).
* Two first starts at once would each make a key; one process at a time is
  assumed.
* A nested message that is cut inside a whole one is not reported as truncated
  (sub-decoders do not look at the reader's error).
* A signing secret that could not be saved signs sessions until the restart
  (`store.go:196`).

## 7. What is left out and why

* Data formatting: JSON, the tables of protobuf field numbers, names of models,
  log lines, HTML; sampling parameters, tool definitions, the wrapping of a legacy
  prompt, image sizes.
* Input and output without a decision: listening and TLS sessions, the CLI's
  credential file, the two HTTP exchanges of an upstream sign-in, debug captures,
  the one-shot tools.
* Settings: the precedence of each but the API key, and the dashboard's
  generated password, are read once at the start.
* The bulk refresh of statuses in the dashboard changes what is shown only; the
  effect of a status on an account is `ApplyQuota`.
* Interactions across parts that share no lock and no variable beyond what each
  module has: that a swap of routes reaches calls under way is in `Upstream`, that
  it is stored in `RouteList`; the two are not run as one state.
* What two dashboard requests at once do to a single account: a slot kept across a
  save (`accounts.go:192`, `oauth.go:217`) is modelled in `AccountAdmin` and reached in
  the run `pool`, whose property is about the list as a whole.

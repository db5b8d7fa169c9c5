----------------------------- MODULE Catalogue ------------------------------
(***************************************************************************)
(* The model catalogue of the dashboard: internal/dashboard/models.go.     *)
(*                                                                         *)
(* One cached catalogue serves every page.  A page load reads the cache    *)
(* under its lock, decides without it, and takes it again for as long as a *)
(* fetch takes: up to a few accounts in turn, all within a time that began *)
(* before the load waited for the lock.  The backend's list changes over   *)
(* time; an edition number stands for the list.                            *)
(***************************************************************************)
EXTENDS Integers, SequencesExt

CONSTANTS
  Loads,              \* the page loads the dashboard can be serving at once
  NoLoad,
  Lenders,            \* the accounts a catalogue can be read with
  CatalogueTTL,       \* how long a catalogue is reused
  FetchTimeout,       \* how long a load may fetch
  CatalogueAttempts,  \* how many accounts one load tries
  Horizon             \* bound: the last moment

ASSUME CatalogueAssumption ==
  /\ NoLoad \notin Loads
  /\ CatalogueTTL \in Nat /\ FetchTimeout \in Nat \ {0}
  /\ CatalogueAttempts \in Nat \ {0} /\ Horizon \in Nat

VARIABLES
  hour,      \* the time
  edition,   \* the list the backend has now
  cache,     \* [models, fetched, account, fail]
  holder,    \* the load that holds the lock to fetch, or NoLoad
  load,      \* by load: what its handler is doing
  lastRead   \* the last answer of the backend, for the properties

catalogueVars == <<hour, edition, cache, holder, load, lastRead>>

NeverRead == -1
NoLender  == "nobody"

NothingRead == [models |-> 0, fetched |-> NeverRead, account |-> NoLender]
Catalogue(read, fail) ==
  [models |-> read.models, fetched |-> read.fetched, account |-> read.account, fail |-> fail]
EmptyCache == Catalogue(NothingRead, FALSE)
NotLoading == [at |-> "none"]

Fresh == cache.fetched # NeverRead /\ hour - cache.fetched <= CatalogueTTL

AnswerPage(l) == load' = [load EXCEPT ![l] = NotLoading]

-----------------------------------------------------------------------------
(* handleModels: snapshot waits for the lock like everyone, and a load     *)
(* that has to fetch starts its clock before it queues for the lock.       *)
Load(l) ==
  /\ load[l] = NotLoading
  /\ holder = NoLoad
  /\ \E refresh \in BOOLEAN :
       IF refresh \/ ~Fresh
         THEN load' = [load EXCEPT ![l] = [at |-> "waiting", force |-> refresh,
                                           deadline |-> hour + FetchTimeout]]
         ELSE AnswerPage(l)
  /\ UNCHANGED <<hour, edition, cache, holder, lastRead>>

(* The accounts in pool order, or the CLI's own when the pool is empty.    *)
CatalogueCredentials == {order \in SeqOf(Lenders, Cardinality(Lenders)) : IsInjective(order)}

(* A slip: what was decided before the lock is not looked at again.        *)
TakeLockAnyhow(l) ==
  /\ load[l].at = "waiting"
  /\ holder = NoLoad
  /\ holder' = l
  /\ \E order \in CatalogueCredentials :
       load' = [load EXCEPT ![l] = [at |-> "fetching", force |-> @.force, deadline |-> @.deadline,
                                    left |-> order, tries |-> 0]]
  /\ UNCHANGED <<hour, edition, cache, lastRead>>

(* fetchCatalogue looks again, unless the page asked for a refresh.        *)
TakeLock(l) ==
  /\ load[l].at = "waiting"
  /\ holder = NoLoad
  /\ IF Fresh /\ ~load[l].force
       THEN AnswerPage(l) /\ holder' = holder
       ELSE /\ holder' = l
            /\ \E order \in CatalogueCredentials :
                 load' = [load EXCEPT ![l] = [at |-> "fetching", force |-> @.force,
                                              deadline |-> @.deadline, left |-> order, tries |-> 0]]
  /\ UNCHANGED <<hour, edition, cache, lastRead>>

More(l) == load[l].left # <<>> /\ load[l].tries < CatalogueAttempts

AccountAnswers(l) ==
  /\ load[l].at = "fetching" /\ More(l)
  /\ hour <= load[l].deadline
  /\ lastRead' = [models |-> edition, fetched |-> hour, account |-> Head(load[l].left)]
  /\ cache' = Catalogue(lastRead', FALSE)
  /\ holder' = NoLoad
  /\ AnswerPage(l)
  /\ UNCHANGED <<hour, edition>>

AccountFails(l) ==
  /\ load[l].at = "fetching" /\ More(l)
  /\ load' = [load EXCEPT ![l].left = Tail(@), ![l].tries = @ + 1]
  /\ UNCHANGED <<hour, edition, cache, holder, lastRead>>

(* A slip: a failed fetch leaves nothing behind but the failure.           *)
FetchFailsClean(l) ==
  /\ load[l].at = "fetching" /\ ~More(l)
  /\ cache' = [EmptyCache EXCEPT !.fail = TRUE]
  /\ holder' = NoLoad
  /\ AnswerPage(l)
  /\ UNCHANGED <<hour, edition, lastRead>>

(* Nobody has answered, or there is nobody: the last good catalogue stays  *)
(* and the failure is shown next to it.                                    *)
FetchFails(l) ==
  /\ load[l].at = "fetching" /\ ~More(l)
  /\ cache' = [cache EXCEPT !.fail = TRUE]
  /\ holder' = NoLoad
  /\ AnswerPage(l)
  /\ UNCHANGED <<hour, edition, lastRead>>

-----------------------------------------------------------------------------
(* Every call of a fetch ends by the deadline of its load.                 *)
HourPasses ==
  /\ hour < Horizon
  /\ holder # NoLoad => hour <= load[holder].deadline
  /\ hour' = hour + 1
  /\ UNCHANGED <<edition, cache, holder, load, lastRead>>

(* Devin ships models. *)
ModelsChange ==
  /\ edition = 1
  /\ edition' = 2
  /\ UNCHANGED <<hour, cache, holder, load, lastRead>>

CatalogueInit ==
  /\ hour = 0 /\ edition = 1 /\ cache = EmptyCache /\ holder = NoLoad
  /\ load = [l \in Loads |-> NotLoading]
  /\ lastRead = NothingRead

CatalogueNext ==
  \/ \E l \in Loads : Load(l) \/ TakeLock(l) \/ AccountAnswers(l) \/ AccountFails(l) \/ FetchFails(l)
  \/ HourPasses \/ ModelsChange

CatalogueSpec == CatalogueInit /\ [][CatalogueNext]_catalogueVars

-----------------------------------------------------------------------------
(* Properties. *)

FetchedForAReason ==
  lastRead' # lastRead =>
    load[holder].force \/ lastRead.fetched = NeverRead \/ hour - lastRead.fetched > CatalogueTTL

Shows(l) ==
  load[l] # NotLoading /\ load'[l] = NotLoading
  => /\ cache' \in {Catalogue(lastRead', fail) : fail \in BOOLEAN}
     /\ cache'.fail \/ (cache'.fetched # NeverRead /\ hour - cache'.fetched <= CatalogueTTL)

(* "Two page loads that arrive together are serialised by the lock and the *)
(* second finds the first's catalogue" (fetchCatalogue): a catalogue is    *)
(* read again when its time is up, or for a page that asked for that.  And *)
(* what a page shows is the last catalogue that was read, whole, with its  *)
(* account and its time, however many fetches have failed since; one that  *)
(* is out of date, or none, only with the failure next to it.              *)
CatalogueShared == [][FetchedForAReason /\ \A l \in Loads : Shows(l)]_catalogueVars
=============================================================================

----------------------------- MODULE RouteList ------------------------------
(***************************************************************************)
(* The route list as the dashboard edits it: internal/dashboard:           *)
(* proxies.go with the proxies of store.go, and the lists a route pool is  *)
(* built from (internal/devin/egress.go).                                  *)
(*                                                                         *)
(* A page is never given a route's credentials: it shows the mask in their *)
(* place, and a save puts the credentials back from the list the store     *)
(* has at that moment.  A save then installs a new pool and stores its     *)
(* list, each under a lock of its own; saves of several pages interleave.  *)
(*                                                                         *)
(* A line is [host, cred]; cred is NoCred for a route without credentials  *)
(* and Mask for one that shows the mask.  Lists in the store are wrapped:  *)
(* <<list>> when there is a proxies key, <<>> when there is none.          *)
(***************************************************************************)
EXTENDS Integers, SequencesExt

CONSTANTS
  Pages,       \* the browser pages that are open
  TypedLines,  \* the routes an operator types in full
  NoCred, Mask,
  Ignored,     \* stands for a blank line or a comment
  Unusable,    \* stands for a line no route can be built from
  MaxSpecs,    \* how many lines the dashboard accepts
  WritesFail   \* whether writing the file can fail

ASSUME RouteListAssumption ==
  /\ \A l \in TypedLines : l = [host |-> l.host, cred |-> l.cred] /\ l.cred # Mask
  /\ MaxSpecs \in Nat
  /\ WritesFail \in BOOLEAN

VARIABLES
  running,   \* the list the installed pool was built from
  listed,    \* the store's memory
  filed,     \* the store's file
  shown,     \* by page: the masked list it shows
  saving,    \* by page: the save in progress
  unstored   \* the last attempt to write the route list failed

routeVars == <<running, listed, filed, shown, saving, unstored>>

NoSave == [at |-> "none"]

-----------------------------------------------------------------------------
(* Lines and lists. *)

BlankLine == [host |-> Ignored, cred |-> NoCred]
BadLine   == [host |-> Unusable, cred |-> NoCred]

IsMasked(line) == line.cred = Mask
MaskSpec(line) == IF line.cred = NoCred THEN line ELSE [line EXCEPT !.cred = Mask]
MaskSpecs(list)  == [i \in DOMAIN list |-> MaskSpec(list[i])]
Kept(line)       == IF line = BlankLine THEN <<>> ELSE <<line>>
CleanSpecs(list) == FlattenSeq([i \in DOMAIN list |-> Kept(list[i])])

(* What the page is shown and a masked line is compared with: the stored   *)
(* list if there is one, and otherwise the pool's own, which has no        *)
(* credentials in it.                                                      *)
ProxySpecs == IF listed # <<>> THEN listed[1] ELSE MaskSpecs(running)

(* A slip: the first stored route that looks the same.                     *)
SourcesFirst(line, i, stored) ==
  LET matching == {j \in DOMAIN stored : MaskSpec(stored[j]) = line /\ ~IsMasked(stored[j])}
  IN  {j \in matching : \A k \in matching : j <= k}

(* Where the credentials of a masked line come from: the stored route at   *)
(* its own place if that looks the same, or else the first that does.      *)
Sources(line, i, stored) ==
  LET matching == {j \in DOMAIN stored : MaskSpec(stored[j]) = line /\ ~IsMasked(stored[j])}
  IN  IF i \in matching THEN {i} ELSE {j \in matching : \A k \in matching : j <= k}

RestoreCredentials(list, stored) ==
  [i \in DOMAIN list |->
     IF ~IsMasked(list[i]) \/ Sources(list[i], i, stored) = {} THEN list[i]
     ELSE stored[CHOOSE j \in Sources(list[i], i, stored) : TRUE]]

(* A pool is built of every line or not at all; the mask is a user and a   *)
(* password like any other to the parser.                                  *)
Builds(list) == ~Contains(list, BadLine)

-----------------------------------------------------------------------------
(* The handlers. *)

(* handleProxies: the page loads the list. *)
Show(p) ==
  /\ saving[p] = NoSave
  /\ shown' = [shown EXCEPT ![p] = MaskSpecs(ProxySpecs)]
  /\ UNCHANGED <<running, listed, filed, saving, unstored>>

(* handleProxiesSave up to the new pool: lines of the page in any order,   *)
(* with new ones among them.  A list that is too long or that no pool can  *)
(* be built from is refused and changes nothing.                           *)
Edits(p) ==
  SeqOf(TypedLines \cup {BlankLine, BadLine} \cup ToSet(shown[p]), MaxSpecs + 1)

Submit(p) ==
  /\ saving[p] = NoSave
  /\ \E list \in Edits(p) :
       LET restored == RestoreCredentials(list, ProxySpecs)
       IN  /\ Len(restored) <= MaxSpecs
           /\ Builds(restored)
           /\ saving' = [saving EXCEPT ![p] = [at |-> "installing", asked |-> list, list |-> restored]]
  /\ UNCHANGED <<running, listed, filed, shown, unstored>>

Install(p) ==
  /\ saving[p].at = "installing"
  /\ running' = CleanSpecs(saving[p].list)
  /\ saving' = [saving EXCEPT ![p] = [at |-> "storing", list |-> saving[p].list]]
  /\ UNCHANGED <<listed, filed, shown, unstored>>

(* An empty list is a key in memory and none in the file (omitempty).      *)
Written(key) == IF key = <<<<>>>> THEN <<>> ELSE key

(* A slip: what is stored is the list the pool shows.                      *)
StoreShown(p) ==
  /\ saving[p].at = "storing"
  /\ listed' = <<MaskSpecs(running)>>
  /\ filed' = Written(listed')
  /\ unstored' = FALSE
  /\ shown' = [shown EXCEPT ![p] = MaskSpecs(running)]
  /\ saving' = [saving EXCEPT ![p] = NoSave]
  /\ UNCHANGED running

StoreList(p) ==
  /\ saving[p].at = "storing"
  /\ listed' = <<CleanSpecs(saving[p].list)>>
  /\ filed' = Written(listed')
  /\ unstored' = FALSE
  /\ shown' = [shown EXCEPT ![p] = MaskSpecs(listed'[1])]
  /\ saving' = [saving EXCEPT ![p] = NoSave]
  /\ UNCHANGED running

(* The routes are in use and in memory; the page is told so.               *)
StoreListFails(p) ==
  /\ WritesFail
  /\ saving[p].at = "storing"
  /\ listed' = <<CleanSpecs(saving[p].list)>>
  /\ unstored' = TRUE
  /\ saving' = [saving EXCEPT ![p] = NoSave]
  /\ UNCHANGED <<running, filed, shown>>

(* Whoever saves something else writes the whole memory out.               *)
StoreOthers ==
  /\ filed' = Written(listed)
  /\ filed' # filed
  /\ UNCHANGED <<running, listed, shown, saving, unstored>>

(* The process starts again from the file; the pages stay open.            *)
Relaunch ==
  /\ listed' = filed
  /\ running' = IF filed = <<>> THEN <<>> ELSE filed[1]
  /\ saving' = [p \in Pages |-> NoSave]
  /\ unstored' = FALSE
  /\ UNCHANGED <<filed, shown>>

RoutesInit ==
  /\ running = <<>> /\ listed = <<>> /\ filed = <<>>
  /\ shown = [p \in Pages |-> <<>>]
  /\ saving = [p \in Pages |-> NoSave]
  /\ unstored = FALSE

RoutesNext ==
  \/ \E p \in Pages : Show(p) \/ Submit(p) \/ Install(p) \/ StoreList(p) \/ StoreListFails(p)
  \/ StoreOthers \/ Relaunch

RoutesSpec == RoutesInit /\ [][RoutesNext]_routeVars

-----------------------------------------------------------------------------
(* Properties. *)

Lists == {running} \cup ToSet(listed) \cup ToSet(filed)

(* A password goes to the host it was typed for and to no other, through   *)
(* any sequence of edits, saves that fail, and restarts; and "saving the   *)
(* list without touching it" (restoreCredentials) keeps every password     *)
(* when routes differ in nothing else: the stored list as a page shows it  *)
(* comes back as the stored list.                                          *)
AtHome == \A list \in Lists : \A i \in DOMAIN list : IsMasked(list[i]) \/ list[i] \in TypedLines

Untouched(p) ==
  /\ saving[p] = NoSave /\ saving'[p] # NoSave
  /\ listed # <<>> /\ saving'[p].asked = MaskSpecs(listed[1])
  /\ \A i \in DOMAIN listed[1] : ~IsMasked(listed[1][i])

PasswordsStayHome ==
  [][AtHome' /\ \A p \in Pages : Untouched(p) => saving'[p].list = listed[1]]_routeVars

(* When no save is in progress and the last one succeeded, "a restart      *)
(* rebuilds exactly what is running" (handleProxiesSave).                  *)
FileFollowsRoutes ==
  (\A p \in Pages : saving[p] = NoSave) /\ ~unstored =>
    running = IF filed = <<>> THEN <<>> ELSE filed[1]

(* "A masked line that matches nothing stored is left as it is: the pool   *)
(* will then reject it" (restoreCredentials): the mask is never installed  *)
(* as if it were a password.                                               *)
MaskIsNoPassword == \A i \in DOMAIN running : ~IsMasked(running[i])
=============================================================================

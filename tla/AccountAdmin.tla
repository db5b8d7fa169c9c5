---------------------------- MODULE AccountAdmin ----------------------------
(***************************************************************************)
(* The dashboard handlers that edit the account pool while it serves, and  *)
(* the store that keeps the list across restarts (internal/dashboard:      *)
(* accounts.go, oauth.go, store.go).                                       *)
(*                                                                         *)
(* Each handler edits the pool, reads the pool's tokens and hands that     *)
(* list to the store, which changes its memory and then its file; the      *)
(* three are separate critical sections.  Handlers run concurrently when   *)
(* Operators has more than one member.  The store also holds sessions and  *)
(* bans, and whoever saves those writes the whole memory out.              *)
(*                                                                         *)
(* A pooled account is the token and the credential made for it: the pool  *)
(* recognises a credential by identity, never by its token.                *)
(***************************************************************************)
EXTENDS Integers, SequencesExt

CONSTANTS
  Operators,   \* the requests the dashboard can be serving
  TokenSet,    \* the session tokens there are
  NoToken,
  SavesFail,   \* whether writing the file can fail
  MaxMade      \* bound: credentials made between two restarts

ASSUME AdminAssumption ==
  NoToken \notin TokenSet /\ SavesFail \in BOOLEAN /\ MaxMade \in Nat

VARIABLES
  pool,     \* the pooled accounts in order, records [token, issued]
  issued,   \* how many credentials were made since the start
  stored,   \* the account list in the store's memory
  file,     \* the account list in its file
  cli,      \* the token the Devin CLI is signed in with, or NoToken
  task,     \* by operator: what its handler is doing
  acked,    \* accounts reported as added, and since not removed
  gone,     \* accounts reported as removed, and since not added
  unsaved,  \* the last attempt to save the account list failed
  held,     \* who holds a list that nothing has overtaken, in order of reading
  overtaken \* the list stored last is older than one stored before it, or
            \* than the withdrawal of an account

readings  == <<held, overtaken>>
adminVars == <<pool, issued, stored, file, cli, task, acked, gone, unsaved, readings>>

NoTask == [at |-> "idle"]

Unoccupied(o) == task[o] = NoTask

Do(o, at) == task' = [task EXCEPT ![o].at = at]
Idles(o)  == task' = [task EXCEPT ![o] = NoTask]

Tokens(p)       == [i \in DOMAIN p |-> p[i].token]
Pooled(p)       == ToSet(Tokens(p))
CredentialAt(i) == IF i \in DOMAIN pool THEN pool[i].issued ELSE 0

(* Pool.Remove goes by place, Pool.RemoveCredential by identity.           *)
RemovePlace(i)      == IF i \in DOMAIN pool THEN RemoveAt(pool, i) ELSE pool
RemoveIssued(c)    == RemovePlace(SelectInSeq(pool, LAMBDA e : e.issued = c))

-----------------------------------------------------------------------------
(* Adding an account.  A token the pool holds already is refused, and that *)
(* changes nothing.                                                        *)

Join(o, op, t) ==
  /\ issued < MaxMade
  /\ t \notin Pooled(pool)
  /\ issued' = issued + 1
  /\ pool' = Append(pool, [token |-> t, issued |-> issued'])
  /\ gone' = gone \ {t}
  /\ task' = [task EXCEPT ![o] = [at |-> "listing", op |-> op, token |-> t, slot |-> Len(pool'),
                                added |-> 0, asked |-> 0, list |-> <<>>, tries |-> 1]]
  /\ UNCHANGED <<stored, file, cli, acked, unsaved, readings>>

(* A pasted token.  *)
Paste(o) == Unoccupied(o) /\ \E t \in TokenSet : Join(o, "paste", t)

(* The token of a sign-in whose code was exchanged and which the backend   *)
(* has answered for.                                                       *)
FinishSignIn(o) == Unoccupied(o) /\ \E t \in TokenSet : Join(o, "sign_in", t)

(* The account the CLI holds. *)
Capture(o) == Unoccupied(o) /\ cli # NoToken /\ Join(o, "capture", cli)

(* A slip: the CLI is signed out of an account the pool does not have.     *)
LogoutCLIAtOnce(o) ==
  /\ Unoccupied(o)
  /\ cli # NoToken
  /\ task' = [task EXCEPT ![o] = [at |-> "signing_out"]]
  /\ UNCHANGED <<pool, issued, stored, file, cli, acked, gone, unsaved, readings>>

(* Signing the CLI out deletes the only copy of its token, so the account  *)
(* is put into the pool first.                                             *)
LogoutCLI(o) ==
  /\ Unoccupied(o)
  /\ cli # NoToken
  /\ \/ Join(o, "keep", cli)
     \/ /\ cli \in Pooled(pool)
        /\ task' = [task EXCEPT ![o] = [at |-> "signing_out"]]
        /\ UNCHANGED <<pool, issued, stored, file, cli, acked, gone, unsaved, readings>>

(* A handler that has added its account is done: "keep" goes on to sign    *)
(* the CLI out, the others answer.                                         *)
Added(o) ==
  /\ acked' = acked \cup ({task[o].token} \cap Pooled(pool'))
  /\ IF task[o].op = "keep" THEN Do(o, "signing_out") ELSE Idles(o)

-----------------------------------------------------------------------------
(* Deleting an account. *)

(* A slip: the list that is saved was read before the account was removed. *)
DeleteListedBefore(o) ==
  /\ Unoccupied(o)
  /\ \E i \in DOMAIN pool :
       /\ pool' = RemoveAt(pool, i)
       /\ acked' = acked \ {pool[i].token}
       /\ task' = [task EXCEPT ![o] = [at |-> "storing", op |-> "delete", token |-> pool[i].token,
                                     list |-> Tokens(pool), tries |-> 2]]
  /\ UNCHANGED <<issued, stored, file, cli, gone, unsaved, readings>>

Delete(o) ==
  /\ Unoccupied(o)
  /\ \E i \in DOMAIN pool :
       /\ pool' = RemoveAt(pool, i)
       /\ acked' = acked \ {pool[i].token}
       /\ task' = [task EXCEPT ![o] = [at |-> "listing", op |-> "delete", token |-> pool[i].token,
                                     list |-> <<>>, tries |-> 2]]
  /\ UNCHANGED <<issued, stored, file, cli, gone, unsaved, readings>>

-----------------------------------------------------------------------------
(* Saving the list: Store.SetAccounts(Pool.Tokens()).  Whoever stores a    *)
(* list that he holds overtakes those who read theirs before; whoever has  *)
(* been overtaken stores an old one.                                       *)

Stores(o) ==
  /\ stored' = task[o].list
  /\ overtaken' = (o \notin ToSet(held))
  /\ held' = SubSeq(held, SelectInSeq(held, LAMBDA p : p = o) + 1, Len(held))

ReadTokens(o) ==
  /\ task[o].at = "listing"
  /\ task' = [task EXCEPT ![o].at = "storing", ![o].list = Tokens(pool)]
  /\ held' = Append(held, o)
  /\ UNCHANGED <<pool, issued, stored, file, cli, acked, gone, unsaved, overtaken>>

Saved(o) ==
  /\ task[o].at = "storing"
  /\ Stores(o)
  /\ file' = stored'
  /\ unsaved' = FALSE
  /\ CASE task[o].op = "paste"                 -> Do(o, "resolving") /\ gone' = gone
       [] task[o].op \in {"capture", "keep"}   -> Do(o, "asking") /\ gone' = gone
       [] task[o].op = "sign_in"               -> Do(o, "filing") /\ gone' = gone
       [] task[o].op \in {"delete", "reject"}  ->
            Idles(o) /\ gone' = gone \cup ({task[o].token} \ Pooled(pool))
  /\ UNCHANGED <<pool, issued, cli, acked>>

(* The file is left alone, the memory is not.  An addition is taken back,  *)
(* the removal of a rejected account is tried once more.                   *)
SaveFails(o) ==
  /\ SavesFail
  /\ task[o].at = "storing"
  /\ Stores(o)
  /\ unsaved' = TRUE
  /\ CASE task[o].op \notin {"delete", "reject"} -> Do(o, "undoing")
       [] task[o].op \in {"delete", "reject"} /\ task[o].tries = 1 ->
            task' = [task EXCEPT ![o].at = "listing", ![o].tries = 2]
       [] OTHER -> Idles(o)
  /\ UNCHANGED <<pool, issued, file, cli, acked, gone>>

(* A slip: an account that could not be saved is reported as added.        *)
UndoNothing(o) ==
  /\ task[o].at = "undoing"
  /\ pool' = pool
  /\ Added(o)
  /\ UNCHANGED <<issued, stored, file, cli, gone, unsaved, readings>>

Undo(o) ==
  /\ task[o].at = "undoing"
  /\ pool' = RemovePlace(task[o].slot)
  /\ acked' = acked \cap Pooled(pool')
  /\ IF task[o].op = "keep" THEN Do(o, "signing_out") ELSE Idles(o)
  /\ held' = <<>> /\ overtaken' = TRUE
  /\ UNCHANGED <<issued, stored, file, cli, gone, unsaved>>

-----------------------------------------------------------------------------
(* Asking the backend about the account in the slot it was added to. *)

Resolve(o) ==
  /\ task[o].at = "resolving"
  /\ task' = [task EXCEPT ![o].at = "asking", ![o].added = CredentialAt(task[o].slot)]
  /\ UNCHANGED <<pool, issued, stored, file, cli, acked, gone, unsaved, readings>>

AskStatus(o) ==
  /\ task[o].at = "asking"
  /\ pool' = pool
  /\ LET c == CredentialAt(task[o].slot)
     IN  IF c = 0 THEN Added(o)
         ELSE /\ task' = [task EXCEPT ![o].at = "answering", ![o].asked = c]
              /\ acked' = acked
  /\ UNCHANGED <<issued, stored, file, cli, gone, unsaved, readings>>

(* An answer, or none: the account stays either way.                       *)
BackendAnswers(o) ==
  /\ task[o].at = "answering"
  /\ pool' = pool
  /\ Added(o)
  /\ UNCHANGED <<issued, stored, file, cli, gone, unsaved, readings>>

(* A slip: a rejected account leaves the pool and stays in the file.       *)
RejectedUnsaved(o) ==
  /\ task[o].at = "answering"
  /\ task[o].op = "paste"
  /\ pool' = RemoveIssued(task[o].added)
  /\ acked' = acked \cap Pooled(pool')
  /\ Idles(o)
  /\ UNCHANGED <<issued, stored, file, cli, gone, unsaved, readings>>

(* The backend rejects the credential: a pasted one is taken back and the  *)
(* list is saved again.                                                    *)
Rejected(o) ==
  /\ task[o].at = "answering"
  /\ task[o].op = "paste"
  /\ pool' = RemoveIssued(task[o].added)
  /\ acked' = acked \cap Pooled(pool')
  /\ task' = [task EXCEPT ![o].at = "listing", ![o].op = "reject", ![o].tries = 1]
  /\ UNCHANGED <<issued, stored, file, cli, gone, unsaved, readings>>

(* A sign-in was asked about before: its status is filed for the slot.     *)
File(o) ==
  /\ task[o].at = "filing"
  /\ pool' = pool
  /\ Added(o)
  /\ UNCHANGED <<issued, stored, file, cli, gone, unsaved, readings>>

-----------------------------------------------------------------------------
(* The CLI, which refuses a sign-in while it holds an account.             *)

SignOut(o) ==
  /\ task[o].at = "signing_out"
  /\ cli' \in {cli, NoToken}
  /\ Idles(o)
  /\ UNCHANGED <<pool, issued, stored, file, acked, gone, unsaved, readings>>

CLISignsIn ==
  /\ cli = NoToken
  /\ cli' \in TokenSet
  /\ UNCHANGED <<pool, issued, stored, file, task, acked, gone, unsaved, readings>>

(* A failed login, a logout or a new route list saves the store as a whole.*)
SaveTheRest ==
  /\ file' = stored
  /\ file' # file
  /\ UNCHANGED <<pool, issued, stored, cli, task, acked, gone, unsaved, readings>>

(* The process ends at any point and starts again from the file.           *)
StartFromFile ==
  /\ stored' = file
  /\ issued' = Len(file)
  /\ pool' = [i \in DOMAIN file |-> [token |-> file[i], issued |-> i]]
  /\ task' = [o \in Operators |-> NoTask]
  /\ unsaved' = FALSE
  /\ held' = <<>> /\ overtaken' = FALSE
  /\ UNCHANGED <<file, cli, acked, gone>>

AdminInit ==
  /\ pool = <<>> /\ issued = 0
  /\ stored = <<>> /\ file = <<>>
  /\ cli = NoToken
  /\ task = [o \in Operators |-> NoTask]
  /\ acked = {} /\ gone = {}
  /\ unsaved = FALSE
  /\ held = <<>> /\ overtaken = FALSE

AdminNext ==
  \/ \E o \in Operators :
       \/ Paste(o) \/ Capture(o) \/ FinishSignIn(o) \/ LogoutCLI(o) \/ Delete(o)
       \/ ReadTokens(o) \/ Saved(o) \/ SaveFails(o) \/ Undo(o)
       \/ Resolve(o) \/ AskStatus(o) \/ BackendAnswers(o) \/ Rejected(o) \/ File(o) \/ SignOut(o)
  \/ CLISignsIn \/ SaveTheRest \/ StartFromFile

AdminSpec == AdminInit /\ [][AdminNext]_adminVars

-----------------------------------------------------------------------------
(* When no handler is at work and the last save of the list succeeded, the *)
(* file lists the accounts the pool serves from: "the pool's contents,     *)
(* written back whenever the pool changes" (store.go).                     *)
StoreFollowsPool ==
  (\A o \in Operators : Unoccupied(o)) /\ ~unsaved => file = Tokens(pool)

(* The same for as many handlers at once as there may be.  Each reads the  *)
(* list it stores after its own edit, so whoever stores last stores what   *)
(* the pool holds, or less than that only if it read its list before one   *)
(* that was stored already, or an account was withdrawn since.             *)
StoreFollowsUnlessOvertaken ==
  (\A o \in Operators : Unoccupied(o)) /\ ~unsaved /\ ~overtaken => file = Tokens(pool)

(* An account reported as added is served and survives a restart, at every *)
(* moment until someone removes it.                                        *)
AckedIsDurable == acked \subseteq Pooled(pool) \cap ToSet(file)

(* An account reported as removed, by its operator or because the backend  *)
(* rejects it, comes back neither in the pool nor after a restart.         *)
GoneStaysGone == gone \cap (Pooled(pool) \cup ToSet(stored) \cup ToSet(file)) = {}

(* Signing the CLI out never discards the only copy of a token, unless the *)
(* list could not be saved when the account was taken into the pool.       *)
SignOutKeeps ==
  [][cli # NoToken /\ cli' = NoToken => cli \in Pooled(pool) \/ unsaved]_adminVars
=============================================================================

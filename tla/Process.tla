------------------------------- MODULE Process -------------------------------
(***************************************************************************)
(* The life of the process: cmd/devin2proxy/main.go from the reading of    *)
(* the config file to the end of the drain, and the certificate of tls.go. *)
(*                                                                         *)
(* What clients are asked to trust - the API key and the certificate - is  *)
(* made on a first start and kept: one file for the key, two files that    *)
(* only make sense together for the certificate.  The process may end      *)
(* between any two steps (log.Fatalf, a kill, a redeploy), a write may     *)
(* fail, and each start may find the key in the environment or not, and    *)
(* serve TLS or not.  One process runs at a time.                          *)
(*                                                                         *)
(* Files are written beside their place and renamed, so only the rename    *)
(* is seen.  `handedOut`, `pinned` and `outcome` are kept for the          *)
(* properties.                                                             *)
(***************************************************************************)
EXTENDS Integers, FiniteSets

CONSTANTS
  Clients,     \* requests from clients, each made at most once
  MaxLaunches  \* bound: how often the process is started

VARIABLES
  at,         \* the step main is at, or "down"
  launches,   \* how often the process was started
  envKey, tls,  \* of this start: DEVIN2PROXY_API_KEY is set, TLS is on
  config,     \* the config file: NoFile, NoKey or the number of its key
  certFile, keyFile,  \* the halves of the certificate: NoFile or a pair's number
  apiKey,     \* the key in memory
  made,       \* how many keys and pairs were generated; each has its number
  signals,    \* SIGINT and SIGTERM that came while they were listened for
  flight,     \* by request: "none", "open", "answered" or "severed"
  outcome,    \* how the process ended last
  handedOut, pinned  \* the generated keys and the pairs that clients know

files  == <<config, certFile, keyFile>>
known  == <<handedOut, pinned>>
served == <<signals, flight, outcome>>

processVars == <<at, launches, envKey, tls, files, apiKey, made, served, known>>

NoFile == -1
NoKey  == 0
EnvKey == -2

GoesOn(step) == at' = step

(* The end of the process severs what it still serves.                     *)
Ends(how) ==
  /\ at' = "down" /\ outcome' = how
  /\ flight' = [c \in Clients |-> IF flight[c] = "open" THEN "severed" ELSE flight[c]]

-----------------------------------------------------------------------------
(* The key: loadConfig, writeConfig and applyEnv. *)

Launch ==
  /\ at = "down" /\ launches < MaxLaunches
  /\ GoesOn("loading")
  /\ launches' = launches + 1
  /\ envKey' \in BOOLEAN /\ tls' \in BOOLEAN
  /\ apiKey' = NoKey /\ signals' = 0
  /\ UNCHANGED <<files, made, flight, outcome, known>>

(* A key is generated only if neither the file nor the environment has one;*)
(* the environment wins over the file and is never written to it.          *)
LoadConfig ==
  /\ at = "loading"
  /\ IF config > 0 \/ envKey
       THEN /\ apiKey' = IF envKey THEN EnvKey ELSE config
            /\ GoesOn("keyed") /\ made' = made
       ELSE /\ made' = made + 1
            /\ apiKey' = made'
            /\ GoesOn("saving")
  /\ UNCHANGED <<launches, envKey, tls, files, served, known>>

(* A slip: a key that cannot be written is served all the same.            *)
WriteConfigOrNot ==
  /\ at = "saving"
  /\ \/ config' = apiKey
     \/ config' = config
  /\ GoesOn("keyed")
  /\ UNCHANGED <<launches, envKey, tls, certFile, keyFile, apiKey, made, served, known>>

WriteConfig ==
  /\ at = "saving"
  /\ \/ config' = apiKey /\ GoesOn("keyed") /\ UNCHANGED <<flight, outcome>>
     \/ config' = config /\ Ends("fatal")
  /\ UNCHANGED <<launches, envKey, tls, certFile, keyFile, apiKey, made, signals, known>>

HandOut == handedOut' = handedOut \cup ({apiKey} \ {EnvKey})

(* -print-key stops here.                                                  *)
PrintKey ==
  /\ at = "keyed"
  /\ HandOut /\ pinned' = pinned
  /\ Ends("printed")
  /\ UNCHANGED <<launches, envKey, tls, files, apiKey, made, signals>>

(* The accounts, the routes, the client, the dashboard and the server are  *)
(* put together; what is misconfigured ends the process (Dies).            *)
Assemble ==
  /\ at = "keyed"
  /\ GoesOn(IF tls THEN "certifying" ELSE "listening")
  /\ UNCHANGED <<launches, envKey, tls, files, apiKey, made, served, known>>

-----------------------------------------------------------------------------
(* The certificate: serveCertificate and writePairAtomic. *)

Exists(file) == file # NoFile

(* Half a pair is an error that names the missing half.                    *)
ServeCertificate ==
  /\ at = "certifying"
  /\ \/ Exists(certFile) /\ Exists(keyFile)
        /\ GoesOn("loading pair") /\ UNCHANGED <<made, flight, outcome>>
     \/ Exists(certFile) # Exists(keyFile)
        /\ Ends("fatal") /\ made' = made
     \/ ~Exists(certFile) /\ ~Exists(keyFile)
        /\ made' = made + 1
        /\ GoesOn("renaming certificate") /\ UNCHANGED <<flight, outcome>>
  /\ UNCHANGED <<launches, envKey, tls, files, apiKey, signals, known>>

RenameCertificate ==
  /\ at = "renaming certificate"
  /\ \/ certFile' = made /\ GoesOn("renaming key") /\ UNCHANGED <<flight, outcome>>
     \/ certFile' = certFile /\ Ends("fatal")
  /\ UNCHANGED <<launches, envKey, tls, config, keyFile, apiKey, made, signals, known>>

RenameKey ==
  /\ at = "renaming key"
  /\ \/ keyFile' = made /\ GoesOn("loading pair") /\ UNCHANGED <<flight, outcome>>
     \/ keyFile' = keyFile /\ Ends("fatal")
  /\ UNCHANGED <<launches, envKey, tls, config, certFile, apiKey, made, signals, known>>

(* The fingerprint is printed before anything is served with it.           *)
LoadPair ==
  /\ at = "loading pair"
  /\ IF certFile = keyFile
       THEN pinned' = pinned \cup {certFile} /\ GoesOn("listening") /\ UNCHANGED <<flight, outcome>>
       ELSE pinned' = pinned /\ Ends("fatal")
  /\ UNCHANGED <<launches, envKey, tls, files, apiKey, made, signals, handedOut>>

(* The operator does what the error of serveCertificate asks for.          *)
RemoveHalf ==
  /\ at = "down" /\ Exists(certFile) # Exists(keyFile)
  /\ certFile' = NoFile /\ keyFile' = NoFile
  /\ UNCHANGED <<at, launches, envKey, tls, config, apiKey, made, served, known>>

-----------------------------------------------------------------------------
(* Serving and stopping. *)

Listen ==
  /\ at = "listening"
  /\ \/ GoesOn("serving") /\ HandOut /\ UNCHANGED <<flight, outcome>>
     \/ Ends("fatal") /\ handedOut' = handedOut
  /\ UNCHANGED <<launches, envKey, tls, files, apiKey, made, signals, pinned>>

Accept(c) ==
  /\ at = "serving" /\ flight[c] = "none"
  /\ flight' = [flight EXCEPT ![c] = "open"]
  /\ UNCHANGED <<at, launches, envKey, tls, files, apiKey, made, signals, outcome, known>>

Answers(c) ==
  /\ flight[c] = "open"
  /\ flight' = [flight EXCEPT ![c] = "answered"]
  /\ UNCHANGED <<at, launches, envKey, tls, files, apiKey, made, signals, outcome, known>>

(* Until the main goroutine has restored the default handling, a second    *)
(* signal is one more that is listened for; afterwards it kills.           *)
Signal ==
  /\ \/ at = "serving" /\ signals < 2 /\ signals' = signals + 1 /\ UNCHANGED <<at, flight, outcome>>
     \/ at = "draining" /\ Ends("killed") /\ signals' = signals
  /\ UNCHANGED <<launches, envKey, tls, files, apiKey, made, known>>

Drain ==
  /\ at = "serving" /\ signals > 0
  /\ GoesOn("draining")
  /\ UNCHANGED <<launches, envKey, tls, files, apiKey, made, served, known>>

(* A slip: the server is closed instead of shut down.                      *)
ShutdownAtOnce ==
  /\ at = "draining"
  /\ Ends("drained")
  /\ UNCHANGED <<launches, envKey, tls, files, apiKey, made, signals, known>>

(* Shutdown returns when nothing is in flight any more ...                 *)
Shutdown ==
  /\ at = "draining" /\ \A c \in Clients : flight[c] # "open"
  /\ Ends("drained")
  /\ UNCHANGED <<launches, envKey, tls, files, apiKey, made, signals, known>>

(* ... or when the grace is over, and the rest is closed.                  *)
GraceOver ==
  /\ at = "draining"
  /\ Ends("out of grace")
  /\ UNCHANGED <<launches, envKey, tls, files, apiKey, made, signals, known>>

(* log.Fatalf of any step, a signal before it is listened for, a kill.     *)
Dies ==
  /\ at # "down"
  /\ Ends("killed")
  /\ UNCHANGED <<launches, envKey, tls, files, apiKey, made, signals, known>>

ProcessInit ==
  /\ at = "down" /\ launches = 0 /\ envKey = FALSE /\ tls = FALSE
  /\ config \in {NoFile, NoKey} /\ certFile = NoFile /\ keyFile = NoFile
  /\ apiKey = NoKey /\ made = 0 /\ signals = 0
  /\ flight = [c \in Clients |-> "none"] /\ outcome = "none"
  /\ handedOut = {} /\ pinned = {}

MainStep == Drain \/ Shutdown \/ GraceOver

ProcessNext ==
  \/ Launch \/ LoadConfig \/ WriteConfig \/ PrintKey \/ Assemble
  \/ ServeCertificate \/ RenameCertificate \/ RenameKey \/ LoadPair \/ RemoveHalf
  \/ Listen \/ Signal \/ MainStep \/ Dies
  \/ \E c \in Clients : Accept(c) \/ Answers(c)

ProcessSpec == ProcessInit /\ [][ProcessNext]_processVars /\ WF_processVars(MainStep)

-----------------------------------------------------------------------------
(* Properties. *)

(* What clients were given goes on being what the process serves, wherever *)
(* an earlier run was cut off, whichever write failed, and whether or not  *)
(* a key came from the environment in between: there is one generated key, *)
(* it is in the file, the file never holds the environment's; and there is *)
(* one certificate, both halves of which are in place and match.           *)
TrustKept ==
  /\ handedOut # {} => handedOut = {config}
  /\ config # EnvKey
  /\ pinned # {} => pinned = {certFile} /\ certFile = keyFile

(* A signal ends the process, whatever it is serving; and a process that   *)
(* ends without a second signal and within its grace has answered every    *)
(* request it had taken.                                                   *)
SignalsHeeded ==
  /\ signals > 0 ~> at = "down"
  /\ [][at # "down" /\ at' = "down" /\ outcome' = "drained" => flight' = flight]_processVars
=============================================================================

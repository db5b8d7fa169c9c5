---------------------------- MODULE MCDashboard ----------------------------
(* What the dashboard keeps: its own sessions and bans, the sign-ins it    *)
(* helps with, the accounts, the routes, the tests of accounts, the model  *)
(* catalogue and the log.  They share no state that the modules do not     *)
(* model themselves, so `part` picks the one that moves in a behaviour.     *)
EXTENDS SignIn, LoginFlows, MCRoutes, Probes, Catalogue, RequestLog, AccountAdmin, TLC

CONSTANTS
  a1, a2, h1, h2, s1, s2, s3, f1, f2    \* addresses, handlers, sign-ins, finishers

VARIABLE part

MCSymmetry == Permutations({a1, a2}) \cup Permutations({h1, h2})

MCInit ==
  /\ SignInInit /\ FlowsInit /\ AdminInit /\ RoutesInit /\ ProbesInit /\ CatalogueInit /\ LogInit
  /\ part \in {"sessions", "sign-ins", "accounts", "routes", "tests", "catalogue", "log"}

Rests(at, moving) == part # at => UNCHANGED moving

MCNext ==
  /\ part' = part
  /\ \/ part = "sessions"  /\ SignInNext
     \/ part = "sign-ins"  /\ FlowsNext
     \/ part = "accounts"  /\ AdminNext
     \/ part = "routes"    /\ RoutesNext
     \/ part = "tests"     /\ ProbesNext
     \/ part = "catalogue" /\ CatalogueNext
     \/ part = "log"       /\ LogNext
  /\ Rests("sessions", signInVars)
  /\ Rests("sign-ins", flowVars)
  /\ Rests("accounts", adminVars)
  /\ Rests("routes", routeVars)
  /\ Rests("tests", probeVars)
  /\ Rests("catalogue", catalogueVars)
  /\ Rests("log", logVars)

MCSpec ==
  MCInit /\ [][MCNext]_<<part, signInVars, flowVars, adminVars, routeVars, probeVars, catalogueVars, logVars>>
=============================================================================

------------------------------ MODULE MCRoutes ------------------------------
(* A few routes to type: two of one host that differ in their password,    *)
(* and one of another host that has none.                                  *)
EXTENDS RouteList

CONSTANTS near, far, x, y

MCTypedLines ==
  {[host |-> near, cred |-> x], [host |-> near, cred |-> y], [host |-> far, cred |-> NoCred]}
=============================================================================

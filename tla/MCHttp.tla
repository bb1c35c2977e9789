------------------------------- MODULE MCHttp -------------------------------
(***************************************************************************)
(* Two HTTP requests, of either client.  Heads have two bytes, bodies up   *)
(* to two or no end; the announced length is right, too small, too large,  *)
(* missing or so large that it wraps.                                      *)
(***************************************************************************)
EXTENDS HttpClients

MCBodyLens == 0 .. 2
MCDeclared == {0, 1, 2, 7, NoLength}

(* Of the inputs of the client that does not run, one is enough.           *)
MCInit ==
  /\ ClientInit
  /\ client = "component" => request = [isAddress |-> TRUE, bind |-> "no"]
  /\ client = "send" => action = [isAddress |-> TRUE, bind |-> FALSE]

MCSpec == MCInit /\ [][ClientNext]_clientVars /\ ClientFairness
=============================================================================

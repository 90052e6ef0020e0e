---- MODULE MCClient ----
(***************************************************************************)
(* Three servers.  AnyReach: any of them may be out of reach, anew for     *)
(* every request.  FirstDown: the first server has crashed.                *)
(***************************************************************************)
EXTENDS Client

AnyReach == SUBSET Server
FirstDown == {Server, Server \ {0}}
====

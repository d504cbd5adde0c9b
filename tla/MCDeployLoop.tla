---------------------------- MODULE MCDeployLoop ----------------------------
(* Two specifications and one failure signature, with the guard's limits   *)
(* small enough that each of them ends the loop.                           *)
EXTENDS DeployLoop
=============================================================================

-------------------------- MODULE MCDemoDeployment --------------------------
(***************************************************************************)
(* Small instances of DemoDeployment.                                      *)
(***************************************************************************)
EXTENDS DemoDeployment
=============================================================================

---------------------------- MODULE MCTargetCluster ----------------------------
(* The instances of TargetCluster that TLC checks.                          *)
EXTENDS TargetCluster
=============================================================================

----------------------- MODULE MCTargetClusterManagers -----------------------
(* The instances of TargetClusterManagers that TLC checks.                  *)
EXTENDS TargetClusterManagers
=============================================================================

-------------------------- MODULE MCHcloudCluster ---------------------------
(* The instances of HcloudCluster that TLC checks.                  *)
EXTENDS HcloudCluster
=============================================================================

---------------------------- MODULE MCHcloudVolume ----------------------------
(* HcloudVolume on small instances; Asked for the volumes of the configurations. *)
EXTENDS HcloudVolume, TLC

CONSTANT v1

MCAsked == v1 :> 0
MCAskedOdd == v1 :> 41
=============================================================================

--------------------------- MODULE MCHcloudMachine ---------------------------
(* HcloudMachine for TLC, with the mutants of its code. *)
EXTENDS HcloudMachine
=============================================================================

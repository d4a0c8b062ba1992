---- MODULE MCBareMetalMachine ----
(* BareMetalMachine for TLC: the constants are in the configurations.      *)
EXTENDS BareMetalMachine
====

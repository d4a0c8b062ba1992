------------------------------- MODULE MCPacker -------------------------------
(* Packer on small instances; FolderOf for the images of the configurations. *)
EXTENDS Packer, TLC

CONSTANTS u1, f1

MCFolderOf == u1 :> f1
=============================================================================

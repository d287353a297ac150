------------------------------ MODULE MCStorage ------------------------------
(* Small instances of the cloud file systems for TLC. *)
EXTENDS CloudFileSystem, TreeRefinement, MCCalls
=============================================================================

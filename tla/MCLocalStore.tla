---------------------------- MODULE MCLocalStore ----------------------------
(* Two interchangeable parts, on both kinds of file system.                 *)
EXTENDS LocalStore, TLC

PartSymmetry == Permutations(Parts)
=============================================================================

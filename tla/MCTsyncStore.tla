---------------------------- MODULE MCTsyncStore ----------------------------
(* A store with two version IDs, three files and three tree nodes: two roots *)
(* that share a subdirectory, and the subdirectory itself as a third root.   *)
EXTENDS TsyncStore, TLC

CONSTANTS k1, k2, k3, top1, top2, dir

MCSub  == (top1 :> {dir}) @@ (top2 :> {dir}) @@ (dir :> {})
MCLeaf == (top1 :> {k1})  @@ (top2 :> {k3})  @@ (dir :> {k2})
=============================================================================

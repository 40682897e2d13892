------------------------- MODULE MCTsyncTwoClients --------------------------
(* Two clients, two files in one directory and its subdirectory. *)
EXTENDS TsyncTwoClients, TLC

CONSTANTS k1, k2, top, dir

MCSub  == (top :> {dir}) @@ (dir :> {})
MCLeaf == (top :> {k1})  @@ (dir :> {k2})
=============================================================================

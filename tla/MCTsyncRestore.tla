--------------------------- MODULE MCTsyncRestore ---------------------------
(* One restore beside the store: two files, a root holding both through a  *)
(* subdirectory, and the subdirectory as a root of its own.                *)
EXTENDS TsyncRestore, TLC

CONSTANTS k1, k2, top, dir

MCSub  == (top :> {dir}) @@ (dir :> {})
MCLeaf == (top :> {k1})  @@ (dir :> {k2})
=============================================================================

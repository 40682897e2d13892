---------------------------- MODULE MCRunRestore ----------------------------
(* Two files, restored by two workers into a directory, where each is        *)
(* missing, different or already there before, in old and new directories,   *)
(* with either choice of the two options; or into an archive.                *)
EXTENDS RunRestore
=============================================================================

---------------------------- MODULE MCBackupRun -----------------------------
(* Four entries: two files with the same new content, one whose content has *)
(* a record already, and a directory.  With three workers, one can upload,  *)
(* one wait for that upload and one fail at the same time.                  *)
EXTENDS BackupRun, TLC

CONSTANTS e1, e2, e3, e4, k1, k2, w1, w2, w3

MCKeyOf == (e1 :> k1) @@ (e2 :> k1) @@ (e3 :> k2) @@ (e4 :> Directory)
=============================================================================

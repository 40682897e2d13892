--------------------------- MODULE MCBackupSteps ----------------------------
(* Five keys on pages of two, with two changes meanwhile; archives of up to  *)
(* two entries, read with a tail of four cells; a file of up to two cells;   *)
(* paths that share directories and names; four versions under three IDs,    *)
(* with a clock that may be set to any of three times.                       *)
EXTENDS BackupSteps

MCPaths == {<<"a">>, <<"a", "b">>, <<"a", "b", "a">>, <<"b">>, <<"b", "b">>}
=============================================================================

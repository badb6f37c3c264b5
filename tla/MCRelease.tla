----------------------------- MODULE MCRelease -----------------------------
(* The gate on which Release is checked: its commands that touch the       *)
(* release, and one of each other kind around them.                        *)
EXTENDS Release

MCCommands == <<"tests", "coder", "evidence", "package", "signature", "cargo">>
=============================================================================

----------------------------- MODULE MCUserCmds -----------------------------
(* UserCmds on small instances; the constants are in the .cfg files.       *)
EXTENDS UserCmds

=============================================================================

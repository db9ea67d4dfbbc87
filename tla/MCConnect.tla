----------------------------- MODULE MCConnect -----------------------------
(* Connect on small instances; the constants are in the .cfg files.        *)
EXTENDS Connect

=============================================================================

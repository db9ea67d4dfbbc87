------------------------------ MODULE MCSignon ------------------------------
(* Instances of Signon for TLC; the constants are plain numbers. *)
EXTENDS SignonInvariant
=============================================================================

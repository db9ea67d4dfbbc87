-------------------------- MODULE MCServerReliable --------------------------
(* ServerReliable on small instances; the constants are in the .cfg files. *)
EXTENDS ServerReliable

=============================================================================

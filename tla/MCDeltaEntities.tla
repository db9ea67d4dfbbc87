-------------------------- MODULE MCDeltaEntities --------------------------
(* DeltaEntities on small rings; the constants are in the .cfg file.       *)
EXTENDS DeltaEntities

=============================================================================

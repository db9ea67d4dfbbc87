-------------------------- MODULE MCDelayedPackets --------------------------
(* DelayedPackets on small instances; the constants are in the .cfg files. *)
EXTENDS DelayedPackets

ThreeAndOne == <<3, 1>>

=============================================================================

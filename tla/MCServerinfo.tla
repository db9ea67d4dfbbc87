--------------------------- MODULE MCServerinfo ---------------------------
(* Serverinfo on small instances; the constants are in the .cfg files.     *)
EXTENDS Serverinfo
=============================================================================

----------------------------- MODULE MCNetchan -----------------------------
(* Netchan on small instances; the .cfg files choose among these bounds.   *)
EXTENDS NetchanInvariant

OneAndTwo == [s \in Sides |-> IF s = Server THEN 2 ELSE 1]

=============================================================================

--------------------------- MODULE ReliableStream ---------------------------
(***************************************************************************)
(* What the reliable half of a netchan promises, in one direction: blocks  *)
(* written by one side reach the parser of the other exactly once and in   *)
(* the order of writing.  The writer may revoke what has not been          *)
(* delivered (SZ_Clear on a level change, an overflow), never anything     *)
(* else.                                                                   *)
(***************************************************************************)
EXTENDS Naturals, Sequences

CONSTANT Block

VARIABLES written, delivered

Init == written = << >> /\ delivered = << >>

(* The first n blocks written, all the delivered ones among them.          *)
Kept(n) == SubSeq(written, 1, n)

Keepable == Len(delivered) .. Len(written)

Write ==
    /\ \E n \in Keepable, b \in Block : written' = Append(Kept(n), b)
    /\ UNCHANGED delivered

Revoke ==
    /\ \E n \in Keepable : written' = Kept(n)
    /\ UNCHANGED delivered

Deliver ==
    /\ \E n \in Keepable : delivered' = Kept(n)
    /\ UNCHANGED written

Next == Write \/ Revoke \/ Deliver

Spec == Init /\ [][Next]_<<written, delivered>>

=============================================================================

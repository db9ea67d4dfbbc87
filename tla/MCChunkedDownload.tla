------------------------- MODULE MCChunkedDownload -------------------------
(* Three files for ChunkedDownload, the second longer than the ring. *)
EXTENDS ChunkedDownload

Three == <<1, 3, 1>>

=============================================================================

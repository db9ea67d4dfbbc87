-------------------------- MODULE MCMvdRecording --------------------------
(* The instances of MvdRecording that are model-checked. *)
EXTENDS MvdRecording
=============================================================================

-------------------------- MODULE MCPreviewSupervisor --------------------------
(***************************************************************************)
(* Instances of PreviewSupervisor for TLC.                                 *)
(***************************************************************************)
EXTENDS PreviewSupervisor
=============================================================================

---------------------- MODULE MCRecoverableGpuPipeline ----------------------
(***************************************************************************)
(* Instances of RecoverableGpuPipeline for TLC.  Stoppers are model        *)
(* values.                                                                 *)
(***************************************************************************)
EXTENDS RecoverableGpuPipeline
=============================================================================

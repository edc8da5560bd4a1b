------------------------- MODULE MCAsyncGpuPipeline -------------------------
(***************************************************************************)
(* Instances of AsyncGpuPipeline for TLC: two or three slots, and enough   *)
(* frames for the ring to fill, be overwritten and start over.             *)
(***************************************************************************)
EXTENDS AsyncGpuPipeline
=============================================================================

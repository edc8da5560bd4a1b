--------------------- MODULE MCPipelineEpochSupervisor ---------------------
(***************************************************************************)
(* Instances of PipelineEpochSupervisor for TLC.  Participant ids are      *)
(* model values: the code compares them only for equality.                 *)
(***************************************************************************)
EXTENDS PipelineEpochSupervisor
=============================================================================

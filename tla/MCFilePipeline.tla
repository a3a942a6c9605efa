---------------------------- MODULE MCFilePipeline ----------------------------
(* Instances of FilePipeline. *)
EXTENDS FilePipeline
==============================================================================

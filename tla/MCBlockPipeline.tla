-------------------------- MODULE MCBlockPipeline --------------------------
(* Instances of BlockPipeline: two rows, up to three block executions.      *)
EXTENDS BlockPipeline
=============================================================================

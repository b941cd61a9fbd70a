------------------------ MODULE MCSubmissionPipeline ------------------------
(* Instances of the submission pipeline for TLC.                           *)
EXTENDS PipelineRefinement

=============================================================================

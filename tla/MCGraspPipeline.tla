-------------------------- MODULE MCGraspPipeline ---------------------------
(* Instances of GraspPipeline for TLC; the .cfg files name the triggers.    *)
EXTENDS GraspPipeline
=============================================================================

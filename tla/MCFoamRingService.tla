------------------------- MODULE MCFoamRingService --------------------------
(* Instances of FoamRingService for TLC; the bounds are in its cfg file.     *)
EXTENDS FoamRingService
=============================================================================

-------------------------- MODULE MCFrameTransport ---------------------------
(* The transport for TLC; the bounds are in its cfg files.                 *)
EXTENDS FrameTransport
=============================================================================

--------------------------- MODULE MCRobotGateway ---------------------------
(* Instances of RobotGateway for TLC.  Slots and clients are model values.  *)
EXTENDS RobotGateway, TLC

=============================================================================

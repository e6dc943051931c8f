--------------------------- MODULE MCControlPlane ---------------------------
(* The models of ControlPlane, whose configurations give its constants.    *)
EXTENDS ControlPlane
=============================================================================

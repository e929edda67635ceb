-------------------------- MODULE MCGatewayReports --------------------------
(* Small instances of GatewayReports for TLC.                              *)
EXTENDS GatewayReports, MCGatewayController
=============================================================================

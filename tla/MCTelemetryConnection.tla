------------------------ MODULE MCTelemetryConnection ------------------------
(* Instances of TelemetryConnection for TLC.                                *)
EXTENDS TelemetryConnection
=============================================================================

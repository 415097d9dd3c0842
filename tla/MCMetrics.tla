----------------------------- MODULE MCMetrics ------------------------------
(* Model-checking instance of FleetMetrics.                                *)
EXTENDS FleetMetrics

CONSTANTS w1, w2

MCBounds == <<1>>
=============================================================================

-------------------------------- MODULE MCMock -------------------------------
(* Model-checking instance of MockModel.                                   *)
EXTENDS MockModel

CONSTANTS q1, q2, q3, k1, k2
=============================================================================

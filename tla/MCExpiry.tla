------------------------------ MODULE MCExpiry -------------------------------
EXTENDS Expiry

CONSTANTS p1, p2, w1, w2
=============================================================================

--------------------------- MODULE MCSubscription ----------------------------
EXTENDS Subscription

CONSTANTS p1, p2, s1, s2
=============================================================================

------------------------------ MODULE MCDispatch -----------------------------
EXTENDS Dispatch

CONSTANTS w1

MCSent == [lead |-> 3, main |-> 3]

\* A partitioned budget, and one too small to be partitioned.
MCSettings ==
  {[concurrency |-> 3, prefetch |-> 2, lead_reserve |-> 1, lead_poll |-> TRUE],
   [concurrency |-> 1, prefetch |-> 2, lead_reserve |-> 1, lead_poll |-> TRUE]}
=============================================================================

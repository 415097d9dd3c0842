----------------------------- MODULE TokenBucket -----------------------------
(* The token bucket of one endpoint: the Lua script of                       *)
(* app/ratelimit/token_bucket.py as functions of the bucket's hash.  Tokens  *)
(* are counted in units of which a request costs COST and the rate adds a    *)
(* whole number per tick; the hash keeps the time elapsed since ts.          *)
EXTENDS Integers

CONSTANTS BURST, COST, MAX_WAIT

ASSUME BucketAssumption ==
  /\ COST \in Nat \ {0} /\ BURST \in Nat /\ BURST >= COST
  /\ MAX_WAIT \in Nat

\* A missing hash starts full.
NoBucket == [tokens |-> BURST, elapsed |-> 0]

CeilDiv(n, d) == (n + d - 1) \div d

\* Mutant of Refill: ts is not moved on.
RefillKeepsTs(b, rate) ==
  LET filled == b.tokens + b.elapsed * rate
  IN  [tokens |-> IF filled > BURST THEN BURST ELSE filled, elapsed |-> b.elapsed]

\* Lazy refill from the elapsed time, at the rate the caller supplies.
Refill(b, rate) ==
  LET filled == b.tokens + b.elapsed * rate
  IN  [tokens |-> IF filled > BURST THEN BURST ELSE filled, elapsed |-> 0]

\* Ticks until the caller's slot starts, for a bucket already refilled.
WaitFor(b, rate) ==
  IF b.tokens >= COST THEN 0 ELSE CeilDiv(COST - b.tokens, rate)

\* Mutant of Granted: the wait budget is not consulted.
GrantedAlways(b, rate) == TRUE

Granted(b, rate) == WaitFor(Refill(b, rate), rate) <= MAX_WAIT

\* One call of the script: a slot within the wait budget is reserved, driving
\* the balance below zero if need be; one beyond it leaves the balance alone.
TryAcquire(b, rate) ==
  LET r == Refill(b, rate)
  IN  IF Granted(b, rate) THEN [r EXCEPT !.tokens = @ - COST] ELSE r
=============================================================================

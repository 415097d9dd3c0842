------------------------------- MODULE Breaker -------------------------------
(* The circuit breaker of one endpoint: the Lua script of                    *)
(* app/ratelimit/breaker.py as functions of the breaker's hash.  A hash is a *)
(* record whose two timestamps are kept as the time elapsed since, counted   *)
(* up to the threshold they are compared with and no further.                *)
EXTENDS Naturals

CONSTANTS WINDOW, MIN_VOLUME, RATIO_NUM, RATIO_DEN, COOLDOWN,
          MAX_PROBES, PROBE_SUCCESSES

ASSUME BreakerAssumption ==
  /\ {WINDOW, COOLDOWN} \subseteq Nat \ {0}
  /\ {MIN_VOLUME, MAX_PROBES, PROBE_SUCCESSES} \subseteq Nat \ {0}
  /\ RATIO_NUM \in 1..RATIO_DEN /\ RATIO_DEN \in Nat

BreakerState == {"CLOSED", "OPEN", "HALF_OPEN"}

\* What the script assumes of a missing hash: closed, nothing counted.
NoBreaker ==
  [state |-> "CLOSED", window |-> 0, failures |-> 0, successes |-> 0,
   opened |-> COOLDOWN, probes |-> 0, probe_ok |-> 0]

\* Time passes for the hash.
Age(b) ==
  [b EXCEPT !.window = IF @ < WINDOW THEN @ + 1 ELSE @,
            !.opened = IF @ < COOLDOWN THEN @ + 1 ELSE @]

\* Mutant of Touch: only a probe's outcome could end OPEN.
TouchStaysOpen(b) ==
  IF b.state = "CLOSED" /\ b.window >= WINDOW
  THEN [b EXCEPT !.window = 0, !.failures = 0, !.successes = 0]
  ELSE b

\* What every operation does first: roll the window of a closed breaker, let
\* an open one whose cooldown is over admit probes.
Touch(b) ==
  IF b.state = "CLOSED" /\ b.window >= WINDOW
  THEN [b EXCEPT !.window = 0, !.failures = 0, !.successes = 0]
  ELSE IF b.state = "OPEN" /\ b.opened >= COOLDOWN
  THEN [b EXCEPT !.state = "HALF_OPEN", !.probes = 0, !.probe_ok = 0]
  ELSE b

Admits(b) ==
  \/ b.state = "CLOSED"
  \/ b.state = "HALF_OPEN" /\ b.probes < MAX_PROBES

\* op = "allow": a probe slot is taken in HALF_OPEN.  "peek" is Touch alone.
Allow(b) ==
  LET t == Touch(b)
  IN  IF t.state = "HALF_OPEN" /\ Admits(t)
      THEN [t EXCEPT !.probes = @ + 1]
      ELSE t

Tripped(b) ==
  [b EXCEPT !.state = "OPEN", !.opened = 0, !.probes = 0, !.probe_ok = 0]

\* Mutant of Success: the slot of a successful probe is not given back.
SuccessKeepsSlot(b) ==
  LET t == Touch(b)
  IN  IF t.state # "HALF_OPEN"
      THEN [t EXCEPT !.successes = @ + 1]
      ELSE IF t.probe_ok + 1 >= PROBE_SUCCESSES
      THEN NoBreaker
      ELSE [t EXCEPT !.probe_ok = @ + 1]

\* op = "success".
Success(b) ==
  LET t == Touch(b)
  IN  IF t.state # "HALF_OPEN"
      THEN [t EXCEPT !.successes = @ + 1]
      ELSE IF t.probe_ok + 1 >= PROBE_SUCCESSES
      THEN [t EXCEPT !.state = "CLOSED", !.window = 0, !.failures = 0,
                     !.successes = 0, !.probes = 0, !.probe_ok = 0]
      ELSE [t EXCEPT !.probe_ok = @ + 1,
                     !.probes = IF @ > 0 THEN @ - 1 ELSE @]

\* op = "failure".  In OPEN a late failure is counted too, and restarts the
\* cooldown when the ratio still says so.
Failure(b) ==
  LET t == Touch(b)
      f == [t EXCEPT !.failures = @ + 1]
      total == f.failures + f.successes
  IN  IF t.state = "HALF_OPEN"
      THEN Tripped(t)
      ELSE IF total >= MIN_VOLUME /\ f.failures * RATIO_DEN >= RATIO_NUM * total
      THEN Tripped(f)
      ELSE f
=============================================================================

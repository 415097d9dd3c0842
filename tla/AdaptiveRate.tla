---------------------------- MODULE AdaptiveRate -----------------------------
(* The AIMD controller of one endpoint: the Lua script of                    *)
(* app/ratelimit/adaptive.py as functions of the controller's hash and of    *)
(* the ring of recent latencies.  Rates are whole numbers; the time of the   *)
(* last decrease is kept as the time elapsed since, up to REFRACTORY.        *)
EXTENDS Integers, Sequences, FiniteSets

CONSTANTS MIN_RATE, MAX_RATE, LATENCY_FLOOR, DECREASE_NUM, DECREASE_DEN,
          INCREASE_STEP, INCREASE_AFTER, REFRACTORY, LATENCY_SLO,
          RING_SIZE, MIN_SAMPLES

ASSUME RateAssumption ==
  /\ MIN_RATE \in Nat \ {0} /\ MAX_RATE \in Nat /\ LATENCY_FLOOR \in Nat
  /\ MIN_RATE <= LATENCY_FLOOR /\ LATENCY_FLOOR <= MAX_RATE
  /\ DECREASE_DEN \in Nat \ {0} /\ DECREASE_NUM \in 1..(DECREASE_DEN - 1)
  /\ INCREASE_STEP \in Nat \ {0} /\ INCREASE_AFTER \in Nat \ {0}
  /\ REFRACTORY \in Nat /\ LATENCY_SLO \in Nat \ {0}
  /\ RING_SIZE \in Nat \ {0} /\ MIN_SAMPLES \in Nat \ {0}

\* A missing hash starts at the advertised rate, with no decrease behind it.
NoController == [rate |-> MAX_RATE, successes |-> 0, cut |-> REFRACTORY]

\* LPUSH and LTRIM: the newest latency first, RING_SIZE of them.
Pushed(ring, latency) ==
  SubSeq(<<latency>> \o ring, 1,
         IF Len(ring) < RING_SIZE THEN Len(ring) + 1 ELSE RING_SIZE)

\* The element at index ceil(0.95 * n) of the sorted ring.
P95(ring) ==
  LET idx == (95 * Len(ring) + 99) \div 100
  IN  CHOOSE v \in {ring[i] : i \in DOMAIN ring} :
        /\ Cardinality({i \in DOMAIN ring : ring[i] <= v}) >= idx
        /\ Cardinality({i \in DOMAIN ring : ring[i] < v}) < idx

Slow(ring) == Len(ring) >= MIN_SAMPLES /\ P95(ring) > LATENCY_SLO

Lowered(rate, floor) ==
  LET cut == (rate * DECREASE_NUM) \div DECREASE_DEN
  IN  IF cut < floor THEN floor ELSE cut

\* A load signal: progress is discarded, and outside the refractory period
\* the rate is cut, not below the floor that goes with the signal.
Congest(a, floor) ==
  IF a.cut < REFRACTORY
  THEN [a EXCEPT !.successes = 0]
  ELSE [rate |-> Lowered(a.rate, floor), successes |-> 0, cut |-> 0]

\* Additive increase, up to the advertised rate.
Stepped(rate) ==
  IF rate + INCREASE_STEP > MAX_RATE THEN MAX_RATE ELSE rate + INCREASE_STEP

Bank(a) ==
  IF a.successes + 1 >= INCREASE_AFTER
  THEN [a EXCEPT !.successes = 0, !.rate = Stepped(@)]
  ELSE [a EXCEPT !.successes = @ + 1]

\* on_success, with the ring that already holds its latency.
OnSuccess(a, ring) ==
  IF Slow(ring) THEN Congest(a, LATENCY_FLOOR) ELSE Bank(a)

\* on_congestion: a 429 or a timeout.
OnCongestion(a) == Congest(a, MIN_RATE)
=============================================================================

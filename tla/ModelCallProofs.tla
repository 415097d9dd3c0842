--------------------------- MODULE ModelCallProofs ---------------------------
(***************************************************************************)
(* Proofs about ModelCall, for any number of callers, any of the three      *)
(* parts the client may have been given, and any setting of them.           *)
(***************************************************************************)
EXTENDS ModelCall, FiniteSetTheorems, TLAPS

(* The provers a leaf that names none is given to, and in which order.     *)
USE SMT, ZenonT(30), SMTT(10), SMTT(20)

BreakerHash ==
  [state : BreakerState, window : 0..WINDOW, failures : Nat, successes : Nat,
   opened : 0..COOLDOWN, probes : 0..MAX_PROBES, probe_ok : 0..(PROBE_SUCCESSES - 1)]

BucketHash == [tokens : Int, elapsed : Nat]

Rates == MIN_RATE..MAX_RATE

RateHash == [rate : Rates, successes : 0..(INCREASE_AFTER - 1), cut : 0..REFRACTORY]

Pcs == {"idle", "allow", "rate", "acquire", "sleep", "post", "congest", "bank", "report"}

CallState ==
  [pc : Pcs, attempt : 0..(MAX_ATTEMPTS - 1), rate : {0} \cup Rates,
   left : 0..(MAX_WAIT + JITTER), lat : 0..TIMEOUT, probe : BOOLEAN,
   answer : {"ok", "RETRY", "PERMANENT"}]

(* A call that is about to reserve has read the controller's rate, and one *)
(* that has not passed the breaker holds no probe slot.                    *)
Typed ==
  /\ wired \subseteq {"breaker", "limiter", "controller"}
  /\ br \in BreakerHash /\ bucket \in BucketHash /\ aimd \in RateHash
  /\ ring \in Seq(Nat) /\ Len(ring) <= RING_SIZE
  /\ call \in [Callers -> CallState]
  /\ \A c \in Callers :
       /\ AtPc(c, "acquire") /\ Has("controller") => call[c].rate \in Rates
       /\ call[c].pc \in {"idle", "allow"} => ~call[c].probe
  /\ healthy \in BOOLEAN /\ leaked \in BOOLEAN /\ meter \in Int

-----------------------------------------------------------------------------
(* The scripts keep the shape of their hashes.                             *)

LEMMA TouchTyped ==
  ASSUME NEW b \in BreakerHash
  PROVE  /\ Touch(b) \in BreakerHash
         /\ Touch(b).state = "HALF_OPEN" =>
              \/ Touch(b).probes = 0
              \/ b.state = "HALF_OPEN" /\ Touch(b).probes = b.probes
<1>1. /\ b.state \in BreakerState /\ b.window \in 0..WINDOW /\ b.opened \in 0..COOLDOWN
      /\ WINDOW \in Nat /\ COOLDOWN \in Nat
      /\ 0 \in 0..WINDOW /\ 0 \in 0..MAX_PROBES /\ 0 \in 0..(PROBE_SUCCESSES - 1)
  BY BreakerAssumption DEF BreakerHash
<1>2. CASE b.state = "CLOSED" /\ b.window >= WINDOW
  BY <1>1, <1>2 DEF Touch, BreakerHash
<1>3. CASE b.state = "OPEN" /\ b.opened >= COOLDOWN
  BY <1>1, <1>3 DEF Touch, BreakerHash, BreakerState
<1>4. CASE /\ ~(b.state = "CLOSED" /\ b.window >= WINDOW)
           /\ ~(b.state = "OPEN" /\ b.opened >= COOLDOWN)
  BY <1>4 DEF Touch
<1> QED BY <1>2, <1>3, <1>4

LEMMA AllowTyped ==
  ASSUME NEW b \in BreakerHash
  PROVE  /\ Allow(b) \in BreakerHash
         /\ Allow(b).state = Touch(b).state
         /\ Allow(b).probes = Touch(b).probes + (IF Touch(b).state = "HALF_OPEN" /\ Admits(Touch(b))
                                                THEN 1 ELSE 0)
<1>1. PICK t \in BreakerHash : t = Touch(b)
  BY TouchTyped
<1>2. t.probes \in 0..MAX_PROBES /\ MAX_PROBES \in Nat
  BY BreakerAssumption DEF BreakerHash
<1>3. CASE t.state = "HALF_OPEN" /\ Admits(t)
  <2>1. t.probes + 1 \in 0..MAX_PROBES
    BY <1>2, <1>3 DEF Admits
  <2>2. Allow(b) = [t EXCEPT !.probes = t.probes + 1]
    BY <1>1, <1>3 DEF Allow
  <2>3. [t EXCEPT !.probes = t.probes + 1] \in BreakerHash
    BY <2>1 DEF BreakerHash
  <2>4. /\ [t EXCEPT !.probes = t.probes + 1].state = t.state
        /\ [t EXCEPT !.probes = t.probes + 1].probes = t.probes + 1
    BY DEF BreakerHash
  <2> QED BY <1>1, <1>3, <2>2, <2>3, <2>4
<1>4. CASE ~(t.state = "HALF_OPEN" /\ Admits(t))
  <2>1. Allow(b) = t
    BY <1>1, <1>4 DEF Allow
  <2> QED BY <1>1, <1>2, <1>4, <2>1
<1> QED BY <1>3, <1>4

LEMMA SuccessTyped ==
  ASSUME NEW b \in BreakerHash
  PROVE  /\ Success(b) \in BreakerHash
         /\ Success(b).state = "HALF_OPEN" =>
              /\ Touch(b).state = "HALF_OPEN"
              /\ Success(b).probes = IF Touch(b).probes > 0 THEN Touch(b).probes - 1 ELSE 0
<1>1. PICK t \in BreakerHash : t = Touch(b)
  BY TouchTyped
<1>2. /\ t.probes \in 0..MAX_PROBES /\ MAX_PROBES \in Nat /\ t.successes \in Nat
      /\ t.probe_ok \in 0..(PROBE_SUCCESSES - 1) /\ PROBE_SUCCESSES \in Nat \ {0}
      /\ WINDOW \in Nat
  BY BreakerAssumption DEF BreakerHash
<1>3. CASE t.state # "HALF_OPEN"
  <2>1. Success(b) = [t EXCEPT !.successes = t.successes + 1]
    BY <1>1, <1>3 DEF Success
  <2>2. t.successes + 1 \in Nat
    BY <1>2
  <2> QED BY <1>3, <2>1, <2>2 DEF BreakerHash
<1>4. CASE t.state = "HALF_OPEN" /\ t.probe_ok + 1 >= PROBE_SUCCESSES
  <2>1. Success(b) = [t EXCEPT !.state = "CLOSED", !.window = 0, !.failures = 0,
                               !.successes = 0, !.probes = 0, !.probe_ok = 0]
    BY <1>1, <1>4 DEF Success
  <2>2. "CLOSED" \in BreakerState /\ 0 \in 0..WINDOW /\ 0 \in 0..MAX_PROBES
        /\ 0 \in 0..(PROBE_SUCCESSES - 1)
    BY <1>2 DEF BreakerState
  <2>3. [t EXCEPT !.state = "CLOSED", !.window = 0, !.failures = 0,
                  !.successes = 0, !.probes = 0, !.probe_ok = 0] \in BreakerHash
    BY <2>2 DEF BreakerHash
  <2>4. [t EXCEPT !.state = "CLOSED", !.window = 0, !.failures = 0,
                  !.successes = 0, !.probes = 0, !.probe_ok = 0].state = "CLOSED"
    BY DEF BreakerHash
  <2> QED BY <2>1, <2>3, <2>4
<1>5. CASE t.state = "HALF_OPEN" /\ ~(t.probe_ok + 1 >= PROBE_SUCCESSES)
  <2> DEFINE n == IF t.probes > 0 THEN t.probes - 1 ELSE t.probes
             m == t.probe_ok + 1
  <2>1. n \in 0..MAX_PROBES /\ m \in 0..(PROBE_SUCCESSES - 1)
        /\ n = IF t.probes > 0 THEN t.probes - 1 ELSE 0
    BY <1>2, <1>5
  <2>2. Success(b) = [t EXCEPT !.probe_ok = m, !.probes = n]
    BY <1>1, <1>5 DEF Success
  <2> HIDE DEF n, m
  <2>3. /\ [t EXCEPT !.probe_ok = m, !.probes = n] \in BreakerHash
        /\ [t EXCEPT !.probe_ok = m, !.probes = n].probes = n
        /\ [t EXCEPT !.probe_ok = m, !.probes = n].state = t.state
    BY <2>1 DEF BreakerHash
  <2> QED BY <1>1, <1>5, <2>1, <2>2, <2>3
<1> QED BY <1>3, <1>4, <1>5

LEMMA TrippedTyped ==
  ASSUME NEW b \in BreakerHash
  PROVE  Tripped(b) \in BreakerHash /\ Tripped(b).state = "OPEN"
<1>1. /\ "OPEN" \in BreakerState /\ 0 \in 0..COOLDOWN /\ 0 \in 0..MAX_PROBES
      /\ 0 \in 0..(PROBE_SUCCESSES - 1)
  BY BreakerAssumption DEF BreakerState
<1> QED BY <1>1 DEF Tripped, BreakerHash

LEMMA FailureTyped ==
  ASSUME NEW b \in BreakerHash
  PROVE  Failure(b) \in BreakerHash /\ Failure(b).state # "HALF_OPEN"
<1>1. PICK t \in BreakerHash : t = Touch(b)
  BY TouchTyped
<1> DEFINE f == [t EXCEPT !.failures = @ + 1]
<1>2. f \in BreakerHash /\ f.state = t.state
  BY DEF BreakerHash
<1>3. Failure(b) = Tripped(t) \/ Failure(b) = Tripped(f) \/ (Failure(b) = f /\ t.state # "HALF_OPEN")
  BY <1>1 DEF Failure
<1> HIDE DEF f
<1> QED BY <1>2, <1>3, TrippedTyped

LEMMA AgeTyped ==
  ASSUME NEW b \in BreakerHash
  PROVE  Age(b) \in BreakerHash /\ Age(b).state = b.state /\ Age(b).probes = b.probes
<1> DEFINE n == IF b.window < WINDOW THEN b.window + 1 ELSE b.window
           m == IF b.opened < COOLDOWN THEN b.opened + 1 ELSE b.opened
<1>1. n \in 0..WINDOW /\ m \in 0..COOLDOWN
  BY BreakerAssumption DEF BreakerHash
<1>2. Age(b) = [b EXCEPT !.window = n, !.opened = m]
  BY DEF Age
<1> HIDE DEF n, m
<1> QED BY <1>1, <1>2 DEF BreakerHash

LEMMA StartsTyped ==
  /\ NoBreaker \in BreakerHash /\ NoBreaker.state = "CLOSED"
  /\ NoBucket \in BucketHash /\ NoController \in RateHash
  /\ Idle \in CallState /\ Idle.pc = "idle" /\ ~Idle.probe
<1>1. NoBreaker \in BreakerHash /\ NoBreaker.state = "CLOSED"
  BY BreakerAssumption DEF NoBreaker, BreakerHash, BreakerState
<1>2. NoBucket \in BucketHash
  BY BucketAssumption DEF NoBucket, BucketHash
<1>3. NoController \in RateHash
  <2>1. MAX_RATE \in Rates /\ 0 \in 0..(INCREASE_AFTER - 1) /\ REFRACTORY \in 0..REFRACTORY
    BY RateAssumption DEF Rates
  <2> QED BY <2>1 DEF NoController, RateHash
<1>4. Idle \in CallState /\ Idle.pc = "idle" /\ ~Idle.probe
  <2>1. /\ 0 \in 0..(MAX_ATTEMPTS - 1) /\ 0 \in 0..(MAX_WAIT + JITTER) /\ 0 \in 0..TIMEOUT
        /\ 0 \in {0} \cup Rates
    BY CallAssumption, BucketAssumption
  <2> QED BY <2>1 DEF Idle, CallState, Pcs
<1> QED BY <1>1, <1>2, <1>3, <1>4

LEMMA LoweredTyped ==
  ASSUME NEW rate \in Rates, NEW floor \in Rates
  PROVE  Lowered(rate, floor) \in Rates
<1> DEFINE x == rate * DECREASE_NUM
           cut == x \div DECREASE_DEN
<1>1. /\ rate \in Nat /\ rate <= MAX_RATE /\ MIN_RATE <= rate /\ MIN_RATE \in Nat
      /\ MAX_RATE \in Nat /\ floor \in Nat /\ MIN_RATE <= floor /\ floor <= MAX_RATE
      /\ DECREASE_DEN \in Nat \ {0} /\ DECREASE_NUM \in Nat /\ DECREASE_NUM <= DECREASE_DEN
  BY RateAssumption DEF Rates
<1>2. x \in Nat /\ x <= rate * DECREASE_DEN
  BY <1>1
<1>3. \A y, r \in Nat, d \in Nat \ {0} : y <= r * d => y \div d \in Nat /\ y \div d <= r
  OBVIOUS
<1> HIDE DEF x
<1>4. cut \in Nat /\ cut <= rate
  BY <1>1, <1>2, <1>3
<1> HIDE DEF cut
<1>5. Lowered(rate, floor) = IF cut < floor THEN floor ELSE cut
  BY DEF Lowered, cut, x
<1> QED BY <1>1, <1>4, <1>5 DEF Rates

LEMMA CongestTyped ==
  ASSUME NEW a \in RateHash, NEW floor \in Rates
  PROVE  Congest(a, floor) \in RateHash
<1>1. 0 \in 0..(INCREASE_AFTER - 1) /\ 0 \in 0..REFRACTORY
  BY RateAssumption
<1>2. a.rate \in Rates
  BY DEF RateHash
<1>3. Lowered(a.rate, floor) \in Rates
  BY <1>2, LoweredTyped
<1>4. CASE a.cut < REFRACTORY
  BY <1>1, <1>4 DEF Congest, RateHash
<1>5. CASE ~(a.cut < REFRACTORY)
  BY <1>1, <1>3, <1>5 DEF Congest, RateHash
<1> QED BY <1>4, <1>5

LEMMA SignalsTyped ==
  ASSUME NEW a \in RateHash, NEW s
  PROVE  OnCongestion(a) \in RateHash /\ OnSuccess(a, s) \in RateHash
<1>1. MIN_RATE \in Rates /\ LATENCY_FLOOR \in Rates
  BY RateAssumption DEF Rates
<1>2. Bank(a) \in RateHash
  <2>1. /\ a.rate \in Nat /\ MIN_RATE <= a.rate /\ a.rate <= MAX_RATE
        /\ a.successes \in 0..(INCREASE_AFTER - 1)
    BY RateAssumption DEF RateHash, Rates
  <2>2. Stepped(a.rate) \in Rates
    BY <2>1, RateAssumption DEF Stepped, Rates
  <2>3. CASE a.successes + 1 >= INCREASE_AFTER
    <3>1. 0 \in 0..(INCREASE_AFTER - 1)
      BY RateAssumption
    <3>2. Bank(a) = [a EXCEPT !.successes = 0, !.rate = Stepped(a.rate)]
      BY <2>3 DEF Bank
    <3> QED BY <2>2, <3>1, <3>2 DEF RateHash
  <2>4. CASE ~(a.successes + 1 >= INCREASE_AFTER)
    <3>1. a.successes + 1 \in 0..(INCREASE_AFTER - 1)
      BY <2>1, <2>4, RateAssumption
    <3>2. Bank(a) = [a EXCEPT !.successes = a.successes + 1]
      BY <2>4 DEF Bank
    <3> QED BY <3>1, <3>2 DEF RateHash
  <2> QED BY <2>3, <2>4
<1> QED BY <1>1, <1>2, CongestTyped DEF OnCongestion, OnSuccess

LEMMA PushedTyped ==
  ASSUME NEW s \in Seq(Nat), NEW n \in Nat, Len(s) <= RING_SIZE
  PROVE  Pushed(s, n) \in Seq(Nat) /\ Len(Pushed(s, n)) <= RING_SIZE
<1> DEFINE q == <<n>> \o s
           m == IF Len(s) < RING_SIZE THEN Len(s) + 1 ELSE RING_SIZE
<1>1. q \in Seq(Nat) /\ Len(q) = Len(s) + 1 /\ Len(s) \in Nat
  OBVIOUS
<1>2. m \in 0..Len(q) /\ m <= RING_SIZE
  BY <1>1, RateAssumption
<1> HIDE DEF q, m
<1>3. SubSeq(q, 1, m) \in Seq(Nat) /\ Len(SubSeq(q, 1, m)) = m
  BY <1>1, <1>2
<1> QED BY <1>2, <1>3 DEF Pushed, q, m

(* The bucket.  Level is what it holds once refilled.                      *)
Level(b, rate) == Refill(b, rate).tokens

LEMMA LevelFacts ==
  ASSUME NEW b \in BucketHash, NEW rate \in Nat
  PROVE  /\ Refill(b, rate) \in BucketHash
         /\ Level(b, rate) = IF b.tokens + b.elapsed * rate > BURST THEN BURST
                             ELSE b.tokens + b.elapsed * rate
         /\ Level(b, rate) \in Int /\ Level(b, rate) <= BURST
         /\ b.tokens <= BURST => b.tokens <= Level(b, rate)
<1> DEFINE x == b.elapsed * rate
           f == b.tokens + x
           v == IF f > BURST THEN BURST ELSE f
<1>1. x \in Nat /\ b.tokens \in Int /\ BURST \in Nat
  BY BucketAssumption DEF BucketHash
<1>2. f \in Int
  BY <1>1
<1>3. v \in Int /\ v <= BURST /\ (b.tokens <= BURST => b.tokens <= v)
  BY <1>1
<1>4. Refill(b, rate) = [tokens |-> v, elapsed |-> 0]
  BY DEF Refill
<1> HIDE DEF v
<1>5. Refill(b, rate) \in BucketHash /\ Level(b, rate) = v
  BY <1>3, <1>4 DEF BucketHash, Level
<1> QED BY <1>3, <1>5 DEF v

LEMMA DivFacts ==
  \A m \in Nat, d \in Nat \ {0} :
    m \div d \in Nat /\ (m \div d) * d <= m /\ m < (m \div d) * d + d
<1>1. \A m \in Nat, d \in Nat \ {0} : m \div d \in Nat
  OBVIOUS
<1>2. \A m \in Nat, d \in Nat \ {0} : (m \div d) * d <= m
  OBVIOUS
<1>3. \A m \in Nat, d \in Nat \ {0} : m < (m \div d) * d + d
  OBVIOUS
<1> QED BY <1>1, <1>2, <1>3

(* What the wait of a reservation says about the level it starts from.     *)
LEMMA WaitFacts ==
  ASSUME NEW r \in BucketHash, NEW rate \in Nat \ {0}
  PROVE  /\ WaitFor(r, rate) \in Nat
         /\ WaitFor(r, rate) = 0 <=> r.tokens >= COST
         /\ COST - r.tokens <= WaitFor(r, rate) * rate
         /\ r.tokens < COST => (WaitFor(r, rate) - 1) * rate < COST - r.tokens
<1> DEFINE n == COST - r.tokens
           w == (n + rate - 1) \div rate
<1>1. n \in Int /\ r.tokens \in Int /\ COST \in Nat
  BY BucketAssumption DEF BucketHash
<1>2. CASE r.tokens >= COST
  <2>1. WaitFor(r, rate) = 0
    BY <1>2 DEF WaitFor
  <2> QED BY <1>1, <1>2, <2>1
<1>3. CASE r.tokens < COST
  <2>1. n \in Nat \ {0} /\ ~(r.tokens >= COST)
    BY <1>1, <1>3
  <2>2. WaitFor(r, rate) = w
    BY <2>1 DEF WaitFor, CeilDiv
  <2> HIDE DEF n
  <2>3. w \in Nat \ {0} /\ n <= w * rate /\ (w - 1) * rate < n
    <3>1. n + rate - 1 \in Nat
      BY <2>1
    <3>2. PICK m \in Nat : m = n + rate - 1
      BY <3>1
    <3>3. m \div rate \in Nat /\ (m \div rate) * rate <= m /\ m < (m \div rate) * rate + rate
      BY DivFacts
    <3>4. PICK v \in Nat : v = m \div rate
      BY <3>3
    <3>5. v * rate \in Nat /\ v * rate <= m /\ m < v * rate + rate
      BY <3>3, <3>4
    <3>6. n <= v * rate
      BY <2>1, <3>2, <3>5
    <3>7. v # 0
      BY <2>1, <3>6
    <3>8. (v - 1) * rate = v * rate - rate
      OBVIOUS
    <3>9. (v - 1) * rate < n
      BY <2>1, <3>2, <3>5, <3>8
    <3> QED BY <3>2, <3>4, <3>6, <3>7, <3>9
  <2> QED BY <1>3, <2>1, <2>2, <2>3 DEF n
<1> QED BY <1>1, <1>2, <1>3

-----------------------------------------------------------------------------
(* Typing.                                                                 *)

(* A call that becomes k is one that Typed allows.                         *)
Sane(k) ==
  /\ k \in CallState
  /\ k.pc = "acquire" /\ Has("controller") => k.rate \in Rates
  /\ k.pc \in {"idle", "allow"} => ~k.probe

LEMMA GatesTyped ==
  /\ ToAcquire \in {"acquire", "post"}
  /\ ToRate \in {"rate", "acquire", "post"} /\ (Has("controller") => ToRate = "rate")
  /\ ToAllow \in {"allow", "rate", "acquire", "post"}
  /\ Has("controller") => ToAllow \in {"allow", "rate"}
BY DEF ToAcquire, ToRate, ToAllow

(* Where a call starts over.                                               *)
LEMMA FreshSane ==
  ASSUME NEW n \in 0..(MAX_ATTEMPTS - 1)
  PROVE  /\ Sane(Idle) /\ Sane([Idle EXCEPT !.pc = ToAllow])
         /\ Sane([Idle EXCEPT !.pc = ToAllow, !.attempt = n])
         /\ [Idle EXCEPT !.pc = ToAllow].pc = ToAllow
         /\ [Idle EXCEPT !.pc = ToAllow, !.attempt = n].pc = ToAllow
         /\ ~[Idle EXCEPT !.pc = ToAllow].probe
         /\ ~[Idle EXCEPT !.pc = ToAllow, !.attempt = n].probe
<1>1. ToAllow \in Pcs /\ (Has("controller") => ToAllow # "acquire")
  BY GatesTyped DEF Pcs
<1>2. Idle \in CallState /\ Idle.pc = "idle" /\ ~Idle.probe
  BY StartsTyped DEF StartsTyped
<1>3. PICK p \in Pcs : p = ToAllow
  BY <1>1
<1> DEFINE k == [Idle EXCEPT !.pc = p]
           l == [Idle EXCEPT !.pc = p, !.attempt = n]
<1>4. k \in CallState /\ k.pc = p /\ k.probe = Idle.probe
  BY <1>2 DEF CallState
<1>5. l \in CallState /\ l.pc = p /\ l.probe = Idle.probe
  BY <1>2 DEF CallState
<1> HIDE DEF k, l
<1>6. Sane(Idle)
  BY <1>2 DEF Sane
<1>7. Sane(k) /\ Sane(l) /\ ~k.probe /\ ~l.probe
  BY <1>1, <1>2, <1>3, <1>4, <1>5 DEF Sane
<1> QED BY <1>3, <1>4, <1>5, <1>6, <1>7 DEF k, l

Acts(c) == Start(c) \/ Step(c) \/ Vanish(c)

(* The steps in the middle of a call.                                      *)
LEMMA MiddleSane ==
  ASSUME Typed, NEW c \in Callers,
         \/ ReadRate(c) \/ Wake(c) \/ (\E a \in Answers : Answer(c, a))
         \/ SignalLoad(c) \/ BankSuccess(c)
  PROVE  \E k : /\ Becomes(c, k) /\ Sane(k) /\ k.probe = call[c].probe
                /\ k.pc \notin {"idle", "allow", "sleep"}
<1>1. call[c] \in CallState
  BY DEF Typed
<1>2. /\ call[c].pc \in Pcs /\ call[c].attempt \in 0..(MAX_ATTEMPTS - 1)
      /\ call[c].rate \in {0} \cup Rates /\ call[c].left \in 0..(MAX_WAIT + JITTER)
      /\ call[c].lat \in 0..TIMEOUT /\ call[c].answer \in {"ok", "RETRY", "PERMANENT"}
      /\ 0 \in 0..TIMEOUT
  BY <1>1, CallAssumption DEF CallState
<1>3. CASE ReadRate(c)
  <2> DEFINE k == [call[c] EXCEPT !.rate = aimd.rate, !.pc = ToAcquire]
  <2>1. aimd.rate \in Rates /\ ToAcquire \in {"acquire", "post"}
    BY GatesTyped DEF Typed, RateHash
  <2>2. PICK p \in Pcs : p = ToAcquire
    BY <2>1 DEF Pcs
  <2>3. k \in CallState /\ k.pc = p /\ k.rate = aimd.rate /\ k.probe = call[c].probe
    BY <1>1, <2>1, <2>2 DEF CallState
  <2>4. Becomes(c, k)
    BY <1>3 DEF ReadRate
  <2> HIDE DEF k
  <2>5. Sane(k)
    BY <2>1, <2>2, <2>3 DEF Sane
  <2> QED BY <2>1, <2>2, <2>3, <2>4, <2>5
<1>4. CASE Wake(c) \/ SignalLoad(c)
  <2>1. PICK p \in {"post", "report"} : Becomes(c, [call[c] EXCEPT !.pc = p])
    BY <1>4 DEF Wake, SignalLoad, Goto
  <2> DEFINE k == [call[c] EXCEPT !.pc = p]
  <2>2. k \in CallState /\ k.pc = p /\ k.probe = call[c].probe
    BY <1>1, <2>1 DEF CallState, Pcs
  <2> HIDE DEF k
  <2>3. Sane(k)
    BY <2>1, <2>2 DEF Sane
  <2> QED BY <2>1, <2>2, <2>3 DEF k
<1>5. ASSUME NEW a \in Answers, Answer(c, a)
      PROVE  \E k : /\ Becomes(c, k) /\ Sane(k) /\ k.probe = call[c].probe
                    /\ k.pc \notin {"idle", "allow", "sleep"}
  <2> DEFINE n == IF a = "ok" THEN call[c].lat ELSE 0
             p == IF a = "ok" THEN (IF Has("controller") THEN "bank" ELSE "report")
                  ELSE IF a \in {"rejected", "timeout"} /\ Has("controller")
                  THEN "congest" ELSE "report"
             k == [call[c] EXCEPT !.answer = classify(a), !.lat = n, !.pc = p]
  <2>1. p \in {"bank", "report", "congest"} /\ n \in 0..TIMEOUT
        /\ classify(a) \in {"ok", "RETRY", "PERMANENT"}
    BY <1>2 DEF classify
  <2>2. Becomes(c, k)
    BY <1>5 DEF Answer
  <2> HIDE DEF n, p
  <2>3. p \in Pcs
    BY <2>1 DEF Pcs
  <2>4. k \in CallState /\ k.pc = p /\ k.probe = call[c].probe
    BY <1>1, <2>1, <2>3 DEF CallState
  <2> HIDE DEF k
  <2>5. Sane(k)
    BY <2>1, <2>4 DEF Sane
  <2> QED BY <2>1, <2>2, <2>4, <2>5
<1>6. CASE BankSuccess(c)
  <2> DEFINE k == [call[c] EXCEPT !.pc = "report", !.lat = 0]
  <2>1. k \in CallState /\ k.pc = "report" /\ k.probe = call[c].probe
    BY <1>1, <1>2 DEF CallState, Pcs
  <2>2. Becomes(c, k)
    BY <1>6 DEF BankSuccess
  <2> HIDE DEF k
  <2>3. Sane(k)
    BY <2>1 DEF Sane
  <2> QED BY <2>1, <2>2, <2>3
<1> QED BY <1>3, <1>4, <1>5, <1>6

(* The breaker's answer.  Only an admitted call may hold a probe slot, and *)
(* it does when the breaker counted one.                                   *)
LEMMA AskSane ==
  ASSUME Typed, NEW c \in Callers, AskBreaker(c)
  PROVE  \E k : /\ Becomes(c, k) /\ Sane(k) /\ k.pc # "sleep"
                /\ Touch(br).state = "HALF_OPEN" /\ Admits(Touch(br))
                     => k.probe /\ k.pc # "idle"
<1>1. call[c] \in CallState
  BY DEF Typed
<1>2. CASE Admits(Touch(br))
  <2>1. ToRate \in {"rate", "acquire", "post"} /\ (Has("controller") => ToRate = "rate")
    BY GatesTyped DEF GatesTyped
  <2>2. PICK p \in Pcs : p = ToRate
    BY <2>1 DEF Pcs
  <2> DEFINE q == Touch(br).state = "HALF_OPEN"
             k == [call[c] EXCEPT !.pc = p, !.probe = q]
  <2>3. Becomes(c, k)
    BY <1>2, <2>2 DEF AskBreaker
  <2>4. q \in BOOLEAN
    OBVIOUS
  <2> HIDE DEF q
  <2>5. k \in CallState /\ k.pc = p /\ k.probe = q
    BY <1>1, <2>2, <2>4 DEF CallState
  <2> HIDE DEF k
  <2>6. Sane(k)
    BY <2>1, <2>2, <2>5 DEF Sane
  <2>7. q => k.probe
    BY <2>5
  <2>8. k.pc \notin {"sleep", "idle"}
    BY <2>1, <2>2, <2>5
  <2> QED BY <2>3, <2>6, <2>7, <2>8 DEF q
<1>3. CASE ~Admits(Touch(br))
  <2>1. Becomes(c, Idle)
    BY <1>3 DEF AskBreaker, End
  <2>2. Sane(Idle) /\ Idle.pc = "idle"
    BY StartsTyped DEF StartsTyped, Sane
  <2> QED BY <1>3, <2>1, <2>2
<1> QED BY <1>2, <1>3

(* The three answers of the limiter.                                       *)
Grant(c, k) ==
  /\ bucket' = [Refill(bucket, Setpoint(c)) EXCEPT !.tokens = @ - COST]
  /\ Level(bucket, Setpoint(c)) >= COST
  /\ k.pc = "post" /\ k.probe = call[c].probe /\ Sent /\ leaked' = leaked

Reserve(c, k) ==
  \E w \in 1..MAX_WAIT, j \in 0..JITTER :
    /\ bucket' = [Refill(bucket, Setpoint(c)) EXCEPT !.tokens = @ - COST]
    /\ COST - Level(bucket, Setpoint(c)) <= w * Setpoint(c)
    /\ (w - 1) * Setpoint(c) < COST - Level(bucket, Setpoint(c))
    /\ k.pc = "sleep" /\ k.left = w + j /\ k.probe = call[c].probe
    /\ UNCHANGED <<leaked, meter>>

Refuse(c, k) ==
  /\ bucket' = Refill(bucket, Setpoint(c))
  /\ k.pc = "idle" /\ leaked' = (leaked \/ call[c].probe) /\ meter' = meter

LEMMA AcquireCases ==
  ASSUME Typed, NEW c \in Callers, Acquire(c)
  PROVE  /\ Setpoint(c) \in Rates
         /\ \E k : /\ Becomes(c, k) /\ Sane(k)
                   /\ Grant(c, k) \/ Reserve(c, k) \/ Refuse(c, k)
<1>1. /\ call[c] \in CallState /\ bucket \in BucketHash /\ Setpoint(c) \in Rates
      /\ MAX_WAIT \in Nat /\ JITTER \in Nat
  <2>1. MAX_RATE \in Rates
    BY RateAssumption DEF Rates
  <2>2. Setpoint(c) \in Rates
    BY <2>1 DEF Typed, Acquire, Setpoint
  <2> QED BY <2>2, BucketAssumption, CallAssumption DEF Typed
<1>2. PICK rate \in Nat \ {0} : rate = Setpoint(c)
  BY <1>1, RateAssumption DEF Rates
<1>3. PICK r \in BucketHash : r = Refill(bucket, rate)
  BY <1>1, <1>2, LevelFacts
<1>4. PICK wait \in Nat : wait = WaitFor(r, rate)
  BY <1>2, <1>3, WaitFacts
<1>5. /\ r.tokens = Level(bucket, rate) /\ r.tokens \in Int
      /\ wait = 0 <=> r.tokens >= COST
      /\ COST - r.tokens <= wait * rate
      /\ r.tokens < COST => (wait - 1) * rate < COST - r.tokens
      /\ Granted(bucket, rate) <=> wait <= MAX_WAIT
  BY <1>1, <1>2, <1>3, <1>4, WaitFacts DEF Level, Granted, BucketHash
<1>6. bucket' = IF Granted(bucket, rate) THEN [r EXCEPT !.tokens = @ - COST] ELSE r
  BY <1>2, <1>3 DEF Acquire, TryAcquire
<1>7. 0 \in {0} \cup Rates /\ "post" \in Pcs /\ "sleep" \in Pcs
  BY DEF Pcs
<1>8. CASE /\ Granted(bucket, rate) /\ wait = 0
           /\ Becomes(c, [call[c] EXCEPT !.pc = "post", !.rate = 0])
           /\ Sent /\ leaked' = leaked
  <2> DEFINE k == [call[c] EXCEPT !.pc = "post", !.rate = 0]
  <2>1. k \in CallState /\ k.pc = "post" /\ k.probe = call[c].probe
    BY <1>1, <1>7 DEF CallState
  <2>2. Becomes(c, k)
    BY <1>8
  <2> HIDE DEF k
  <2>3. Sane(k)
    BY <2>1 DEF Sane
  <2>4. Grant(c, k)
    BY <1>2, <1>3, <1>5, <1>6, <1>8, <2>1 DEF Grant
  <2> QED BY <1>1, <2>2, <2>3, <2>4
<1>9. ASSUME NEW j \in 0..JITTER, Granted(bucket, rate), wait > 0,
             Becomes(c, [call[c] EXCEPT !.pc = "sleep", !.rate = 0, !.left = wait + j]),
             UNCHANGED <<leaked, meter>>
      PROVE  \E k : Becomes(c, k) /\ Sane(k) /\ Reserve(c, k)
  <2> DEFINE n == wait + j
             k == [call[c] EXCEPT !.pc = "sleep", !.rate = 0, !.left = n]
  <2>1. n \in 0..(MAX_WAIT + JITTER) /\ wait \in 1..MAX_WAIT
    BY <1>1, <1>5, <1>9
  <2>2. Becomes(c, k)
    BY <1>9
  <2> HIDE DEF n
  <2>3. k \in CallState /\ k.pc = "sleep" /\ k.probe = call[c].probe /\ k.left = n
    BY <1>1, <1>7, <2>1 DEF CallState
  <2> HIDE DEF k
  <2>4. Sane(k)
    BY <2>3 DEF Sane
  <2>5. r.tokens < COST
    BY <1>1, <1>5, <1>9, BucketAssumption
  <2>6. /\ bucket' = [Refill(bucket, Setpoint(c)) EXCEPT !.tokens = @ - COST]
        /\ COST - Level(bucket, Setpoint(c)) <= wait * Setpoint(c)
        /\ (wait - 1) * Setpoint(c) < COST - Level(bucket, Setpoint(c))
    BY <1>2, <1>3, <1>5, <1>6, <1>9, <2>5
  <2>7. Reserve(c, k)
    BY <1>9, <2>1, <2>3, <2>6 DEF Reserve, n
  <2> QED BY <2>2, <2>4, <2>7
<1>10. CASE /\ ~Granted(bucket, rate)
            /\ End(c) /\ leaked' = (leaked \/ call[c].probe) /\ meter' = meter
  <2>1. Sane(Idle) /\ Idle.pc = "idle"
    BY StartsTyped DEF StartsTyped, Sane
  <2>2. Refuse(c, Idle)
    BY <1>2, <1>3, <1>6, <1>10, <2>1 DEF Refuse
  <2> QED BY <1>1, <1>10, <2>1, <2>2 DEF End
<1>11. \/ /\ Granted(bucket, rate) /\ wait = 0
          /\ Becomes(c, [call[c] EXCEPT !.pc = "post", !.rate = 0])
          /\ Sent /\ leaked' = leaked
       \/ /\ Granted(bucket, rate) /\ wait > 0
          /\ \E j \in 0..JITTER :
               Becomes(c, [call[c] EXCEPT !.pc = "sleep", !.rate = 0, !.left = wait + j])
          /\ UNCHANGED <<leaked, meter>>
       \/ /\ ~Granted(bucket, rate)
          /\ End(c) /\ leaked' = (leaked \/ call[c].probe) /\ meter' = meter
  BY <1>2, <1>3, <1>4 DEF Acquire
<1> QED BY <1>1, <1>8, <1>9, <1>10, <1>11

(* The end of an attempt: no slot is kept, and nobody sleeps.              *)
LEMMA FreshCases ==
  ASSUME Typed, NEW c \in Callers, Start(c) \/ Report(c) \/ Vanish(c)
  PROVE  \E k : Becomes(c, k) /\ Sane(k) /\ ~k.probe /\ k.pc # "sleep"
<1>1. call[c].attempt \in 0..(MAX_ATTEMPTS - 1) /\ MAX_ATTEMPTS \in Nat \ {0}
  BY CallAssumption DEF Typed, CallState
<1>2. ToAllow # "sleep"
  BY GatesTyped DEF GatesTyped
<1>3. 0 \in 0..(MAX_ATTEMPTS - 1)
  BY <1>1
<1>4. CASE Becomes(c, Idle)
  BY <1>3, <1>4, FreshSane, StartsTyped DEF StartsTyped
<1>5. CASE Becomes(c, [Idle EXCEPT !.pc = ToAllow])
  BY <1>2, <1>3, <1>5, FreshSane
<1>6. CASE /\ Report(c) /\ call[c].answer = "RETRY" /\ call[c].attempt + 1 < MAX_ATTEMPTS
  <2>1. PICK n \in 0..(MAX_ATTEMPTS - 1) : n = call[c].attempt + 1
    BY <1>1, <1>6
  <2>2. Becomes(c, [Idle EXCEPT !.pc = ToAllow, !.attempt = n])
    BY <1>6, <2>1 DEF Report
  <2> QED BY <1>2, <2>2, FreshSane
<1>7. CASE /\ Report(c) /\ ~(call[c].answer = "RETRY" /\ call[c].attempt + 1 < MAX_ATTEMPTS)
  BY <1>4, <1>7 DEF Report
<1> QED BY <1>4, <1>5, <1>6, <1>7 DEF Start, Vanish, End

LEMMA ActsSane ==
  ASSUME Typed, NEW c \in Callers, Acts(c)
  PROVE  \E k : Becomes(c, k) /\ Sane(k)
BY FreshCases, MiddleSane, AskSane, AcquireCases DEF Acts, Step

LEMMA SentTyped ==
  ASSUME meter \in Int, Sent
  PROVE  meter' \in Int
BY BucketAssumption DEF Sent

(* What the steps of a call do to the keys in Redis.                       *)
LEMMA KeysTyped ==
  ASSUME Typed, NEW c \in Callers, Acts(c)
  PROVE  /\ br' \in BreakerHash /\ bucket' \in BucketHash /\ aimd' \in RateHash
         /\ ring' \in Seq(Nat) /\ Len(ring') <= RING_SIZE
         /\ wired' = wired /\ healthy' = healthy /\ leaked' \in BOOLEAN /\ meter' \in Int
<1>1. /\ br \in BreakerHash /\ bucket \in BucketHash /\ aimd \in RateHash
      /\ ring \in Seq(Nat) /\ Len(ring) <= RING_SIZE /\ leaked \in BOOLEAN /\ meter \in Int
      /\ call[c] \in CallState /\ call[c].lat \in Nat /\ call[c].probe \in BOOLEAN
  <2>1. call[c] \in CallState
    BY DEF Typed
  <2>2. call[c].lat \in Nat /\ call[c].probe \in BOOLEAN
    BY <2>1, CallAssumption DEF CallState
  <2> QED BY <2>1, <2>2 DEF Typed
<1>2. CASE Start(c) \/ ReadRate(c) \/ \E a \in Answers : Answer(c, a)
  BY <1>1, <1>2 DEF Start, ReadRate, Answer, Redis
<1>3. CASE AskBreaker(c)
  BY <1>1, <1>3, AllowTyped DEF AskBreaker
<1>4. CASE Acquire(c)
  <2>1. Setpoint(c) \in Rates
    BY <1>4, AcquireCases
  <2>2. PICK rate \in Nat : rate = Setpoint(c)
    BY <2>1, RateAssumption DEF Rates
  <2>3. PICK r \in BucketHash : r = Refill(bucket, rate)
    BY <1>1, LevelFacts
  <2>4. bucket' = r \/ bucket' = [r EXCEPT !.tokens = r.tokens - COST]
    BY <1>4, <2>2, <2>3 DEF Acquire, TryAcquire
  <2>5. r.tokens - COST \in Int
    BY BucketAssumption DEF BucketHash
  <2>6. [r EXCEPT !.tokens = r.tokens - COST] \in BucketHash
    BY <2>5 DEF BucketHash
  <2>7. bucket' \in BucketHash
    BY <2>4, <2>6
  <2>8. meter' \in Int
    BY <1>1, <1>4, SentTyped DEF Acquire
  <2>9. leaked' \in BOOLEAN
    BY <1>1, <1>4 DEF Acquire
  <2>10. UNCHANGED <<wired, br, aimd, ring, healthy>>
    BY <1>4 DEF Acquire
  <2> QED BY <1>1, <2>7, <2>8, <2>9, <2>10
<1>5. CASE Wake(c)
  BY <1>1, <1>5, SentTyped DEF Wake, Redis
<1>6. CASE SignalLoad(c)
  BY <1>1, <1>6, SignalsTyped DEF SignalLoad
<1>7. CASE BankSuccess(c)
  <2>1. Pushed(ring, call[c].lat) \in Seq(Nat) /\ Len(Pushed(ring, call[c].lat)) <= RING_SIZE
    BY <1>1, PushedTyped
  <2>2. OnSuccess(aimd, ring') \in RateHash
    BY <1>1, SignalsTyped
  <2> QED BY <1>1, <1>7, <2>1, <2>2 DEF BankSuccess
<1>8. CASE Report(c)
  <2>1. br' = br \/ br' = Success(br) \/ br' = Failure(br)
    BY <1>8 DEF Report
  <2>2. br' \in BreakerHash
    BY <1>1, <2>1, SuccessTyped, FailureTyped
  <2> QED BY <1>1, <1>8, <2>2 DEF Report
<1>9. CASE Vanish(c)
  BY <1>1, <1>9 DEF Vanish, Redis
<1> QED BY <1>2, <1>3, <1>4, <1>5, <1>6, <1>7, <1>8, <1>9 DEF Acts, Step

LEMMA TypedActs ==
  ASSUME Typed, NEW c \in Callers, Acts(c)
  PROVE  Typed'
<1>1. PICK k : Becomes(c, k) /\ Sane(k)
  BY ActsSane
<1>2. wired' = wired
  BY KeysTyped
<1>3. call' \in [Callers -> CallState]
  BY <1>1 DEF Typed, Becomes, Sane
<1>4. ASSUME NEW d \in Callers
      PROVE  /\ AtPc(d, "acquire")' /\ Has("controller")' => call'[d].rate \in Rates
             /\ call'[d].pc \in {"idle", "allow"} => ~call'[d].probe
  <2>1. CASE d = c
    <3>1. call'[d] = k
      BY <1>1, <2>1 DEF Typed, Becomes
    <3> QED BY <1>1, <1>2, <3>1 DEF Sane, AtPc, Has
  <2>2. CASE d # c
    <3>1. call'[d] = call[d]
      BY <1>1, <2>2 DEF Typed, Becomes
    <3> QED BY <1>2, <3>1 DEF Typed, AtPc, Has
  <2> QED BY <2>1, <2>2
<1>5. /\ br' \in BreakerHash /\ bucket' \in BucketHash /\ aimd' \in RateHash
      /\ ring' \in Seq(Nat) /\ Len(ring') <= RING_SIZE
      /\ healthy' \in BOOLEAN /\ leaked' \in BOOLEAN /\ meter' \in Int
      /\ wired' \subseteq {"breaker", "limiter", "controller"}
  BY KeysTyped DEF Typed
<1> QED BY <1>3, <1>4, <1>5 DEF Typed

(* What a tick does to a call and to the bucket.                           *)
LEMMA TickCalls ==
  ASSUME Typed, Tick
  PROVE  /\ call' \in [Callers -> CallState]
         /\ \A c \in Callers :
              /\ call'[c].pc = call[c].pc /\ call'[c].probe = call[c].probe
              /\ call'[c].rate = call[c].rate
              /\ AtPc(c, "sleep") => call[c].left > 0 /\ call'[c].left = call[c].left - 1
<1>1. ASSUME NEW c \in Callers
      PROVE  /\ call'[c] \in CallState
             /\ call'[c].pc = call[c].pc /\ call'[c].probe = call[c].probe
             /\ call'[c].rate = call[c].rate
             /\ AtPc(c, "sleep") => call[c].left > 0 /\ call'[c].left = call[c].left - 1
  <2> DEFINE n == IF AtPc(c, "sleep") THEN call[c].left - 1 ELSE call[c].left
             m == IF Timed(c) THEN call[c].lat + 1 ELSE call[c].lat
  <2>1. call[c] \in CallState
    BY DEF Typed
  <2>2. call[c].left \in 0..(MAX_WAIT + JITTER) /\ call[c].lat \in 0..TIMEOUT
    BY <2>1 DEF CallState
  <2>3. /\ AtPc(c, "sleep") => call[c].left > 0
        /\ Timed(c) => call[c].lat < TIMEOUT
        /\ call'[c] = [call[c] EXCEPT !.left = n, !.lat = m]
    BY DEF Tick
  <2>4. n \in 0..(MAX_WAIT + JITTER) /\ m \in 0..TIMEOUT
    BY <2>2, <2>3, BucketAssumption, CallAssumption
  <2>5. AtPc(c, "sleep") => call[c].left > 0 /\ n = call[c].left - 1
    BY <2>3
  <2> HIDE DEF n, m
  <2>6. /\ call'[c] \in CallState
        /\ call'[c].pc = call[c].pc /\ call'[c].probe = call[c].probe
        /\ call'[c].rate = call[c].rate /\ call'[c].left = n
    BY <2>1, <2>3, <2>4 DEF CallState
  <2> QED BY <2>5, <2>6
<1>2. call' = [c \in Callers |-> call'[c]]
  BY DEF Tick
<1>3. call' \in [Callers -> CallState]
  BY <1>1, <1>2
<1> QED BY <1>1, <1>3

LEMMA TickBucket ==
  ASSUME Typed, Tick, bucket.tokens <= BURST
  PROVE  /\ bucket' \in BucketHash /\ bucket'.tokens = bucket.tokens
         /\ bucket'.elapsed = IF bucket.elapsed < BURST - bucket.tokens
                              THEN bucket.elapsed + 1 ELSE bucket.elapsed
<1> DEFINE n == IF bucket.elapsed < BURST - bucket.tokens
                THEN bucket.elapsed + 1 ELSE bucket.elapsed
<1>1. bucket \in BucketHash /\ bucket.elapsed \in Nat
  BY DEF Typed, BucketHash
<1>2. n \in Nat
  BY <1>1
<1>3. bucket' = [bucket EXCEPT !.elapsed = n]
  BY DEF Tick, FullAfter
<1> HIDE DEF n
<1>4. bucket' \in BucketHash /\ bucket'.tokens = bucket.tokens /\ bucket'.elapsed = n
  BY <1>1, <1>2, <1>3 DEF BucketHash
<1> QED BY <1>4 DEF n

(* The debt is part of the typing invariant: a tick stops counting once    *)
(* the bucket is full.                                                     *)
TypedDebt == Typed /\ DebtBounded

LEMMA TypedTick ==
  ASSUME TypedDebt, Tick
  PROVE  Typed'
<1> USE DEF TypedDebt
<1>1. br' \in BreakerHash
  BY AgeTyped DEF Typed, Tick
<1>2. bucket' \in BucketHash
  BY TickBucket DEF DebtBounded
<1>3. aimd' \in RateHash
  <2> DEFINE n == IF aimd.cut < REFRACTORY THEN aimd.cut + 1 ELSE aimd.cut
  <2>1. n \in 0..REFRACTORY
    BY RateAssumption DEF Typed, RateHash
  <2>2. aimd' = [aimd EXCEPT !.cut = n]
    BY DEF Tick
  <2> HIDE DEF n
  <2> QED BY <2>1, <2>2 DEF Typed, RateHash
<1>4. meter' \in Int
  <2>1. MeterCap \in Int /\ MAX_RATE \in Int
    BY BucketAssumption, RateAssumption, CallAssumption DEF MeterCap
  <2>2. meter \in Int
    BY DEF Typed
  <2>3. meter' = MeterCap \/ meter' = meter + MAX_RATE
    BY DEF Tick
  <2> QED BY <2>1, <2>2, <2>3
<1>5. /\ UNCHANGED <<wired, ring, healthy, leaked>>
  BY DEF Tick
<1>6. ASSUME NEW d \in Callers
      PROVE  /\ AtPc(d, "acquire")' /\ Has("controller")' => call'[d].rate \in Rates
             /\ call'[d].pc \in {"idle", "allow"} => ~call'[d].probe
  BY <1>5, TickCalls DEF Typed, AtPc, Has
<1>7. call' \in [Callers -> CallState]
  BY TickCalls
<1> QED BY <1>1, <1>2, <1>3, <1>4, <1>5, <1>6, <1>7 DEF Typed

LEMMA TypedInit == Init => TypedDebt
<1> SUFFICES ASSUME Init PROVE TypedDebt
  OBVIOUS
<1>1. call \in [Callers -> CallState] /\ \A c \in Callers : call[c] = Idle
  BY StartsTyped DEF StartsTyped, Init
<1>2. \A c \in Callers : ~AtPc(c, "acquire") /\ ~call[c].probe
  BY <1>1, StartsTyped DEF StartsTyped, AtPc
<1>3. MeterCap \in Int
  BY BucketAssumption, RateAssumption, CallAssumption DEF MeterCap
<1>4. <<>> \in Seq(Nat) /\ Len(<<>>) <= RING_SIZE
  BY RateAssumption
<1>5. Typed
  BY <1>1, <1>2, <1>3, <1>4, StartsTyped DEF StartsTyped, Init, Typed
<1>6. DebtBounded
  BY BucketAssumption, RateAssumption DEF Init, DebtBounded, NoBucket
<1> QED BY <1>5, <1>6 DEF TypedDebt

(* A reservation is granted only if the wait budget covers the debt it     *)
(* leaves.                                                                 *)
LEMMA DebtActs ==
  ASSUME TypedDebt, NEW c \in Callers, Acts(c)
  PROVE  DebtBounded'
<1> USE DEF TypedDebt
<1>1. CASE Acquire(c)
  <2>1. PICK rate \in Nat : rate = Setpoint(c) /\ rate <= MAX_RATE
    BY <1>1, AcquireCases, RateAssumption DEF Rates
  <2>2. PICK r \in BucketHash : r = Refill(bucket, rate)
    BY LevelFacts DEF Typed
  <2>3. PICK v \in Int : v = r.tokens
    BY DEF BucketHash
  <2>4. v = Level(bucket, rate)
    BY <2>2, <2>3 DEF Level
  <2>5. bucket.tokens <= v /\ v <= BURST
    BY <2>4, LevelFacts DEF Typed, DebtBounded
  <2>6. MAX_WAIT * MAX_RATE \in Nat /\ BURST \in Nat /\ COST \in Nat /\ bucket.tokens \in Int
        /\ MAX_WAIT \in Nat /\ MAX_RATE \in Nat
    BY BucketAssumption, RateAssumption DEF Typed, BucketHash
  <2>7. PICK k : Grant(c, k) \/ Reserve(c, k) \/ Refuse(c, k)
    BY <1>1, AcquireCases
  <2>8. [r EXCEPT !.tokens = @ - COST].tokens = v - COST
    BY <2>3 DEF BucketHash
  <2>9. CASE Grant(c, k)
    <3>1. bucket'.tokens = v - COST /\ v >= COST
      BY <2>1, <2>2, <2>4, <2>8, <2>9 DEF Grant
    <3> QED BY <2>5, <2>6, <3>1 DEF DebtBounded
  <2>10. CASE Reserve(c, k)
    <3>1. PICK w \in 1..MAX_WAIT : /\ bucket'.tokens = v - COST
                                   /\ COST - v <= w * rate
      BY <2>1, <2>2, <2>4, <2>8, <2>10 DEF Reserve
    <3>2. w * rate <= MAX_WAIT * MAX_RATE
      <4>1. w \in Nat /\ w <= MAX_WAIT
        BY <2>6
      <4>2. \A a, b, x, y \in Nat : a <= b /\ x <= y => a * x <= b * y
        OBVIOUS
      <4> QED BY <2>1, <2>6, <4>1, <4>2
    <3>3. w * rate \in Nat
      BY <2>6
    <3> QED BY <2>5, <2>6, <3>1, <3>2, <3>3 DEF DebtBounded
  <2>11. CASE Refuse(c, k)
    <3>1. bucket'.tokens = v
      BY <2>1, <2>2, <2>3, <2>11 DEF Refuse
    <3> QED BY <2>5, <2>6, <3>1 DEF DebtBounded
  <2> QED BY <2>7, <2>9, <2>10, <2>11
<1>2. CASE ~Acquire(c)
  <2>1. bucket' = bucket
    BY <1>2 DEF Acts, Step, Start, AskBreaker, ReadRate, Wake, Answer, SignalLoad,
                BankSuccess, Report, Vanish, Redis
  <2> QED BY <2>1 DEF DebtBounded
<1> QED BY <1>1, <1>2

LEMMA TypedNext ==
  ASSUME TypedDebt, [Next]_vars
  PROVE  TypedDebt'
<1> USE DEF TypedDebt
<1>1. ASSUME NEW c \in Callers, Acts(c) PROVE TypedDebt'
  BY <1>1, TypedActs, DebtActs
<1>2. CASE Scrape
  <2>1. Touch(br) \in BreakerHash
    BY TouchTyped DEF Typed
  <2> QED BY <1>2, <2>1 DEF Scrape, Typed, DebtBounded, AtPc, Has
<1>3. CASE Heal
  BY <1>3 DEF Heal, Redis, Typed, DebtBounded, AtPc, Has
<1>4. CASE Tick
  <2>1. bucket'.tokens = bucket.tokens
    BY <1>4, TickBucket DEF DebtBounded
  <2> QED BY <1>4, <2>1, TypedTick DEF DebtBounded
<1>5. CASE Expire
  <2>1. <<>> \in Seq(Nat) /\ Len(<<>>) <= RING_SIZE
    BY RateAssumption
  <2>2. DebtBounded'
    BY <1>5, BucketAssumption, RateAssumption DEF Expire, DebtBounded, NoBucket
  <2>3. Typed'
    BY <1>5, <2>1, StartsTyped DEF StartsTyped, Expire, Typed, AtPc, Has
  <2> QED BY <2>2, <2>3
<1>6. CASE UNCHANGED vars
  BY <1>6 DEF vars, Typed, DebtBounded, AtPc, Has
<1> QED BY <1>1, <1>2, <1>3, <1>4, <1>5, <1>6 DEF Next, Acts

LEMMA TypedInvariant == Spec => []TypedDebt
<1>1. TypedDebt /\ [Next]_vars => TypedDebt'
  BY TypedNext
<1> QED BY <1>1, TypedInit, PTL DEF Spec

(* The keys of the endpoint and the control state of its callers keep      *)
(* their shapes and ranges: in particular the breaker never counts more    *)
(* probes than it may hand out, the controller's rate stays between its    *)
(* bounds, and the latency ring is trimmed.                                *)
THEOREM CallsTyped == Spec => []CallTypeOK
<1>1. TypedDebt => CallTypeOK
  <2> SUFFICES ASSUME TypedDebt PROVE CallTypeOK
    OBVIOUS
  <2>1. /\ wired \subseteq {"breaker", "limiter", "controller"}
        /\ br.state \in BreakerState /\ br.probes \in 0..MAX_PROBES
        /\ br.probe_ok \in 0..(PROBE_SUCCESSES - 1)
        /\ br.window \in 0..WINDOW /\ br.opened \in 0..COOLDOWN
        /\ {br.failures, br.successes} \subseteq Nat
    BY DEF TypedDebt, Typed, BreakerHash
  <2>2. /\ bucket.tokens \in Int /\ bucket.elapsed \in Nat
        /\ aimd.rate \in MIN_RATE..MAX_RATE /\ aimd.cut \in 0..REFRACTORY
        /\ aimd.successes \in 0..(INCREASE_AFTER - 1)
        /\ Len(ring) <= RING_SIZE
    BY DEF TypedDebt, Typed, BucketHash, RateHash, Rates
  <2>3. ASSUME NEW c \in Callers
        PROVE  /\ call[c].pc \in Pcs
               /\ call[c].attempt \in 0..(MAX_ATTEMPTS - 1)
               /\ call[c].rate = 0 \/ call[c].rate \in MIN_RATE..MAX_RATE
               /\ call[c].left \in 0..(MAX_WAIT + JITTER) /\ call[c].lat \in 0..TIMEOUT
               /\ call[c].answer \in {"ok", "RETRY", "PERMANENT"}
    <3>1. call[c] \in CallState
      BY DEF TypedDebt, Typed
    <3> QED BY <3>1 DEF CallState, Rates
  <2> QED BY <2>1, <2>2, <2>3 DEF CallTypeOK, Pcs
<1> QED BY <1>1, TypedInvariant, PTL

(* The comment of the bucket's script: the debt is bounded by what the     *)
(* wait budget promises at the advertised rate, whatever rates the         *)
(* controller moves through while callers hold older ones.                 *)
THEOREM DebtIsBounded == Spec => []DebtBounded
<1>1. TypedDebt => DebtBounded
  BY DEF TypedDebt
<1> QED BY <1>1, TypedInvariant, PTL

-----------------------------------------------------------------------------
(* Probe slots.  Without a breaker nobody moves its hash, so that a report *)
(* that is not made cannot be missed.                                      *)

Owners(f) == {c \in Callers : f[c].probe}

SlotInv == SlotsHaveOwners /\ (~Has("breaker") => br.state = "CLOSED")

LEMMA OwnersFacts ==
  ASSUME NEW f
  PROVE  /\ IsFiniteSet(Owners(f)) /\ Cardinality(Owners(f)) \in Nat
         /\ (\A c \in Callers : f[c].pc = "idle" => ~f[c].probe) =>
              {c \in {d \in Callers : f[d].pc # "idle"} : f[c].probe} = Owners(f)
<1>1. Owners(f) \subseteq Callers /\ IsFiniteSet(Callers)
  BY CallAssumption DEF Owners
<1>2. IsFiniteSet(Owners(f)) /\ Cardinality(Owners(f)) \in Nat
  BY <1>1, FS_Subset, FS_CardinalityType
<1> QED BY <1>2 DEF Owners

LEMMA OwnersCounted ==
  /\ Typed => (SlotsHaveOwners <=>
       (br.state = "HALF_OPEN" /\ ~leaked => br.probes <= Cardinality(Owners(call))))
  /\ Typed' => (SlotsHaveOwners' <=>
       (br'.state = "HALF_OPEN" /\ ~leaked' => br'.probes <= Cardinality(Owners(call'))))
<1>1. ASSUME Typed PROVE {c \in InFlight : call[c].probe} = Owners(call)
  <2>1. \A c \in Callers : call[c].pc = "idle" => ~call[c].probe
    BY <1>1 DEF Typed
  <2>2. {c \in {d \in Callers : call[d].pc # "idle"} : call[c].probe} = Owners(call)
    BY <2>1, OwnersFacts
  <2> QED BY <2>2 DEF InFlight, AtPc
<1>2. ASSUME Typed' PROVE {c \in InFlight' : call'[c].probe} = Owners(call')
  <2>1. \A c \in Callers : call'[c].pc = "idle" => ~call'[c].probe
    BY <1>2 DEF Typed
  <2>2. {c \in {d \in Callers : call'[d].pc # "idle"} : call'[c].probe} = Owners(call')
    BY <2>1, OwnersFacts
  <2> QED BY <2>2 DEF InFlight, AtPc
<1> QED BY <1>1, <1>2 DEF SlotsHaveOwners

(* A step of one call moves at most that call in or out.                   *)
LEMMA OwnersMove ==
  ASSUME Typed, NEW c \in Callers, NEW k, Becomes(c, k)
  PROVE  /\ k.probe /\ ~call[c].probe =>
              Cardinality(Owners(call')) = Cardinality(Owners(call)) + 1
         /\ ~call[c].probe => Cardinality(Owners(call')) >= Cardinality(Owners(call))
         /\ (k.probe <=> call[c].probe) => Owners(call') = Owners(call)
         /\ Cardinality(Owners(call')) >= Cardinality(Owners(call)) - 1
<1>1. call'[c] = k /\ \A d \in Callers \ {c} : call'[d] = call[d]
  BY DEF Typed, Becomes
<1> DEFINE S == Owners(call)
           T == Owners(call')
<1>2. /\ S \subseteq Callers /\ \A d \in Callers : d \in S <=> call[d].probe
      /\ T \subseteq Callers /\ \A d \in Callers : d \in T <=> call'[d].probe
  BY Zenon DEF Owners
<1>3. /\ IsFiniteSet(S) /\ Cardinality(S) \in Nat
      /\ IsFiniteSet(T) /\ Cardinality(T) \in Nat
  BY OwnersFacts
<1> HIDE DEF S, T
<1>4. \A d \in Callers \ {c} : d \in S <=> d \in T
  BY <1>1, <1>2
<1>5. /\ c \in S <=> call[c].probe
      /\ c \in T <=> k.probe
  BY <1>1, <1>2
<1>6. CASE k.probe /\ ~call[c].probe
  <2>1. T = S \cup {c} /\ c \notin S
    BY <1>2, <1>4, <1>5, <1>6
  <2>2. Cardinality(T) = Cardinality(S) + 1
    BY <1>3, <2>1, FS_AddElement
  <2> QED BY <1>3, <1>6, <2>2 DEF S, T
<1>7. CASE k.probe <=> call[c].probe
  <2>1. T = S
    BY <1>2, <1>4, <1>5, <1>7
  <2>2. Cardinality(T) >= Cardinality(S) /\ Cardinality(T) >= Cardinality(S) - 1
    BY <1>3, <2>1
  <2>3. ~(k.probe /\ ~call[c].probe)
    BY <1>7
  <2> QED BY <2>1, <2>2, <2>3 DEF S, T
<1>8. CASE ~k.probe /\ call[c].probe
  <2>1. T = S \ {c} /\ c \in S
    BY <1>2, <1>4, <1>5, <1>8
  <2>2. Cardinality(T) = Cardinality(S) - 1
    BY <1>3, <2>1, FS_RemoveElement
  <2> QED BY <1>3, <1>8, <2>2 DEF S, T
<1> QED BY <1>6, <1>7, <1>8

LEMMA TouchClosed ==
  ASSUME NEW b \in BreakerHash, b.state = "CLOSED"
  PROVE  Touch(b).state = "CLOSED"
BY DEF Touch, BreakerHash

(* Looking at the breaker frees the slots of an older period.              *)
LEMMA TouchOwned ==
  ASSUME Typed, SlotInv, ~leaked, Touch(br).state = "HALF_OPEN"
  PROVE  Touch(br).probes <= Cardinality(Owners(call)) /\ Touch(br).probes \in Nat
<1>1. br \in BreakerHash /\ Cardinality(Owners(call)) \in Nat
  BY OwnersFacts DEF Typed
<1>2. \/ Touch(br).probes = 0
      \/ br.state = "HALF_OPEN" /\ Touch(br).probes = br.probes
  BY <1>1, TouchTyped
<1>3. br.state = "HALF_OPEN" => br.probes <= Cardinality(Owners(call))
  BY OwnersCounted DEF SlotInv
<1>4. Touch(br).probes \in 0..MAX_PROBES
  BY <1>1, TouchTyped DEF BreakerHash
<1>5. Touch(br).probes \in Nat
  BY <1>4, BreakerAssumption
<1> QED BY <1>1, <1>2, <1>3, <1>5

LEMMA SlotsOwned ==
  ASSUME Typed, NEW c \in Callers, Acts(c), SlotInv,
         br'.state = "HALF_OPEN", ~leaked'
  PROVE  br'.probes <= Cardinality(Owners(call'))
<1>1. br \in BreakerHash /\ Cardinality(Owners(call)) \in Nat /\ Cardinality(Owners(call')) \in Nat
  BY OwnersFacts DEF Typed
<1>2. br.state = "HALF_OPEN" /\ ~leaked => br.probes <= Cardinality(Owners(call))
  BY OwnersCounted DEF SlotInv
<1>3. CASE AskBreaker(c)
  <2>1. PICK k : /\ Becomes(c, k)
                 /\ Touch(br).state = "HALF_OPEN" /\ Admits(Touch(br)) => k.probe
    BY <1>3, AskSane
  <2>2. br' = Allow(br) /\ ~leaked /\ ~call[c].probe
    BY <1>3 DEF AskBreaker, AtPc, Typed
  <2>3. /\ Touch(br).state = "HALF_OPEN"
        /\ Allow(br).probes = Touch(br).probes + (IF Admits(Touch(br)) THEN 1 ELSE 0)
    BY <1>1, <2>2, AllowTyped
  <2>4. Touch(br).probes <= Cardinality(Owners(call)) /\ Touch(br).probes \in Nat
    BY <2>2, <2>3, TouchOwned
  <2>5. CASE Admits(Touch(br))
    <3>1. Cardinality(Owners(call')) = Cardinality(Owners(call)) + 1
      BY <2>1, <2>2, <2>3, <2>5, OwnersMove
    <3> QED BY <1>1, <2>2, <2>3, <2>4, <2>5, <3>1
  <2>6. CASE ~Admits(Touch(br))
    <3>1. Cardinality(Owners(call')) >= Cardinality(Owners(call))
      BY <2>1, <2>2, OwnersMove
    <3> QED BY <1>1, <2>2, <2>3, <2>4, <2>6, <3>1
  <2> QED BY <2>5, <2>6
<1>4. CASE \/ ReadRate(c) \/ Wake(c) \/ (\E a \in Answers : Answer(c, a))
           \/ SignalLoad(c) \/ BankSuccess(c)
  <2>1. PICK k : Becomes(c, k) /\ k.probe = call[c].probe
    BY <1>4, MiddleSane
  <2>2. Owners(call') = Owners(call)
    BY <2>1, OwnersMove
  <2>3. br' = br /\ leaked' = leaked
    BY <1>4 DEF ReadRate, Wake, Answer, SignalLoad, BankSuccess, Redis
  <2> QED BY <1>2, <2>2, <2>3
<1>5. CASE Acquire(c)
  <2>1. br' = br
    BY <1>5 DEF Acquire
  <2>2. PICK k : Becomes(c, k) /\ Sane(k) /\ (Grant(c, k) \/ Reserve(c, k) \/ Refuse(c, k))
    BY <1>5, AcquireCases
  <2>3. ~leaked /\ (k.probe <=> call[c].probe)
    <3>1. CASE Grant(c, k) \/ Reserve(c, k)
      BY <3>1 DEF Grant, Reserve
    <3>2. CASE Refuse(c, k)
      <4>1. ~k.probe
        BY <2>2, <3>2 DEF Refuse, Sane
      <4> QED BY <3>2, <4>1 DEF Refuse
    <3> QED BY <2>2, <3>1, <3>2
  <2>4. Owners(call') = Owners(call)
    BY <2>2, <2>3, OwnersMove
  <2> QED BY <1>2, <2>1, <2>3, <2>4
<1>6. CASE Start(c)
  <2>1. PICK k : Becomes(c, k) /\ ~k.probe
    BY <1>6, FreshCases
  <2>2. ~call[c].probe
    BY <1>6 DEF Start, AtPc, Typed
  <2>3. Owners(call') = Owners(call)
    BY <2>1, <2>2, OwnersMove
  <2>4. br' = br /\ leaked' = leaked
    BY <1>6 DEF Start, Redis
  <2> QED BY <1>2, <2>3, <2>4
<1>7. CASE Report(c)
  <2>1. PICK k : Becomes(c, k)
    BY <1>7, FreshCases
  <2>2. ~leaked
    BY <1>7 DEF Report
  <2>3. Has("breaker")
    BY <1>7 DEF Report, SlotInv
  <2>4. br' = Success(br)
    <3>1. br' = Success(br) \/ br' = Failure(br)
      BY <1>7, <2>3 DEF Report
    <3> QED BY <1>1, <3>1, FailureTyped
  <2>5. /\ Touch(br).state = "HALF_OPEN"
        /\ br'.probes = IF Touch(br).probes > 0 THEN Touch(br).probes - 1 ELSE 0
    BY <1>1, <2>4, SuccessTyped
  <2>6. Touch(br).probes <= Cardinality(Owners(call)) /\ Touch(br).probes \in Nat
    BY <2>2, <2>5, TouchOwned
  <2>7. Cardinality(Owners(call')) >= Cardinality(Owners(call)) - 1
    BY <2>1, OwnersMove
  <2> QED BY <1>1, <2>5, <2>6, <2>7
<1>8. CASE Vanish(c)
  BY <1>8 DEF Vanish
<1> QED BY <1>3, <1>4, <1>5, <1>6, <1>7, <1>8 DEF Acts, Step

LEMMA SlotNext ==
  ASSUME TypedDebt, TypedDebt', SlotInv, [Next]_vars
  PROVE  SlotInv'
<1>0. Typed /\ Typed' /\ br \in BreakerHash
  BY DEF TypedDebt, Typed
<1>1. ASSUME NEW c \in Callers, Acts(c) PROVE SlotInv'
  <2>1. SlotsHaveOwners'
    BY <1>0, <1>1, SlotsOwned, OwnersCounted
  <2>2. wired' = wired
    BY <1>0, <1>1, KeysTyped
  <2>3. ASSUME ~Has("breaker") PROVE br'.state = "CLOSED"
    <3>1. br.state = "CLOSED"
      BY <2>3 DEF SlotInv
    <3>2. br' = br \/ br' = Allow(br)
      BY <1>1, <2>3 DEF Acts, Step, Start, AskBreaker, ReadRate, Acquire, Wake, Answer,
                        SignalLoad, BankSuccess, Report, Vanish, Redis
    <3> QED BY <1>0, <3>1, <3>2, AllowTyped, TouchClosed
  <2> QED BY <2>1, <2>2, <2>3 DEF SlotInv, Has
<1>2. CASE Scrape
  <2>1. br' = Touch(br) /\ UNCHANGED <<call, leaked, wired>> /\ Has("breaker")
    BY <1>2 DEF Scrape
  <2>2. Owners(call') = Owners(call)
    BY <2>1 DEF Owners
  <2>3. SlotsHaveOwners'
    BY <1>0, <2>1, <2>2, TouchOwned, OwnersCounted
  <2> QED BY <2>1, <2>3 DEF SlotInv, Has
<1>3. CASE Heal
  BY <1>3 DEF Heal, Redis, SlotInv, SlotsHaveOwners, InFlight, AtPc, Has
<1>4. CASE Tick
  <2>1. br'.state = br.state /\ br'.probes = br.probes /\ leaked' = leaked /\ wired' = wired
    BY <1>0, <1>4, AgeTyped DEF Tick
  <2>2. Owners(call') = Owners(call)
    BY <1>0, <1>4, TickCalls DEF Owners
  <2>3. SlotsHaveOwners'
    BY <1>0, <2>1, <2>2, OwnersCounted DEF SlotInv
  <2> QED BY <2>1, <2>3 DEF SlotInv, Has
<1>5. CASE Expire
  BY <1>5, StartsTyped DEF StartsTyped, Expire, SlotInv, SlotsHaveOwners
<1>6. CASE UNCHANGED vars
  BY <1>6 DEF vars, SlotInv, SlotsHaveOwners, InFlight, AtPc, Has
<1> QED BY <1>1, <1>2, <1>3, <1>4, <1>5, <1>6 DEF Next, Acts

(* Every probe slot that a half-open breaker has counted belongs to a      *)
(* probe still in flight, as long as no admitted call ended unreported:    *)
(* the breaker never waits for the outcome of a probe that is over.        *)
THEOREM SlotsAreOwned == Spec => []SlotsHaveOwners
<1>1. Init => SlotInv
  BY StartsTyped DEF StartsTyped, Init, SlotInv, SlotsHaveOwners
<1>2. TypedDebt /\ TypedDebt' /\ SlotInv /\ [Next]_vars => SlotInv'
  BY SlotNext
<1>3. SlotInv => SlotsHaveOwners
  BY DEF SlotInv
<1> QED BY <1>1, <1>2, <1>3, TypedInvariant, PTL DEF Spec

-----------------------------------------------------------------------------
(* The limiter by itself.  The bucket is in debt only to callers that       *)
(* sleep (the first conjunct of Meters), nobody sleeps longer than the debt *)
(* in front of it, rounding and jitter explain (the second), and the meter  *)
(* covers the bucket and the reservations not yet used (the third).         *)

Sleepers(f) == {c \in Callers : f[c].pc = "sleep"}

\* The callers that still sleep after t ticks.
Waiting(f, t) == {c \in Callers : f[c].pc = "sleep" /\ f[c].left > t}

Count(f, t) == Cardinality(Waiting(f, t))

\* What the bucket will hold after t ticks, and the reservations then unused.
Worth(l, f, t) == l + t * MAX_RATE + COST * Count(f, t)

Meters(l, f, m) ==
  /\ \A t \in Nat : Worth(l, f, t) >= 0
  /\ \A t \in Nat : Waiting(f, t) # {} => Worth(l, f, t) < COST + JITTER * MAX_RATE
  /\ m >= l + COST * Cardinality(Sleepers(f))
  /\ 0 <= m /\ m <= MeterCap

MeterInv == Metered => Meters(Level(bucket, MAX_RATE), call, meter)

LEMMA Constants ==
  /\ COST \in Nat \ {0} /\ BURST \in Nat /\ BURST >= COST /\ MAX_RATE \in Nat \ {0}
  /\ JITTER \in Nat /\ JITTER * MAX_RATE \in Nat
  /\ MeterCap \in Nat /\ MeterCap = BURST + JITTER * MAX_RATE + MAX_RATE - 1
<1>1. MAX_RATE \in Nat \ {0}
  BY RateAssumption
<1>2. JITTER * MAX_RATE \in Nat
  BY <1>1, CallAssumption
<1> QED BY <1>1, <1>2, BucketAssumption, CallAssumption DEF MeterCap

LEMMA Products ==
  /\ \A t \in Nat : t * MAX_RATE \in Nat /\ (t + 1) * MAX_RATE = t * MAX_RATE + MAX_RATE
  /\ \A s, t \in Nat : s <= t => s * MAX_RATE <= t * MAX_RATE
  /\ \A n \in Nat : COST * n \in Nat /\ COST * (n + 1) = COST * n + COST
  /\ \A n \in Nat : n > 0 => COST * (n - 1) = COST * n - COST
  /\ \A n, m \in Nat : n <= m => COST * n <= COST * m
<1>1. COST \in Nat \ {0} /\ MAX_RATE \in Nat \ {0}
  BY Constants DEF Constants
<1>2. \A d \in Nat, s, t \in Nat : s <= t => s * d <= t * d /\ d * s <= d * t
  OBVIOUS
<1> QED BY <1>1, <1>2

LEMMA CountFacts ==
  ASSUME NEW f
  PROVE  /\ IsFiniteSet(Sleepers(f)) /\ Cardinality(Sleepers(f)) \in Nat
         /\ \A t \in Nat : /\ Waiting(f, t) \subseteq Sleepers(f)
                           /\ IsFiniteSet(Waiting(f, t)) /\ Count(f, t) \in Nat
                           /\ Waiting(f, t) # {} => Count(f, t) > 0
<1>1. Sleepers(f) \subseteq Callers /\ IsFiniteSet(Callers)
  BY CallAssumption DEF Sleepers
<1>2. IsFiniteSet(Sleepers(f)) /\ Cardinality(Sleepers(f)) \in Nat
  BY <1>1, FS_Subset, FS_CardinalityType
<1>3. ASSUME NEW t \in Nat
      PROVE  /\ Waiting(f, t) \subseteq Sleepers(f)
             /\ IsFiniteSet(Waiting(f, t)) /\ Count(f, t) \in Nat
             /\ Waiting(f, t) # {} => Count(f, t) > 0
  <2>1. Waiting(f, t) \subseteq Sleepers(f)
    BY DEF Waiting, Sleepers
  <2>2. IsFiniteSet(Waiting(f, t)) /\ Count(f, t) \in Nat
    BY <1>2, <2>1, FS_Subset, FS_CardinalityType DEF Count
  <2>3. Waiting(f, t) # {} => Count(f, t) # 0
    BY <2>2, FS_EmptySet DEF Count
  <2> QED BY <2>1, <2>2, <2>3
<1> QED BY <1>2, <1>3

(* Steps that leave the sleepers alone.                                    *)
LEMMA SleepersStay ==
  ASSUME Typed, NEW c \in Callers, NEW k, Becomes(c, k),
         call[c].pc # "sleep", k.pc # "sleep"
  PROVE  /\ Sleepers(call') = Sleepers(call)
         /\ \A t \in Nat : Waiting(call', t) = Waiting(call, t)
<1>1. call'[c] = k /\ \A d \in Callers \ {c} : call'[d] = call[d]
  BY DEF Typed, Becomes
<1>2. \A d \in Callers : /\ call'[d].pc = "sleep" <=> call[d].pc = "sleep"
                         /\ call'[d].pc = "sleep" => call'[d].left = call[d].left
  BY <1>1
<1> QED BY <1>2 DEF Sleepers, Waiting

LEMMA MetersStay ==
  ASSUME NEW f, NEW g, NEW l, NEW m, Meters(l, f, m), Sleepers(g) = Sleepers(f),
         \A t \in Nat : Waiting(g, t) = Waiting(f, t)
  PROVE  Meters(l, g, m)
BY DEF Meters, Worth, Count

(* A sleeper that is due sends its request.                                *)
LEMMA MetersWake ==
  ASSUME Typed, NEW c \in Callers, NEW k, Becomes(c, k),
         call[c].pc = "sleep", call[c].left = 0, k.pc # "sleep",
         NEW l \in Int, Meters(l, call, meter)
  PROVE  Meters(l, call', meter - COST)
<1> DEFINE n == Cardinality(Sleepers(call))
           w == Count(call, 0)
<1>1. call'[c] = k /\ \A d \in Callers \ {c} : call'[d] = call[d]
  BY DEF Typed, Becomes
<1>2. Sleepers(call') = Sleepers(call) \ {c} /\ c \in Sleepers(call)
  BY <1>1 DEF Sleepers
<1>3. \A t \in Nat : Waiting(call', t) = Waiting(call, t)
  <2>1. \A t \in Nat, d \in Callers : d \in Waiting(call', t) <=> d \in Waiting(call, t)
    BY <1>1 DEF Waiting
  <2>2. \A t \in Nat : Waiting(call', t) \subseteq Callers /\ Waiting(call, t) \subseteq Callers
    BY DEF Waiting
  <2> QED BY <2>1, <2>2
<1>4. c \notin Waiting(call, 0) /\ Waiting(call, 0) \subseteq Sleepers(call) \ {c}
  BY DEF Waiting, Sleepers
<1>5. n \in Nat /\ w \in Nat /\ IsFiniteSet(Sleepers(call))
  <2>1. 0 \in Nat /\ \A t \in Nat : Count(call, t) \in Nat
    BY CountFacts
  <2>2. Count(call, 0) \in Nat
    BY <2>1
  <2> QED BY <2>2, CountFacts
<1>6. Cardinality(Sleepers(call')) = n - 1
  BY <1>2, <1>5, FS_RemoveElement
<1>7. w <= n - 1
  <2>1. IsFiniteSet(Sleepers(call'))
    BY CountFacts
  <2> QED BY <1>2, <1>4, <1>6, <2>1, FS_Subset DEF Count
<1>8. /\ l + 0 * MAX_RATE + COST * w >= 0
      /\ meter >= l + COST * n /\ 0 <= meter /\ meter <= MeterCap /\ meter \in Int
  <2>1. Worth(l, call, 0) >= 0
    BY DEF Meters
  <2>2. meter \in Int
    BY DEF Typed
  <2> QED BY <2>1, <2>2 DEF Meters, Worth
<1>9. Cardinality(Sleepers(call')) \in Nat
  BY CountFacts
<1> HIDE DEF n, w
<1>10. n > 0
  BY <1>5, <1>6, <1>9
<1>11. /\ COST * (n - 1) = COST * n - COST /\ COST * w <= COST * (n - 1)
       /\ COST * n \in Nat /\ COST * w \in Nat /\ 0 * MAX_RATE = 0
  <2>1. n - 1 \in Nat
    BY <1>5, <1>10
  <2>2. COST * (n - 1) = COST * n - COST /\ COST * n \in Nat /\ COST * w \in Nat
    BY <1>5, <1>10, Products DEF Products
  <2>3. COST * w <= COST * (n - 1)
    BY <1>5, <1>7, <2>1, Products DEF Products
  <2>4. 0 * MAX_RATE = 0
    BY Constants DEF Constants
  <2> QED BY <2>2, <2>3, <2>4
<1>12. /\ meter - COST >= l + COST * (n - 1)
       /\ 0 <= meter - COST /\ meter - COST <= MeterCap
  BY <1>8, <1>11, Constants DEF Constants
<1> QED BY <1>3, <1>6, <1>12 DEF Meters, Worth, Count

(* A request that need not wait.                                           *)
LEMMA MetersGrant ==
  ASSUME NEW f, NEW l \in Int, NEW m \in Int, Meters(l, f, m), l >= COST
  PROVE  Meters(l - COST, f, m - COST)
<1>1. ASSUME NEW t \in Nat
      PROVE  /\ Worth(l - COST, f, t) >= 0
             /\ Waiting(f, t) # {} => Worth(l - COST, f, t) < COST + JITTER * MAX_RATE
  <2>1. PICK x \in Nat : x = t * MAX_RATE
    BY Products DEF Products
  <2>2. PICK y \in Nat : y = COST * Count(f, t)
    BY CountFacts, Products DEF Products
  <2>3. Waiting(f, t) # {} => l + x + y < COST + JITTER * MAX_RATE
    BY <2>1, <2>2 DEF Meters, Worth
  <2>4. Worth(l - COST, f, t) = l - COST + x + y
    BY <2>1, <2>2 DEF Worth
  <2> QED BY <2>3, <2>4, Constants DEF Constants
<1>2. PICK z \in Nat : z = COST * Cardinality(Sleepers(f))
  BY CountFacts, Products DEF Products
<1>3. m >= l + z /\ 0 <= m /\ m <= MeterCap
  BY <1>2 DEF Meters
<1>4. m - COST >= l - COST + z /\ 0 <= m - COST /\ m - COST <= MeterCap
  BY <1>3, Constants DEF Constants
<1> QED BY <1>1, <1>2, <1>4 DEF Meters

(* A reservation joins the sleepers.                                       *)
LEMMA MetersReserve ==
  ASSUME Typed, NEW c \in Callers, NEW k, Becomes(c, k), call[c].pc # "sleep",
         NEW l \in Int, Meters(l, call, meter),
         NEW w \in Nat \ {0}, NEW j \in 0..JITTER, k.pc = "sleep", k.left = w + j,
         COST - l <= w * MAX_RATE, (w - 1) * MAX_RATE < COST - l
  PROVE  Meters(l - COST, call', meter)
<1>1. call'[c] = k /\ \A d \in Callers \ {c} : call'[d] = call[d]
  BY DEF Typed, Becomes
<1>2. j \in Nat /\ j <= JITTER /\ w + j \in Nat
  BY Constants DEF Constants
<1>3. Sleepers(call') = Sleepers(call) \cup {c} /\ c \notin Sleepers(call)
  BY <1>1 DEF Sleepers
<1>4. Cardinality(Sleepers(call')) = Cardinality(Sleepers(call)) + 1
  BY <1>3, CountFacts, FS_AddElement
<1>5. ASSUME NEW t \in Nat, t < w + j
      PROVE  Count(call', t) = Count(call, t) + 1
  <2>1. Waiting(call', t) = Waiting(call, t) \cup {c} /\ c \notin Waiting(call, t)
    BY <1>1, <1>2, <1>5 DEF Waiting
  <2> QED BY <2>1, CountFacts, FS_AddElement DEF Count
<1>6. ASSUME NEW t \in Nat, ~(t < w + j)
      PROVE  Waiting(call', t) = Waiting(call, t)
  BY <1>1, <1>2, <1>6 DEF Waiting
<1>7. ASSUME NEW t \in Nat
      PROVE  /\ Worth(l - COST, call', t) >= 0
             /\ Waiting(call', t) # {} => Worth(l - COST, call', t) < COST + JITTER * MAX_RATE
  <2>1. PICK x \in Nat : x = t * MAX_RATE
    BY Products DEF Products
  <2>2. PICK n \in Nat : n = Count(call, t) /\ (Waiting(call, t) # {} => n > 0)
    BY CountFacts
  <2>3. PICK y \in Nat : y = COST * n /\ COST * (n + 1) = y + COST
    BY Products DEF Products
  <2>4. /\ l + x + y >= 0
        /\ Waiting(call, t) # {} => l + x + y < COST + JITTER * MAX_RATE
    BY <2>1, <2>2, <2>3 DEF Meters, Worth
  <2>5. CASE t < w + j
    <3>1. Worth(l - COST, call', t) = l + x + y
      <4>1. Worth(l - COST, call', t) = l - COST + x + (y + COST)
        BY <1>5, <2>1, <2>2, <2>3, <2>5 DEF Worth
      <4> QED BY <4>1, Constants DEF Constants
    <3>2. CASE Waiting(call, t) = {}
      <4>1. Count(call, t) = 0
        BY <3>2, FS_EmptySet DEF Count
      <4>2. y = 0
        BY <2>2, <2>3, <4>1, Constants DEF Constants
      <4>3. PICK u \in Nat : u = w - 1
        BY <1>2
      <4>4. x <= (u + j) * MAX_RATE
        <5>1. t <= u + j /\ u + j \in Nat
          BY <1>2, <2>5, <4>3
        <5> QED BY <2>1, <5>1, Products DEF Products
      <4>5. (u + j) * MAX_RATE = u * MAX_RATE + j * MAX_RATE
        BY <1>2, Constants DEF Constants
      <4>6. j * MAX_RATE <= JITTER * MAX_RATE /\ j * MAX_RATE \in Nat /\ u * MAX_RATE \in Nat
        BY <1>2, Products, Constants DEF Products, Constants
      <4>7. u * MAX_RATE < COST - l
        BY <4>3
      <4> QED BY <2>4, <3>1, <4>2, <4>4, <4>5, <4>6, <4>7, Constants DEF Constants
    <3>3. CASE Waiting(call, t) # {}
      BY <2>4, <3>1, <3>3
    <3> QED BY <3>2, <3>3
  <2>6. CASE ~(t < w + j)
    <3>1. Waiting(call', t) = Waiting(call, t)
      BY <1>6, <2>6
    <3>2. Worth(l - COST, call', t) = l - COST + x + y
      BY <2>1, <2>2, <2>3, <3>1 DEF Worth, Count
    <3>3. w * MAX_RATE <= x
      <4>1. w <= t
        BY <1>2, <2>6
      <4> QED BY <2>1, <4>1, Products DEF Products
    <3>4. w * MAX_RATE \in Nat
      BY Products DEF Products
    <3> QED BY <2>4, <3>1, <3>2, <3>3, <3>4, Constants DEF Constants
  <2> QED BY <2>5, <2>6
<1>8. PICK n \in Nat : n = Cardinality(Sleepers(call))
  BY CountFacts
<1>9. PICK z \in Nat : z = COST * n /\ COST * (n + 1) = z + COST
  BY Products DEF Products
<1>10. /\ meter >= l + z /\ 0 <= meter /\ meter <= MeterCap
  BY <1>8, <1>9 DEF Meters
<1>11. meter >= l - COST + (z + COST)
  BY <1>10, Constants DEF Typed, Constants
<1>12. meter >= l - COST + COST * Cardinality(Sleepers(call'))
  BY <1>4, <1>8, <1>9, <1>11
<1> QED BY <1>7, <1>10, <1>12 DEF Meters

(* A tick: everyone who sleeps has time left, so that the sleepers before  *)
(* it are those that the bound on waiting covers, and neither the bucket   *)
(* nor the meter is cut off too early.                                     *)
LEMMA MetersTick ==
  ASSUME Typed, Tick, NEW l \in Int, l <= BURST, Meters(l, call, meter),
         NEW v \in Int, v = IF l + MAX_RATE > BURST THEN BURST ELSE l + MAX_RATE
  PROVE  Meters(v, call', meter')
<1>1. \A c \in Callers :
        /\ call'[c].pc = call[c].pc
        /\ call[c].pc = "sleep" => call[c].left > 0 /\ call'[c].left = call[c].left - 1
  BY TickCalls DEF AtPc
<1>2. \A c \in Callers : call[c].pc = "sleep" => call[c].left \in Nat
  <2>1. \A c \in Callers : call[c].left \in 0..(MAX_WAIT + JITTER)
    BY DEF Typed, CallState
  <2> QED BY <2>1, BucketAssumption, CallAssumption
<1>3. \A t \in Nat : Waiting(call', t) = Waiting(call, t + 1)
  <2>1. \A t \in Nat, c \in Callers : c \in Waiting(call', t) <=> c \in Waiting(call, t + 1)
    BY <1>1, <1>2 DEF Waiting
  <2>2. \A t \in Nat : /\ Waiting(call', t) \subseteq Callers
                       /\ Waiting(call, t + 1) \subseteq Callers
    BY DEF Waiting
  <2> QED BY <2>1, <2>2
<1>4. Sleepers(call') = Sleepers(call) /\ Waiting(call, 0) = Sleepers(call)
  BY <1>1 DEF Sleepers, Waiting
<1>5. ASSUME NEW t \in Nat
      PROVE  /\ Worth(v, call', t) >= 0
             /\ Waiting(call', t) # {} => Worth(v, call', t) < COST + JITTER * MAX_RATE
  <2>1. PICK x \in Nat : x = t * MAX_RATE /\ (t + 1) * MAX_RATE = x + MAX_RATE
    BY Products DEF Products
  <2>2. PICK y \in Nat : y = COST * Count(call, t + 1)
    <3>1. t + 1 \in Nat
      OBVIOUS
    <3>2. Count(call, t + 1) \in Nat
      BY <3>1, CountFacts
    <3> QED BY <3>2, Products DEF Products
  <2>3. /\ l + (x + MAX_RATE) + y >= 0
        /\ Waiting(call, t + 1) # {} => l + (x + MAX_RATE) + y < COST + JITTER * MAX_RATE
    <3>1. t + 1 \in Nat
      OBVIOUS
    <3>2. Worth(l, call, t + 1) = l + (x + MAX_RATE) + y
      BY <2>1, <2>2 DEF Worth
    <3> QED BY <3>1, <3>2 DEF Meters
  <2>4. Worth(v, call', t) = v + x + y
    BY <1>3, <2>1, <2>2 DEF Worth, Count
  <2>5. v + x + y >= 0 /\ v + x + y <= l + (x + MAX_RATE) + y
    BY <2>3, Constants DEF Constants
  <2>6. Waiting(call', t) # {} => v + x + y < COST + JITTER * MAX_RATE
    BY <1>3, <2>3, <2>5, Constants DEF Constants
  <2> QED BY <2>4, <2>5, <2>6
<1>6. PICK n \in Nat : n = Cardinality(Sleepers(call))
  BY CountFacts
<1>7. PICK z \in Nat : z = COST * n
  BY Products DEF Products
<1>8. meter >= l + z /\ 0 <= meter /\ meter <= MeterCap /\ meter \in Int
  <2>1. meter \in Int
    BY DEF Typed
  <2> QED BY <1>6, <1>7, <2>1 DEF Meters
<1>9. v + z <= MeterCap
  <2>1. CASE Sleepers(call) = {}
    <3>1. z = 0
      BY <1>6, <1>7, <2>1, FS_EmptySet, Constants DEF Constants
    <3> QED BY <3>1, Constants DEF Constants
  <2>2. CASE Sleepers(call) # {}
    <3>1. 0 \in Nat /\ Waiting(call, 0) # {}
      BY <1>4, <2>2
    <3>2. Worth(l, call, 0) < COST + JITTER * MAX_RATE
      BY <3>1 DEF Meters
    <3>3. Worth(l, call, 0) = l + 0 * MAX_RATE + z
      BY <1>4, <1>6, <1>7 DEF Worth, Count
    <3>4. 0 * MAX_RATE = 0
      BY Constants DEF Constants
    <3> QED BY <3>2, <3>3, <3>4, Constants DEF Constants
  <2> QED BY <2>1, <2>2
<1>10. meter' = IF meter + MAX_RATE > MeterCap THEN MeterCap ELSE meter + MAX_RATE
  BY DEF Tick
<1>11. meter' >= v + z /\ 0 <= meter' /\ meter' <= MeterCap
  BY <1>8, <1>9, <1>10, Constants DEF Constants
<1>12. meter' >= v + COST * Cardinality(Sleepers(call'))
  BY <1>4, <1>6, <1>7, <1>11
<1> QED BY <1>5, <1>11, <1>12 DEF Meters

(* The level after a tick and after an answer of the limiter.              *)
LEMMA LevelTick ==
  ASSUME TypedDebt, Tick
  PROVE  LET l == Level(bucket, MAX_RATE)
         IN  Level(bucket', MAX_RATE) = IF l + MAX_RATE > BURST THEN BURST ELSE l + MAX_RATE
<1> DEFINE l == Level(bucket, MAX_RATE)
<1>1. /\ bucket \in BucketHash /\ bucket.tokens \in Int /\ bucket.elapsed \in Nat
      /\ bucket.tokens <= BURST
  BY DEF TypedDebt, Typed, BucketHash, DebtBounded
<1>2. MAX_RATE \in Nat \ {0} /\ BURST \in Nat
  BY Constants DEF Constants
<1>3. PICK e \in Nat : e = bucket.elapsed
  BY <1>1
<1>4. PICK b \in Int : b = bucket.tokens
  BY <1>1
<1>5. PICK x \in Nat : x = e * MAX_RATE /\ (e + 1) * MAX_RATE = x + MAX_RATE
  BY Products DEF Products
<1>6. l = IF b + x > BURST THEN BURST ELSE b + x
  BY <1>1, <1>2, <1>3, <1>4, <1>5, LevelFacts
<1>7. /\ bucket' \in BucketHash /\ bucket'.tokens = b
      /\ bucket'.elapsed = IF e < BURST - b THEN e + 1 ELSE e
  BY <1>1, <1>3, <1>4, TickBucket DEF TypedDebt
<1>8. Level(bucket', MAX_RATE) = IF b + bucket'.elapsed * MAX_RATE > BURST THEN BURST
                                 ELSE b + bucket'.elapsed * MAX_RATE
  BY <1>2, <1>7, LevelFacts
<1> HIDE DEF l
<1>9. CASE e < BURST - b
  <2>1. Level(bucket', MAX_RATE) = IF b + (x + MAX_RATE) > BURST THEN BURST
                                   ELSE b + (x + MAX_RATE)
    BY <1>5, <1>7, <1>8, <1>9
  <2> QED BY <1>2, <1>6, <2>1 DEF l
<1>10. CASE ~(e < BURST - b)
  <2>1. Level(bucket', MAX_RATE) = IF b + x > BURST THEN BURST ELSE b + x
    BY <1>5, <1>7, <1>8, <1>10
  <2>2. x >= e
    BY <1>2, <1>5
  <2>3. b + x >= BURST
    BY <1>2, <1>10, <2>2
  <2> QED BY <1>2, <1>6, <2>1, <2>3 DEF l
<1> QED BY <1>9, <1>10

LEMMA LevelAcquire ==
  ASSUME NEW b \in BucketHash, NEW rate \in Nat, NEW r, r = Refill(b, rate)
  PROVE  /\ Level(r, rate) = Level(b, rate)
         /\ Level([r EXCEPT !.tokens = @ - COST], rate) = Level(b, rate) - COST
<1>1. r \in BucketHash /\ r.tokens = Level(b, rate) /\ r.tokens \in Int /\ r.tokens <= BURST
  BY LevelFacts DEF Level
<1>2. r.elapsed = 0 /\ 0 * rate = 0
  BY DEF Refill
<1> DEFINE q == [r EXCEPT !.tokens = r.tokens - COST]
<1>3. r.tokens - COST \in Int /\ r.tokens - COST <= BURST
  BY <1>1, Constants DEF Constants
<1>4. q \in BucketHash /\ q.tokens = r.tokens - COST /\ q.elapsed = 0
  BY <1>1, <1>2, <1>3 DEF BucketHash
<1> HIDE DEF q
<1>5. ASSUME NEW s \in BucketHash, s.elapsed = 0, s.tokens <= BURST
      PROVE  Level(s, rate) = s.tokens
  <2>1. Level(s, rate) = IF s.tokens + s.elapsed * rate > BURST THEN BURST
                         ELSE s.tokens + s.elapsed * rate
    BY LevelFacts
  <2>2. s.elapsed * rate = 0 /\ s.tokens \in Int /\ BURST \in Nat
    BY <1>2, <1>5, Constants DEF Constants, BucketHash
  <2> QED BY <1>5, <2>1, <2>2
<1>6. Level(r, rate) = r.tokens /\ Level(q, rate) = r.tokens - COST
  BY <1>1, <1>2, <1>3, <1>4, <1>5
<1> QED BY <1>1, <1>6 DEF q

LEMMA MeterActs ==
  ASSUME TypedDebt, MeterInv, Metered, NEW c \in Callers, Acts(c)
  PROVE  Meters(Level(bucket', MAX_RATE), call', meter')
<1>1. Typed /\ bucket \in BucketHash /\ meter \in Int
  BY DEF TypedDebt, Typed
<1>2. PICK l \in Int : l = Level(bucket, MAX_RATE)
  BY <1>1, LevelFacts, Constants DEF Constants
<1>3. Meters(l, call, meter)
  BY <1>2 DEF MeterInv
<1>4. ~Has("breaker") /\ ~Has("controller")
  BY DEF Metered, Has
<1>5. CASE Acquire(c)
  <2>1. PICK k : Becomes(c, k) /\ (Grant(c, k) \/ Reserve(c, k) \/ Refuse(c, k))
    BY <1>1, <1>5, AcquireCases
  <2>2. Setpoint(c) = MAX_RATE /\ call[c].pc # "sleep"
    BY <1>4, <1>5 DEF Setpoint, Acquire, AtPc
  <2>3. PICK r : r = Refill(bucket, MAX_RATE)
    OBVIOUS
  <2>4. Level(r, MAX_RATE) = l /\ Level([r EXCEPT !.tokens = @ - COST], MAX_RATE) = l - COST
    BY <1>1, <1>2, <2>3, LevelAcquire, Constants DEF Constants
  <2>5. CASE Grant(c, k)
    <3>1. bucket' = [r EXCEPT !.tokens = @ - COST] /\ l >= COST /\ meter' = meter - COST
          /\ k.pc = "post"
      BY <1>2, <2>2, <2>3, <2>5 DEF Grant, Sent
    <3>2. Level(bucket', MAX_RATE) = l - COST
      BY <2>4, <3>1
    <3>3. Meters(l - COST, call, meter - COST)
      BY <1>1, <1>3, <3>1, MetersGrant
    <3>4. Meters(l - COST, call', meter - COST)
      BY <1>1, <2>1, <2>2, <3>1, <3>3, SleepersStay, MetersStay
    <3> QED BY <3>1, <3>2, <3>4
  <2>6. CASE Reserve(c, k)
    <3>1. PICK w \in 1..MAX_WAIT, j \in 0..JITTER :
            /\ bucket' = [r EXCEPT !.tokens = @ - COST]
            /\ COST - l <= w * MAX_RATE /\ (w - 1) * MAX_RATE < COST - l
            /\ k.pc = "sleep" /\ k.left = w + j /\ meter' = meter
      BY <1>2, <2>2, <2>3, <2>6 DEF Reserve
    <3>2. w \in Nat \ {0}
      BY BucketAssumption
    <3>3. Level(bucket', MAX_RATE) = l - COST
      BY <2>4, <3>1
    <3>4. Meters(l - COST, call', meter)
      BY <1>1, <1>3, <2>1, <2>2, <3>1, <3>2, MetersReserve
    <3> QED BY <3>1, <3>3, <3>4
  <2>7. CASE Refuse(c, k)
    <3>1. bucket' = r /\ meter' = meter /\ k.pc = "idle"
      BY <2>2, <2>3, <2>7 DEF Refuse
    <3>2. Meters(l, call', meter)
      BY <1>1, <1>3, <2>1, <2>2, <3>1, SleepersStay, MetersStay
    <3> QED BY <2>4, <3>1, <3>2
  <2> QED BY <2>1, <2>5, <2>6, <2>7
<1>6. CASE Wake(c)
  <2>1. PICK k : Becomes(c, k) /\ k.pc # "sleep"
    BY <1>1, <1>6, MiddleSane
  <2>2. call[c].pc = "sleep" /\ call[c].left = 0 /\ bucket' = bucket /\ meter' = meter - COST
    BY <1>6 DEF Wake, AtPc, Redis, Sent
  <2>3. Meters(l, call', meter - COST)
    BY <1>1, <1>3, <2>1, <2>2, MetersWake
  <2> QED BY <1>2, <2>2, <2>3
<1>7. CASE ~Acquire(c) /\ ~Wake(c)
  <2>1. /\ bucket' = bucket /\ meter' = meter /\ call[c].pc # "sleep"
    BY <1>4, <1>7 DEF Acts, Step, Start, AskBreaker, ReadRate, Answer, SignalLoad,
                      BankSuccess, Report, Vanish, Redis, AtPc
  <2>2. PICK k : Becomes(c, k) /\ k.pc # "sleep"
    BY <1>1, <1>7, FreshCases, AskSane, MiddleSane DEF Acts, Step
  <2>3. Meters(l, call', meter)
    BY <1>1, <1>3, <2>1, <2>2, SleepersStay, MetersStay
  <2> QED BY <1>2, <2>1, <2>3
<1> QED BY <1>5, <1>6, <1>7

LEMMA MeterNext ==
  ASSUME TypedDebt, MeterInv, [Next]_vars
  PROVE  MeterInv'
<1> SUFFICES ASSUME Metered' PROVE Meters(Level(bucket', MAX_RATE), call', meter')
  BY DEF MeterInv
<1>1. Typed /\ bucket \in BucketHash /\ meter \in Int
  BY DEF TypedDebt, Typed
<1>2. wired' = wired
  BY <1>1, KeysTyped DEF Next, Acts, Scrape, Heal, Tick, Expire, vars
<1>3. Metered
  BY <1>2 DEF Metered
<1>4. PICK l \in Int : l = Level(bucket, MAX_RATE) /\ l <= BURST
  BY <1>1, LevelFacts, Constants DEF Constants
<1>5. Meters(l, call, meter)
  BY <1>3, <1>4 DEF MeterInv
<1>6. ASSUME NEW c \in Callers, Acts(c) PROVE Meters(Level(bucket', MAX_RATE), call', meter')
  BY <1>3, <1>6, MeterActs
<1>7. CASE Scrape \/ Heal \/ UNCHANGED vars
  <2>1. bucket' = bucket /\ call' = call /\ meter' = meter
    BY <1>7 DEF Scrape, Heal, Redis, vars
  <2> QED BY <1>4, <1>5, <2>1
<1>8. CASE Tick
  <2>1. PICK v \in Int : v = IF l + MAX_RATE > BURST THEN BURST ELSE l + MAX_RATE
    BY Constants DEF Constants
  <2>2. Level(bucket', MAX_RATE) = v
    BY <1>4, <1>8, <2>1, LevelTick
  <2> QED BY <1>1, <1>4, <1>5, <1>8, <2>1, <2>2, MetersTick
<1>9. CASE Expire
  <2>1. call' = call /\ meter' = meter /\ bucket' = NoBucket
        /\ bucket.elapsed = BURST - bucket.tokens
    BY <1>9 DEF Expire, FullAfter
  <2>2. l = BURST
    <3>1. PICK e \in Nat, b \in Int : e = bucket.elapsed /\ b = bucket.tokens
      BY <1>1 DEF BucketHash
    <3>2. l = IF b + e * MAX_RATE > BURST THEN BURST ELSE b + e * MAX_RATE
      BY <1>1, <1>4, <3>1, LevelFacts, Constants DEF Constants
    <3>3. e * MAX_RATE >= e /\ e * MAX_RATE \in Nat
      BY Constants DEF Constants
    <3> QED BY <2>1, <3>1, <3>2, <3>3, Constants DEF Constants
  <2>3. Level(NoBucket, MAX_RATE) = BURST
    <3>1. NoBucket \in BucketHash /\ NoBucket.tokens = BURST
      BY Constants DEF Constants, NoBucket, BucketHash
    <3>2. BURST <= Level(NoBucket, MAX_RATE) /\ Level(NoBucket, MAX_RATE) <= BURST
          /\ Level(NoBucket, MAX_RATE) \in Int
      BY <3>1, LevelFacts, Constants DEF Constants
    <3> QED BY <3>2, Constants DEF Constants
  <2> QED BY <1>5, <2>1, <2>2, <2>3
<1> QED BY <1>6, <1>7, <1>8, <1>9 DEF Next, Acts

LEMMA MeterInit == Init => MeterInv
<1> SUFFICES ASSUME Init PROVE Meters(Level(bucket, MAX_RATE), call, meter)
  BY DEF MeterInv
<1>1. bucket = NoBucket /\ meter = MeterCap /\ bucket \in BucketHash /\ bucket.tokens = BURST
  BY Constants DEF Constants, Init, NoBucket, BucketHash
<1>2. Level(bucket, MAX_RATE) = BURST
  <2>1. BURST <= Level(bucket, MAX_RATE) /\ Level(bucket, MAX_RATE) <= BURST
        /\ Level(bucket, MAX_RATE) \in Int
    BY <1>1, LevelFacts, Constants DEF Constants
  <2> QED BY <2>1, Constants DEF Constants
<1>3. \A c \in Callers : call[c].pc = "idle"
  BY StartsTyped DEF StartsTyped, Init
<1>4. Sleepers(call) = {} /\ \A t \in Nat : Waiting(call, t) = {}
  BY <1>3 DEF Sleepers, Waiting
<1>5. Cardinality(Sleepers(call)) = 0 /\ \A t \in Nat : Count(call, t) = 0
  BY <1>4, FS_EmptySet DEF Count
<1>6. \A t \in Nat : Worth(BURST, call, t) >= 0
  <2>1. \A t \in Nat : t * MAX_RATE \in Nat
    BY Products DEF Products
  <2>2. COST * 0 = 0 /\ BURST \in Nat
    BY Constants DEF Constants
  <2>3. \A t \in Nat : Worth(BURST, call, t) = BURST + t * MAX_RATE + COST * 0
    BY <1>5 DEF Worth
  <2> QED BY <2>1, <2>2, <2>3
<1>7. meter >= BURST + COST * Cardinality(Sleepers(call)) /\ 0 <= meter /\ meter <= MeterCap
  <2>1. COST * 0 = 0
    BY Constants DEF Constants
  <2> QED BY <1>1, <1>5, <2>1, Constants DEF Constants
<1> QED BY <1>2, <1>4, <1>6, <1>7 DEF Meters

(* A caller of acquire() reserves a slot, sleeps once and sends without    *)
(* asking again.  With the limiter alone, the requests of all callers      *)
(* together still conform to a bucket of the advertised rate, whose burst  *)
(* is larger only by what rounding a wait up and jitter can push together. *)
THEOREM RequestsConform == Spec => []SendsConform
<1>1. TypedDebt /\ MeterInv /\ [Next]_vars => MeterInv'
  BY MeterNext
<1>2. MeterInv => SendsConform
  BY DEF MeterInv, Meters, SendsConform
<1> QED BY <1>1, <1>2, MeterInit, TypedInvariant, PTL DEF Spec

=============================================================================

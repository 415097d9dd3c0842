---------------------------- MODULE RenewalProofs ----------------------------
(***************************************************************************)
(* The theorems about the two components whose keys live only while they   *)
(* are renewed.  FleetMetrics: whatever the fleet counts is in one place,  *)
(* and a live worker stays visible over a flush that raises.  Expiry: the  *)
(* hashes of a job under way do not expire.                                *)
(***************************************************************************)
EXTENDS FleetMetrics, Expiry, TLAPS

(* The provers a leaf that names none is given to, and in which order.     *)
USE SMT, ZenonT(30), SMTT(10), SMTT(20)

(* Visibility.  After its last report a worker's keys age with its clock;  *)
(* Late counts the intervals that have begun since, so that what is left   *)
(* of a ttl covers the rest of the current one.                            *)
Late(w) == missed[w] + (IF after[w] = "none" THEN 1 ELSE 2)

Clocks ==
  /\ due \in [Workers -> 0..INTERVAL] /\ missed \in [Workers -> Nat \union {None}]
  /\ alive \in [Workers -> 0..TTL] /\ gauge \in [Workers -> 0..Forever]
  /\ after \in [Workers -> {"none", "hset", "expire", "beat"}]
  /\ up \in [Workers -> BOOLEAN]

Covered(w) ==
  /\ after[w] # "none" => up[w] /\ due[w] = INTERVAL
  /\ after[w] = "beat" => gauge[w] = TTL
  /\ missed[w] # None => up[w]
  /\ missed[w] \in {0, 1} => /\ alive[w] >= due[w] + TTL - Late(w) * INTERVAL
                             /\ gauge[w] >= due[w] + TTL - Late(w) * INTERVAL

ClockInv == Clocks /\ \A w \in Workers : Covered(w)

(* The variables the invariant speaks of, for a worker that a step leaves  *)
(* alone.                                                                  *)
Same(w) ==
  /\ after'[w] = after[w] /\ due'[w] = due[w] /\ missed'[w] = missed[w]
  /\ gauge'[w] = gauge[w] /\ alive'[w] = alive[w]

LEMMA SameCovered ==
  ASSUME NEW w, Covered(w), Same(w), up[w] => up'[w] PROVE Covered(w)'
BY DEF Covered, Same, Late

LEMMA Times ==
  /\ 1 * INTERVAL = INTERVAL /\ 2 * INTERVAL = INTERVAL + INTERVAL
  /\ 3 * INTERVAL = INTERVAL + INTERVAL + INTERVAL /\ 0 + 1 = 1 /\ 0 + 2 = 2
  /\ 1 + 1 = 2 /\ 1 + 2 = 3 /\ INTERVAL \in Nat /\ TTL \in Nat /\ INTERVAL > 0
BY MetricsAssumption

(* The invariant, with the three values of Late spelt out.                 *)
LEMMA CoveredFacts ==
  ASSUME NEW w \in Workers, Clocks, Covered(w)
  PROVE  /\ missed[w] = 0 /\ after[w] = "none" =>
              alive[w] >= due[w] + TTL - INTERVAL /\ gauge[w] >= due[w] + TTL - INTERVAL
         /\ missed[w] = 0 /\ after[w] # "none" =>
              alive[w] >= TTL - INTERVAL /\ gauge[w] >= TTL - INTERVAL
         /\ missed[w] = 1 /\ after[w] = "none" =>
              /\ alive[w] >= due[w] + TTL - (INTERVAL + INTERVAL)
              /\ gauge[w] >= due[w] + TTL - (INTERVAL + INTERVAL)
         /\ missed[w] = 1 /\ after[w] # "none" =>
              /\ alive[w] >= TTL - (INTERVAL + INTERVAL)
              /\ gauge[w] >= TTL - (INTERVAL + INTERVAL)
<1>1. due[w] \in Nat /\ alive[w] \in Nat /\ gauge[w] \in Nat
  BY MetricsAssumption DEF Clocks, Forever
<1>2. missed[w] = 0 => Late(w) = IF after[w] = "none" THEN 1 ELSE 2
  BY DEF Late
<1>3. missed[w] = 1 => Late(w) = IF after[w] = "none" THEN 2 ELSE 3
  BY DEF Late
<1> QED BY <1>1, <1>2, <1>3, Times DEF Covered

LEMMA VisibleWhileCovered ==
  ASSUME NEW w \in Workers, Clocks, Covered(w), 2 * INTERVAL < TTL, missed[w] \in {0, 1}
  PROVE  alive[w] > 0 /\ gauge[w] > 0
<1>1. due[w] \in Nat /\ alive[w] \in Nat /\ gauge[w] \in Nat
  BY MetricsAssumption DEF Clocks, Forever
<1> QED BY <1>1, CoveredFacts, Times

(* To re-establish it for the worker that takes the step.                  *)
LEMMA CoveredNext ==
  ASSUME NEW w \in Workers, Clocks',
         after'[w] # "none" => up'[w] /\ due'[w] = INTERVAL,
         after'[w] = "beat" => gauge'[w] = TTL,
         missed'[w] # None => up'[w],
         missed'[w] = 0 /\ after'[w] = "none" =>
           alive'[w] >= due'[w] + TTL - INTERVAL /\ gauge'[w] >= due'[w] + TTL - INTERVAL,
         missed'[w] = 0 /\ after'[w] # "none" =>
           alive'[w] >= TTL - INTERVAL /\ gauge'[w] >= TTL - INTERVAL,
         missed'[w] = 1 /\ after'[w] = "none" =>
           /\ alive'[w] >= due'[w] + TTL - (INTERVAL + INTERVAL)
           /\ gauge'[w] >= due'[w] + TTL - (INTERVAL + INTERVAL),
         missed'[w] = 1 /\ after'[w] # "none" =>
           /\ alive'[w] >= TTL - (INTERVAL + INTERVAL)
           /\ gauge'[w] >= TTL - (INTERVAL + INTERVAL)
  PROVE  Covered(w)'
<1>1. due'[w] \in Nat /\ alive'[w] \in Nat /\ gauge'[w] \in Nat
  BY MetricsAssumption DEF Clocks, Forever
<1>2. missed'[w] = 0 => Late(w)' = IF after'[w] = "none" THEN 1 ELSE 2
  BY DEF Late
<1>3. missed'[w] = 1 => Late(w)' = IF after'[w] = "none" THEN 2 ELSE 3
  BY DEF Late
<1>4. missed'[w] \in {0, 1} => /\ alive'[w] >= due'[w] + TTL - Late(w)' * INTERVAL
                               /\ gauge'[w] >= due'[w] + TTL - Late(w)' * INTERVAL
  BY <1>1, <1>2, <1>3, Times
<1> QED BY <1>4 DEF Covered

(* The others, and what is used of the acting worker.                      *)
Alone(w) == \A v \in Workers \ {w} : Same(v) /\ (up[v] => up'[v])

LEMMA AloneCovered ==
  ASSUME ClockInv, NEW w \in Workers, Alone(w), Clocks', Covered(w)'
  PROVE  ClockInv'
<1>1. \A v \in Workers \ {w} : Covered(v)'
  BY SameCovered DEF ClockInv, Alone
<1> QED BY ZenonT(60), <1>1 DEF ClockInv

LEMMA Ranges ==
  ASSUME Clocks, NEW w \in Workers
  PROVE  /\ due[w] \in Nat /\ due[w] <= INTERVAL /\ alive[w] \in Nat /\ alive[w] <= TTL
         /\ gauge[w] \in Nat /\ gauge[w] <= TTL + 1 /\ missed[w] \in Nat \union {None}
         /\ None = -1 /\ None \notin {0, 1} /\ TTL \in Nat /\ INTERVAL \in Nat
         /\ TTL \in 0..TTL /\ TTL \in 0..Forever /\ Forever \in 0..Forever
         /\ INTERVAL \in 0..INTERVAL /\ Forever = TTL + 1 /\ 0 \in Nat \union {None}
BY MetricsAssumption DEF Clocks, Forever, None

LEMMA FlushCovers == ASSUME ClockInv, NEW w \in Workers, Flush(w) PROVE ClockInv'
<1>1. Clocks /\ Covered(w)
  BY ZenonT(60) DEF ClockInv
<1>2. /\ after' = [after EXCEPT ![w] = "hset"] /\ due' = [due EXCEPT ![w] = INTERVAL]
      /\ up' = up /\ missed' = missed /\ gauge' = gauge /\ alive' = alive
      /\ after[w] = "none" /\ due[w] = 0 /\ up[w]
  BY ZenonT(60) DEF Flush, redis
<1>3. Clocks' /\ after'[w] = "hset" /\ due'[w] = INTERVAL /\ Alone(w)
  BY ZenonT(60), <1>1, <1>2, Ranges DEF Clocks, Alone, Same
<1>4. Covered(w)'
  BY <1>1, <1>2, <1>3, CoveredFacts, Ranges, CoveredNext
<1> QED BY <1>3, <1>4, AloneCovered

LEMMA SetGaugesCovers == ASSUME ClockInv, NEW w \in Workers, SetGauges(w) PROVE ClockInv'
<1>1. Clocks /\ Covered(w)
  BY ZenonT(60) DEF ClockInv
<1> DEFINE g == IF gauge[w] = 0 THEN Forever ELSE gauge[w]
<1>2. /\ after' = [after EXCEPT ![w] = "expire"] /\ gauge' = [gauge EXCEPT ![w] = g]
      /\ up' = up /\ missed' = missed /\ due' = due /\ alive' = alive /\ after[w] = "hset"
  BY DEF SetGauges
<1>3. g \in 0..Forever /\ g >= gauge[w] /\ g \in Nat
  BY <1>1, Ranges DEF Clocks
<1> HIDE DEF g
<1>4. Clocks' /\ after'[w] = "expire" /\ gauge'[w] = g /\ Alone(w)
  BY ZenonT(60), <1>1, <1>2, <1>3, Ranges DEF Clocks, Alone, Same
<1>5. up[w] /\ due[w] = INTERVAL
  BY <1>1, <1>2 DEF Covered
<1>6. Covered(w)'
  BY <1>1, <1>2, <1>3, <1>4, <1>5, CoveredFacts, Ranges, CoveredNext
<1> QED BY ZenonT(60), <1>4, <1>6, AloneCovered

LEMMA ExpireGaugesCovers == ASSUME ClockInv, NEW w \in Workers, ExpireGauges(w) PROVE ClockInv'
<1>1. Clocks /\ Covered(w)
  BY ZenonT(60) DEF ClockInv
<1>2. /\ after' = [after EXCEPT ![w] = "beat"] /\ gauge' = [gauge EXCEPT ![w] = TTL]
      /\ up' = up /\ missed' = missed /\ due' = due /\ alive' = alive /\ after[w] = "expire"
  BY ZenonT(60) DEF ExpireGauges
<1>3. Clocks' /\ after'[w] = "beat" /\ gauge'[w] = TTL /\ Alone(w)
  BY ZenonT(60), <1>1, <1>2, Ranges DEF Clocks, Alone, Same
<1>4. up[w] /\ due[w] = INTERVAL
  BY ZenonT(60), <1>1, <1>2 DEF Covered
<1>5. Covered(w)'
  BY <1>1, <1>2, <1>3, <1>4, CoveredFacts, Ranges, CoveredNext
<1> QED BY <1>3, <1>5, AloneCovered

LEMMA BeatCovers == ASSUME ClockInv, NEW w \in Workers, Beat(w) PROVE ClockInv'
<1>1. Clocks /\ Covered(w)
  BY ZenonT(60) DEF ClockInv
<1>2. /\ after' = [after EXCEPT ![w] = "none"] /\ alive' = [alive EXCEPT ![w] = TTL]
      /\ missed' = [missed EXCEPT ![w] = 0]
      /\ up' = up /\ gauge' = gauge /\ due' = due /\ after[w] = "beat"
  BY ZenonT(60) DEF Beat
<1>3. Clocks' /\ after'[w] = "none" /\ alive'[w] = TTL /\ missed'[w] = 0 /\ Alone(w)
  BY ZenonT(60), <1>1, <1>2, Ranges DEF Clocks, Alone, Same
<1>4. up[w] /\ due[w] = INTERVAL /\ gauge[w] = TTL
  BY ZenonT(60), <1>1, <1>2 DEF Covered
<1>5. Covered(w)'
  BY <1>1, <1>2, <1>3, <1>4, Ranges, CoveredNext
<1> QED BY <1>3, <1>5, AloneCovered

LEMMA TearCovers == ASSUME ClockInv, NEW w \in Workers, Tear(w) PROVE ClockInv'
<1>1. Clocks /\ Covered(w)
  BY ZenonT(60) DEF ClockInv
<1> DEFINE m == IF missed[w] = None THEN None ELSE missed[w] + 1
<1>2. /\ after' = [after EXCEPT ![w] = "none"] /\ missed' = [missed EXCEPT ![w] = m]
      /\ up' = up /\ gauge' = gauge /\ due' = due /\ alive' = alive /\ after[w] # "none"
  BY DEF Tear, redis
<1>3. /\ m \in Nat \union {None} /\ (m = 1 => missed[w] = 0) /\ m # 0
      /\ (m # None => missed[w] # None)
  BY <1>1, Ranges
<1> HIDE DEF m
<1>4. Clocks' /\ after'[w] = "none" /\ missed'[w] = m /\ Alone(w)
  BY ZenonT(60), <1>1, <1>2, <1>3, Ranges DEF Clocks, Alone, Same
<1>5. due[w] = INTERVAL /\ (missed[w] # None => up[w])
  BY ZenonT(60), <1>1, <1>2 DEF Covered
<1>6. Covered(w)'
  BY <1>1, <1>2, <1>3, <1>4, <1>5, CoveredFacts, Ranges, CoveredNext
<1> QED BY <1>4, <1>6, AloneCovered

LEMMA ExitCovers == ASSUME ClockInv, NEW w \in Workers, Exit(w) PROVE ClockInv'
<1>1. Clocks /\ Covered(w)
  BY ZenonT(60) DEF ClockInv
<1>2. /\ after' = [after EXCEPT ![w] = "none"] /\ missed' = [missed EXCEPT ![w] = None]
      /\ due' = [due EXCEPT ![w] = INTERVAL] /\ up' = [up EXCEPT ![w] = FALSE]
      /\ gauge' = gauge /\ alive' = alive
  BY ZenonT(60) DEF Exit, redis
<1>3. Clocks' /\ after'[w] = "none" /\ missed'[w] = None /\ Alone(w)
  BY <1>1, <1>2, Ranges DEF Clocks, Alone, Same
<1>4. Covered(w)'
  BY ZenonT(60), <1>1, <1>3, Ranges DEF Covered
<1> QED BY ZenonT(60), <1>3, <1>4, AloneCovered

LEMMA RestartCovers == ASSUME ClockInv, NEW w \in Workers, Restart(w) PROVE ClockInv'
<1>1. Clocks /\ Covered(w)
  BY ZenonT(60) DEF ClockInv
<1>2. /\ after' = after /\ missed' = missed /\ due' = due /\ gauge' = gauge /\ alive' = alive
      /\ up' = [up EXCEPT ![w] = TRUE]
  BY DEF Restart, redis
<1>3. Clocks' /\ Same(w) /\ up'[w] /\ Alone(w)
  BY <1>1, <1>2 DEF Clocks, Alone, Same
<1>4. Covered(w)'
  BY ZenonT(60), <1>1, <1>3, SameCovered
<1> QED BY <1>3, <1>4, AloneCovered

(* A tick takes one from what is left of each ttl, and one from the        *)
(* interval it has to cover.                                               *)
LEMMA TickCovers == ASSUME ClockInv, Tick, 2 * INTERVAL < TTL PROVE ClockInv'
<1>1. Clocks /\ \A w \in Workers : Covered(w)
  BY DEF ClockInv
<1>2. /\ due' = [w \in Workers |-> IF up[w] THEN due[w] - 1 ELSE due[w]]
      /\ gauge' = [w \in Workers |-> Aged(gauge[w])]
      /\ alive' = [w \in Workers |-> Aged(alive[w])]
      /\ up' = up /\ after' = after /\ missed' = missed
      /\ \A w \in Workers : after[w] = "none" /\ (up[w] => due[w] > 0)
  BY ZenonT(60) DEF Tick
<1>3. \A w \in Workers : /\ Aged(gauge[w]) \in 0..Forever /\ Aged(alive[w]) \in 0..TTL
                         /\ (gauge[w] > 0 => Aged(gauge[w]) >= gauge[w] - 1)
                         /\ (alive[w] > 0 => Aged(alive[w]) >= alive[w] - 1)
  <2>1. \A m \in Nat : \A n \in 0..m : Aged(n) \in 0..m /\ (n > 0 => Aged(n) >= n - 1)
    BY DEF Aged
  <2>2. \A w \in Workers : gauge[w] \in 0..Forever /\ alive[w] \in 0..TTL
    BY ZenonT(60), <1>1 DEF Clocks
  <2>3. TTL \in Nat /\ Forever \in Nat
    BY MetricsAssumption DEF Forever
  <2> QED BY ZenonT(60), <2>1, <2>2, <2>3
<1>4. \A w \in Workers : (IF up[w] THEN due[w] - 1 ELSE due[w]) \in 0..INTERVAL
  BY <1>1, <1>2, Ranges
<1>5. Clocks'
  BY <1>1, <1>2, <1>3, <1>4 DEF Clocks
<1>6. SUFFICES ASSUME NEW w \in Workers PROVE Covered(w)'
  BY ZenonT(60), <1>5 DEF ClockInv
<1>7. /\ after'[w] = "none" /\ up'[w] = up[w] /\ missed'[w] = missed[w]
      /\ gauge'[w] = Aged(gauge[w]) /\ alive'[w] = Aged(alive[w])
      /\ (up[w] => due'[w] = due[w] - 1) /\ after[w] = "none"
  BY ZenonT(60), <1>2
<1>8. missed[w] # None => up[w]
  BY <1>1 DEF Covered
<1>9. missed[w] \in {0, 1} => alive[w] > 0 /\ gauge[w] > 0
  BY ZenonT(60), <1>1, VisibleWhileCovered
<1>10. /\ Aged(gauge[w]) \in Nat /\ Aged(alive[w]) \in Nat
  BY <1>3
<1>11. /\ missed[w] = 0 => /\ alive'[w] >= due'[w] + TTL - INTERVAL
                           /\ gauge'[w] >= due'[w] + TTL - INTERVAL
       /\ missed[w] = 1 => /\ alive'[w] >= due'[w] + TTL - (INTERVAL + INTERVAL)
                           /\ gauge'[w] >= due'[w] + TTL - (INTERVAL + INTERVAL)
  BY <1>1, <1>3, <1>7, <1>8, <1>9, <1>10, CoveredFacts, Ranges
<1> QED BY <1>5, <1>7, <1>8, <1>11, CoveredNext

LEMMA QuietCovers ==
  ASSUME ClockInv, UNCHANGED <<up, after, due, gauge, alive, missed>> PROVE ClockInv'
BY DEF ClockInv, Clocks, Covered, Late

LEMMA InitCovers == Init => ClockInv
<1> SUFFICES ASSUME Init PROVE ClockInv
  BY ZenonT(60)
<1>1. Clocks
  BY MetricsAssumption DEF Init, Clocks, Forever
<1>2. \A w \in Workers : after[w] = "none" /\ missed[w] = None /\ None \notin {0, 1}
  BY DEF Init, None
<1> QED BY ZenonT(60), <1>1, <1>2 DEF ClockInv, Covered

LEMMA StepCovers ==
  ASSUME ClockInv, [Next]_vars, 2 * INTERVAL < TTL PROVE ClockInv'
<1>1. ASSUME NEW w \in Workers, NEW o \in Outcomes, Record(w, o) PROVE ClockInv'
  BY ZenonT(60), <1>1, QuietCovers DEF Record, redis
<1>2. ASSUME NEW w \in Workers, NEW d \in Durations, Observe(w, d) PROVE ClockInv'
  BY <1>2, QuietCovers DEF Observe, redis
<1>3. ASSUME NEW w \in Workers, NEW f \in Fields, Incr(w, f) PROVE ClockInv'
  BY <1>3, QuietCovers DEF Incr
<1>4. CASE UNCHANGED vars
  BY <1>4, QuietCovers DEF vars
<1> QED BY ZenonT(60), <1>1, <1>2, <1>3, <1>4, FlushCovers, SetGaugesCovers, ExpireGaugesCovers,
           BeatCovers, TearCovers, ExitCovers, RestartCovers, TickCovers DEF Next

(* With a ttl of more than two flush intervals (the code takes three), a   *)
(* live worker that has reported once keeps its heartbeat and its gauges   *)
(* over a flush that raises, however the flushes of the fleet interleave   *)
(* (WorkerMetrics.flush, MetricsSink.flush).                               *)
THEOREM LiveWorkersStayVisible ==
  ASSUME 2 * INTERVAL < TTL PROVE Spec => []LiveWorkersVisible
<1>1. Init => ClockInv
  BY InitCovers
<1>2. ClockInv /\ [Next]_vars => ClockInv'
  BY ZenonT(60), StepCovers
<1>3. ClockInv => LiveWorkersVisible
  BY VisibleWhileCovered DEF ClockInv, LiveWorkersVisible
<1> QED BY <1>1, <1>2, <1>3, PTL DEF Spec

-----------------------------------------------------------------------------
(***************************************************************************)
(* Totals.                                                                 *)
(***************************************************************************)
INSTANCE FiniteSetTheorems

Units(n, x) == {x} \X (1..n[x])
OtherUnits(n, x) == UNION {Units(n, y) : y \in (DOMAIN n) \ {x}}

LEMMA UnitsFacts ==
  ASSUME NEW S, NEW n \in [S -> Nat], NEW x \in S
  PROVE  IsFiniteSet(Units(n, x)) /\ Cardinality(Units(n, x)) = n[x]
<1>1. IsFiniteSet({x}) /\ Cardinality({x}) = 1
  BY ZenonT(60), FS_Singleton
<1>2. n[x] \in Nat
  OBVIOUS
<1>3. IsFiniteSet(1..n[x]) /\ Cardinality(1..n[x]) = n[x]
  BY <1>2, FS_Interval
<1>4. /\ IsFiniteSet({x} \X (1..n[x]))
      /\ Cardinality({x} \X (1..n[x])) = Cardinality({x}) * Cardinality(1..n[x])
  BY <1>1, <1>3, FS_Product
<1>5. Cardinality({x}) * Cardinality(1..n[x]) = n[x]
  BY <1>1, <1>2, <1>3
<1> QED BY <1>4, <1>5 DEF Units

LEMMA OtherUnitsFinite ==
  ASSUME NEW S, IsFiniteSet(S), NEW n \in [S -> Nat], NEW x
  PROVE  IsFiniteSet(OtherUnits(n, x)) /\ Cardinality(OtherUnits(n, x)) \in Nat
<1> DEFINE R == S \ {x}
           T == {Units(n, y) : y \in R}
           g == [y \in R |-> Units(n, y)]
<1>1. IsFiniteSet(R)
  BY FS_Subset
<1>2. g \in Surjection(R, T)
  BY DEF Surjection
<1>3. IsFiniteSet(T)
  BY <1>1, <1>2, FS_Surjection
<1>4. \A t \in T : IsFiniteSet(t)
  BY UnitsFacts
<1>5. IsFiniteSet(UNION T)
  BY <1>3, <1>4, FS_UNION
<1>6. OtherUnits(n, x) = UNION T
  BY DEF OtherUnits
<1> QED BY <1>5, <1>6, FS_CardinalityType

LEMMA TotalSplit ==
  ASSUME NEW S, IsFiniteSet(S), NEW n \in [S -> Nat], NEW x \in S
  PROVE  Total(n) = Cardinality(OtherUnits(n, x)) + n[x]
<1>1. UNION {{y} \X (1..n[y]) : y \in DOMAIN n} = OtherUnits(n, x) \cup Units(n, x)
  BY DEF OtherUnits, Units
<1>2. OtherUnits(n, x) \cap Units(n, x) = {}
  BY DEF OtherUnits, Units
<1>3. IsFiniteSet(OtherUnits(n, x)) /\ Cardinality(OtherUnits(n, x)) \in Nat
  BY OtherUnitsFinite
<1>4. IsFiniteSet(Units(n, x)) /\ Cardinality(Units(n, x)) = n[x] /\ n[x] \in Nat
  BY UnitsFacts
<1>5. Cardinality(OtherUnits(n, x) \cup Units(n, x))
        = Cardinality(OtherUnits(n, x)) + Cardinality(Units(n, x))
          - Cardinality(OtherUnits(n, x) \cap Units(n, x))
  BY <1>3, <1>4, FS_Union
<1>6. Cardinality(OtherUnits(n, x) \cap Units(n, x)) = 0
  BY <1>2, FS_EmptySet
<1>7. Total(n) = Cardinality(OtherUnits(n, x) \cup Units(n, x))
  BY <1>1, Zenon DEF Total
<1> QED BY <1>3, <1>4, <1>5, <1>6, <1>7

(* A total changes by what one summand gains or loses.                     *)
LEMMA TotalUpdate ==
  ASSUME NEW S, IsFiniteSet(S), NEW n \in [S -> Nat], NEW m \in [S -> Nat], NEW x \in S,
         \A y \in S \ {x} : m[y] = n[y]
  PROVE  Total(m) = Total(n) - n[x] + m[x] /\ Total(n) \in Nat /\ Total(m) \in Nat
<1>1. OtherUnits(m, x) = OtherUnits(n, x)
  BY DEF OtherUnits, Units
<1>2. Cardinality(OtherUnits(n, x)) \in Nat
  BY OtherUnitsFinite
<1>3. n[x] \in Nat /\ m[x] \in Nat
  OBVIOUS
<1>4. Total(n) = Cardinality(OtherUnits(n, x)) + n[x]
  BY TotalSplit
<1>5. Total(m) = Cardinality(OtherUnits(m, x)) + m[x]
  BY TotalSplit
<1> QED BY <1>1, <1>2, <1>3, <1>4, <1>5

LEMMA TotalZero ==
  ASSUME NEW S, NEW n \in [S -> Nat], \A x \in S : n[x] = 0
  PROVE  Total(n) = 0
<1>1. UNION {{x} \X (1..n[x]) : x \in DOMAIN n} = {}
  OBVIOUS
<1> QED BY <1>1, FS_EmptySet DEF Total

LEMMA TotalType ==
  ASSUME NEW S, IsFiniteSet(S), NEW n \in [S -> Nat]
  PROVE  Total(n) \in Nat
<1>1. CASE S = {}
  <2>1. \A x \in S : n[x] = 0
    BY <1>1
  <2> QED BY <2>1, TotalZero
<1>2. CASE S # {}
  <2>1. PICK x \in S : TRUE
    BY <1>2
  <2> QED BY TotalUpdate
<1> QED BY <1>1, <1>2

-----------------------------------------------------------------------------
(* Vectors of counters.                                                    *)
Vectors == [Fields -> Nat]
Counts == [Outcomes -> Nat]

LEMMA FieldFacts ==
  /\ \A f \in Fields : f[1] = "attempts" => f[2] \in Outcomes /\ f = <<"attempts", f[2]>>
  /\ \A f \in Fields : f[1] = "terminal" => f[2] \in Results /\ f = <<"terminal", f[2]>>
  /\ \A f \in Fields : f[1] \in {"attempts", "terminal", "bucket", "sum"}
  /\ \A o \in Outcomes : IsTerminal(o) => TERMINAL_RESULT[o] \in Results
<1>1. \A o \in Outcomes : IsTerminal(o) => TERMINAL_RESULT[o] \in Results
  BY Zenon DEF Results
<1> QED BY <1>1 DEF Fields, Attempts, Terminals, Buckets, Sum

LEMMA VectorFacts ==
  /\ Zero \in Vectors /\ \A f \in Fields : Zero[f] = 0
  /\ \A a, b \in Vectors : /\ Plus(a, b) \in Vectors
                           /\ \A f \in Fields : Plus(a, b)[f] = a[f] + b[f]
BY DEF Zero, Plus, Vectors

LEMMA CountedAsType == ASSUME NEW o PROVE CountedAs(o) \in Vectors
BY DEF CountedAs, Vectors

LEMMA ObservedType == ASSUME NEW d \in Nat PROVE Observed(d) \in Vectors
BY DEF Observed, Vectors

LEMMA DeltaFacts ==
  ASSUME NEW a \in Counts, NEW b \in Counts, NEW o \in Outcomes, b[o] <= a[o]
  PROVE  Delta(a, b, o) = a[o] - b[o] /\ Delta(a, b, o) \in Nat
<1>1. a[o] \in Nat /\ b[o] \in Nat
  BY DEF Counts
<1>2. PICK x : x = a[o] - b[o]
  OBVIOUS
<1>3. x \in Nat
  BY <1>1, <1>2
<1>4. Max({0, x}) = x
  BY <1>3 DEF Max
<1> QED BY <1>2, <1>3, <1>4 DEF Delta

(* The new outcomes behind a result, one function per result.              *)
News(a, b, r) == [o \in EndingIn(r) |-> Delta(a, b, o)]

LEMMA NewsFacts ==
  ASSUME NEW a \in Counts, NEW b \in Counts, \A o \in Outcomes : b[o] <= a[o], NEW r
  PROVE  /\ News(a, b, r) \in [EndingIn(r) -> Nat] /\ IsFiniteSet(EndingIn(r))
         /\ \A o \in EndingIn(r) : News(a, b, r)[o] = a[o] - b[o]
<1>1. EndingIn(r) \subseteq Outcomes
  BY DEF EndingIn
<1>2. IsFiniteSet(EndingIn(r))
  BY <1>1, FS_Subset, MetricsAssumption
<1>3. \A o \in EndingIn(r) : Delta(a, b, o) \in Nat /\ Delta(a, b, o) = a[o] - b[o]
  BY <1>1, DeltaFacts
<1> QED BY <1>2, <1>3 DEF News

LEMMA SyncedAt ==
  ASSUME NEW a, NEW b, NEW f \in Fields
  PROVE  Synced(a, b)[f] = IF f[1] = "attempts" THEN Delta(a, b, f[2])
                           ELSE IF f[1] = "terminal" THEN Total(News(a, b, f[2])) ELSE 0
BY DEF Synced, News

LEMMA SyncedType ==
  ASSUME NEW a \in Counts, NEW b \in Counts, \A o \in Outcomes : b[o] <= a[o]
  PROVE  Synced(a, b) \in Vectors
<1>1. ASSUME NEW f \in Fields PROVE Synced(a, b)[f] \in Nat
  <2>1. f[1] = "attempts" => Delta(a, b, f[2]) \in Nat
    BY FieldFacts, DeltaFacts
  <2>2. Total(News(a, b, f[2])) \in Nat
    BY NewsFacts, TotalType
  <2> QED BY <2>1, <2>2, SyncedAt
<1>2. Synced(a, b) = [f \in Fields |-> Synced(a, b)[f]]
  BY DEF Synced
<1> QED BY <1>1, <1>2 DEF Vectors

(* Right after a sync there is nothing left to report.                     *)
LEMMA SyncedNone ==
  ASSUME NEW a \in Counts
  PROVE  \A f \in Fields : Synced(a, a)[f] = 0
<1> SUFFICES ASSUME NEW f \in Fields PROVE Synced(a, a)[f] = 0
  OBVIOUS
<1>1. \A o \in Outcomes : a[o] \in Nat /\ a[o] <= a[o]
  BY DEF Counts
<1>2. f[1] = "attempts" => Delta(a, a, f[2]) = 0
  BY <1>1, FieldFacts, DeltaFacts
<1>3. \A o \in EndingIn(f[2]) : News(a, a, f[2])[o] = 0
  <2>1. \A o \in EndingIn(f[2]) : News(a, a, f[2])[o] = a[o] - a[o]
    BY <1>1, NewsFacts
  <2>2. \A o \in EndingIn(f[2]) : a[o] \in Nat
    BY <1>1 DEF EndingIn
  <2> QED BY <2>1, <2>2
<1>4. News(a, a, f[2]) \in [EndingIn(f[2]) -> Nat]
  BY <1>1, NewsFacts
<1>5. Total(News(a, a, f[2])) = 0
  BY <1>3, <1>4, TotalZero
<1> QED BY <1>2, <1>5, SyncedAt

(* One more outcome is one more attempt, and one more page of its result   *)
(* when it is a terminal one.                                              *)
LEMMA SyncedOne ==
  ASSUME NEW a \in Counts, NEW b \in Counts, \A o \in Outcomes : b[o] <= a[o],
         NEW o \in Outcomes, NEW c \in Counts, c[o] = a[o] + 1,
         \A p \in Outcomes \ {o} : c[p] = a[p], NEW f \in Fields
  PROVE  Synced(c, b)[f] = Synced(a, b)[f] + CountedAs(o)[f]
<1>1. \A p \in Outcomes : a[p] \in Nat /\ b[p] \in Nat /\ c[p] \in Nat /\ b[p] <= c[p]
  BY DEF Counts
<1>2. CASE f[1] = "attempts"
  <2>1. f[2] \in Outcomes /\ f = <<"attempts", f[2]>>
    BY <1>2, FieldFacts
  <2>2. Delta(a, b, f[2]) = a[f[2]] - b[f[2]] /\ Delta(c, b, f[2]) = c[f[2]] - b[f[2]]
    BY <1>1, <2>1, DeltaFacts
  <2>3. CountedAs(o)[f] = IF f[2] = o THEN 1 ELSE 0
    BY <1>2, <2>1 DEF CountedAs
  <2>4. Synced(c, b)[f] = Delta(c, b, f[2]) /\ Synced(a, b)[f] = Delta(a, b, f[2])
    BY <1>2, SyncedAt
  <2> QED BY <1>1, <2>1, <2>2, <2>3, <2>4
<1>3. CASE f[1] = "terminal"
  <2> DEFINE r == f[2]
             n == News(a, b, r)
             m == News(c, b, r)
  <2>1. f = <<"terminal", r>>
    BY <1>3, FieldFacts
  <2>2. /\ n \in [EndingIn(r) -> Nat] /\ IsFiniteSet(EndingIn(r))
        /\ \A p \in EndingIn(r) : n[p] = a[p] - b[p]
    BY NewsFacts
  <2>3. m \in [EndingIn(r) -> Nat] /\ \A p \in EndingIn(r) : m[p] = c[p] - b[p]
    BY <1>1, NewsFacts
  <2>4. Synced(c, b)[f] = Total(m) /\ Synced(a, b)[f] = Total(n)
    BY <1>3, SyncedAt
  <2>5. \A p \in EndingIn(r) : p \in Outcomes
    BY DEF EndingIn
  <2> HIDE DEF n, m
  <2>6. CASE o \in EndingIn(r)
    <3>1. CountedAs(o)[f] = 1
      BY <2>1, <2>6 DEF CountedAs, EndingIn
    <3>2. \A p \in EndingIn(r) \ {o} : m[p] = n[p]
      BY <2>2, <2>3, <2>5
    <3>3. Total(m) = Total(n) - n[o] + m[o] /\ Total(n) \in Nat
      BY <2>2, <2>3, <2>6, <3>2, TotalUpdate
    <3>4. m[o] = n[o] + 1 /\ n[o] \in Nat
      BY <1>1, <2>2, <2>3, <2>6
    <3> QED BY <2>4, <3>1, <3>3, <3>4
  <2>7. CASE o \notin EndingIn(r)
    <3>1. CountedAs(o)[f] = 0
      BY <1>3, <2>1, <2>7 DEF CountedAs, EndingIn
    <3>2. \A p \in EndingIn(r) : m[p] = n[p]
      BY <2>2, <2>3, <2>5, <2>7
    <3>3. m = n
      BY <2>2, <2>3, <3>2
    <3>4. Total(n) \in Nat
      BY <2>2, TotalType
    <3> QED BY <2>4, <3>1, <3>3, <3>4
  <2> QED BY <2>6, <2>7
<1>4. CASE f[1] \notin {"attempts", "terminal"}
  <2>1. CountedAs(o)[f] = 0
    BY <1>4 DEF CountedAs
  <2> QED BY <1>4, <2>1, SyncedAt
<1> QED BY <1>2, <1>3, <1>4

-----------------------------------------------------------------------------
(* Types, and what the drain relies on: a total is never below the one     *)
(* remembered from the last sync, and only a flush that has not come to    *)
(* its gauges still has increments.                                        *)
Typed ==
  /\ outcomes \in [Workers -> Counts] /\ last \in [Workers -> Counts]
  /\ \A w \in Workers, o \in Outcomes : last[w][o] <= outcomes[w][o]
  /\ local \in [Workers -> Vectors] /\ incrs \in [Workers -> Vectors]
  /\ \A w \in Workers : after[w] # "hset" => incrs[w] = Zero
  /\ after \in [Workers -> {"none", "hset", "expire", "beat"}]
  /\ shared \in Vectors /\ lost \in Vectors /\ happened \in Vectors

New(w) == Synced(outcomes[w], last[w])

LEMMA NewType == ASSUME Typed PROVE \A w \in Workers : New(w) \in Vectors
BY SyncedType DEF Typed, New

LEMMA FreshFacts == Fresh \in Counts /\ \A o \in Outcomes : Fresh[o] <= Fresh[o]
BY DEF Fresh, Counts

LEMMA TypedInit == Init => Typed
<1> SUFFICES ASSUME Init PROVE Typed
  OBVIOUS
<1>1. Fresh \in Counts /\ Zero \in Vectors
  BY FreshFacts, VectorFacts
<1>2. \A o \in Outcomes : Fresh[o] <= Fresh[o]
  BY FreshFacts
<1> QED BY <1>1, <1>2 DEF Init, Typed

(* Another value in one place of a function.                               *)
LEMMA Replaced ==
  ASSUME NEW S, NEW T, NEW g \in [S -> T], NEW x \in S, NEW t \in T
  PROVE  /\ [g EXCEPT ![x] = t] \in [S -> T] /\ [g EXCEPT ![x] = t][x] = t
         /\ \A y \in S \ {x} : [g EXCEPT ![x] = t][y] = g[y]
OBVIOUS

-----------------------------------------------------------------------------
(* Conservation.  A step of a worker leaves the others' counters alone,    *)
(* and moves what it takes from one place to another.                      *)
OthersKeep(w) ==
  \A v \in Workers \ {w} : /\ incrs'[v] = incrs[v] /\ local'[v] = local[v]
                           /\ outcomes'[v] = outcomes[v] /\ last'[v] = last[v]

Moved(w, f) ==
  shared'[f] + lost'[f] + incrs'[w][f] + local'[w][f] + New(w)'[f] + happened[f]
    = shared[f] + lost[f] + incrs[w][f] + local[w][f] + New(w)[f] + happened'[f]

LEMMA PendingFacts ==
  ASSUME Typed, NEW f \in Fields
  PROVE  \A w \in Workers :
           /\ Pending(w, f) = incrs[w][f] + local[w][f] + New(w)[f]
           /\ {incrs[w][f], local[w][f], New(w)[f], Pending(w, f)} \subseteq Nat
<1>1. ASSUME NEW w \in Workers
      PROVE  incrs[w][f] \in Nat /\ local[w][f] \in Nat /\ New(w)[f] \in Nat
  BY NewType DEF Typed, Vectors
<1> QED BY <1>1 DEF Pending, New

LEMMA PendingFactsNext ==
  ASSUME Typed', NEW f \in Fields
  PROVE  \A w \in Workers :
           /\ Pending(w, f)' = incrs'[w][f] + local'[w][f] + New(w)'[f]
           /\ {incrs'[w][f], local'[w][f], New(w)'[f], Pending(w, f)'} \subseteq Nat
<1>1. ASSUME NEW w \in Workers
      PROVE  incrs'[w][f] \in Nat /\ local'[w][f] \in Nat /\ New(w)'[f] \in Nat
  <2>1. New(w)' \in Vectors
    BY SyncedType DEF Typed, New
  <2> QED BY <2>1 DEF Typed, Vectors
<1> QED BY <1>1 DEF Pending, New

LEMMA Conserves ==
  ASSUME Typed, Typed', NothingCountedTwice, NEW w \in Workers, OthersKeep(w),
         \A f \in Fields : Moved(w, f)
  PROVE  NothingCountedTwice'
<1> SUFFICES ASSUME NEW f \in Fields
             PROVE  shared'[f] + lost'[f] + Total([v \in Workers |-> Pending(v, f)'])
                      = happened'[f]
  BY DEF NothingCountedTwice
<1> DEFINE n == [v \in Workers |-> Pending(v, f)]
           m == [v \in Workers |-> Pending(v, f)']
<1>1. n \in [Workers -> Nat] /\ n[w] = Pending(w, f)
  BY PendingFacts
<1>2. m \in [Workers -> Nat] /\ m[w] = Pending(w, f)'
  BY PendingFactsNext
<1>3. \A v \in Workers \ {w} : m[v] = n[v]
  <2>1. \A v \in Workers \ {w} : New(v)' = New(v)
    BY DEF OthersKeep, New
  <2>2. \A v \in Workers \ {w} : Pending(v, f)' = Pending(v, f)
    BY <2>1, PendingFacts, PendingFactsNext DEF OthersKeep
  <2> QED BY <2>2
<1>4. shared[f] + lost[f] + Total(n) = happened[f]
  BY DEF NothingCountedTwice
<1> HIDE DEF n, m
<1>5. Total(m) = Total(n) - n[w] + m[w] /\ Total(n) \in Nat /\ Total(m) \in Nat
  BY <1>1, <1>2, <1>3, TotalUpdate, MetricsAssumption
<1>6. {shared[f], lost[f], happened[f], shared'[f], lost'[f], happened'[f]} \subseteq Nat
  BY DEF Typed, Vectors
<1>7. /\ n[w] = incrs[w][f] + local[w][f] + New(w)[f]
      /\ {incrs[w][f], local[w][f], New(w)[f]} \subseteq Nat
  BY <1>1, PendingFacts
<1>8. /\ m[w] = incrs'[w][f] + local'[w][f] + New(w)'[f]
      /\ {incrs'[w][f], local'[w][f], New(w)'[f]} \subseteq Nat
  BY <1>2, PendingFactsNext
<1>9. shared'[f] + lost'[f] + Total(m) = happened'[f]
  <2>1. shared'[f] + lost'[f] + incrs'[w][f] + local'[w][f] + New(w)'[f] + happened[f]
          = shared[f] + lost[f] + incrs[w][f] + local[w][f] + New(w)[f] + happened'[f]
    BY Zenon DEF Moved
  <2>2. PICK x : x = New(w)'[f]
    OBVIOUS
  <2>3. /\ shared'[f] + lost'[f] + incrs'[w][f] + local'[w][f] + x + happened[f]
             = shared[f] + lost[f] + incrs[w][f] + local[w][f] + New(w)[f] + happened'[f]
        /\ m[w] = incrs'[w][f] + local'[w][f] + x /\ x \in Nat
    BY <2>1, <2>2, <1>8
  <2>4. incrs'[w][f] \in Nat /\ local'[w][f] \in Nat
    BY <1>8
  <2>5. /\ shared[f] \in Nat /\ lost[f] \in Nat /\ happened[f] \in Nat
        /\ shared'[f] \in Nat /\ lost'[f] \in Nat /\ happened'[f] \in Nat
    BY <1>6
  <2>6. incrs[w][f] \in Nat /\ local[w][f] \in Nat /\ New(w)[f] \in Nat
    BY ZenonT(60), <1>7
  <2>7. Total(m) = Total(n) - (incrs[w][f] + local[w][f] + New(w)[f])
                     + (incrs'[w][f] + local'[w][f] + x)
    BY <1>5, <1>7, <2>3
  <2>8. Total(n) \in Nat /\ Total(m) \in Nat
    BY <1>5
  <2> QED BY <2>3, <2>4, <2>5, <2>6, <2>7, <2>8, <1>4
<1> QED BY <1>9 DEF m

LEMMA RecordKeeps ==
  ASSUME Typed, NEW w \in Workers, NEW o \in Outcomes, Record(w, o)
  PROVE  Typed' /\ OthersKeep(w) /\ \A f \in Fields : Moved(w, f)
<1> DEFINE a == outcomes[w]
           c == [a EXCEPT ![o] = @ + 1]
<1>1. a \in Counts /\ last[w] \in Counts /\ \A p \in Outcomes : last[w][p] <= a[p]
  BY DEF Typed
<1>2. /\ c \in Counts /\ c[o] = a[o] + 1 /\ \A p \in Outcomes \ {o} : c[p] = a[p]
      /\ \A p \in Outcomes : last[w][p] <= c[p]
  BY <1>1 DEF Counts
<1>3. outcomes' = [outcomes EXCEPT ![w] = c]
  BY DEF Record
<1> HIDE DEF c
<1>4. /\ outcomes' \in [Workers -> Counts] /\ outcomes'[w] = c
      /\ \A v \in Workers \ {w} : outcomes'[v] = outcomes[v]
  BY <1>2, <1>3 DEF Typed
<1>5. /\ last' = last /\ local' = local /\ incrs' = incrs /\ after' = after
      /\ shared' = shared /\ lost' = lost /\ happened' = Plus(happened, CountedAs(o))
  BY DEF Record, redis
<1>6. happened' \in Vectors
  BY <1>5, VectorFacts, CountedAsType DEF Typed
<1>7. \A v \in Workers, p \in Outcomes : last'[v][p] <= outcomes'[v][p]
  BY <1>2, <1>4, <1>5 DEF Typed
<1>8. Typed'
  BY ZenonT(60), <1>4, <1>5, <1>6, <1>7 DEF Typed
<1>9. OthersKeep(w)
  BY <1>4, <1>5 DEF OthersKeep
<1>10. ASSUME NEW f \in Fields PROVE Moved(w, f)
  <2>1. New(w)' = Synced(c, last[w]) /\ New(w) = Synced(a, last[w])
    BY <1>4, <1>5 DEF New
  <2>2. Synced(c, last[w])[f] = Synced(a, last[w])[f] + CountedAs(o)[f]
    BY <1>1, <1>2, SyncedOne
  <2>3. happened'[f] = happened[f] + CountedAs(o)[f]
    BY <1>5, VectorFacts, CountedAsType DEF Typed
  <2>4. {shared[f], lost[f], happened[f], CountedAs(o)[f]} \subseteq Nat
    BY CountedAsType DEF Typed, Vectors
  <2>5. {incrs[w][f], local[w][f], New(w)[f]} \subseteq Nat
    BY PendingFacts
  <2>6. New(w)'[f] = New(w)[f] + CountedAs(o)[f]
    BY <2>1, <2>2
  <2> QED BY <1>5, <2>3, <2>4, <2>5, <2>6 DEF Moved
<1> QED BY <1>8, <1>9, <1>10

LEMMA ObserveKeeps ==
  ASSUME Typed, NEW w \in Workers, NEW d \in Durations, Observe(w, d)
  PROVE  Typed' /\ OthersKeep(w) /\ \A f \in Fields : Moved(w, f)
<1> DEFINE c == Plus(local[w], Observed(d))
<1>1. Observed(d) \in Vectors
  BY ObservedType, MetricsAssumption
<1>2. c \in Vectors /\ \A f \in Fields : c[f] = local[w][f] + Observed(d)[f]
  BY <1>1, VectorFacts DEF Typed
<1>3. local' = [local EXCEPT ![w] = c]
  BY DEF Observe
<1> HIDE DEF c
<1>4. /\ local' \in [Workers -> Vectors] /\ local'[w] = c
      /\ \A v \in Workers \ {w} : local'[v] = local[v]
  BY <1>2, <1>3 DEF Typed
<1>5. /\ last' = last /\ outcomes' = outcomes /\ incrs' = incrs /\ after' = after
      /\ shared' = shared /\ lost' = lost /\ happened' = Plus(happened, Observed(d))
  BY DEF Observe, redis
<1>6. happened' \in Vectors /\ \A f \in Fields : happened'[f] = happened[f] + Observed(d)[f]
  BY ZenonT(60), <1>1, <1>5, VectorFacts DEF Typed
<1>7. Typed'
  BY <1>4, <1>5, <1>6 DEF Typed
<1>8. OthersKeep(w)
  BY <1>4, <1>5 DEF OthersKeep
<1>9. ASSUME NEW f \in Fields PROVE Moved(w, f)
  <2>1. New(w)' = New(w)
    BY <1>5 DEF New
  <2>2. {shared[f], lost[f], happened[f], Observed(d)[f]} \subseteq Nat
    BY <1>1 DEF Typed, Vectors
  <2>3. {incrs[w][f], local[w][f], New(w)[f]} \subseteq Nat
    BY ZenonT(60), PendingFacts
  <2>4. local'[w][f] = local[w][f] + Observed(d)[f]
    BY <1>2, <1>4
  <2> QED BY <1>5, <1>6, <2>1, <2>2, <2>3, <2>4 DEF Moved
<1> QED BY ZenonT(60), <1>7, <1>8, <1>9

LEMMA FlushKeeps ==
  ASSUME Typed, NEW w \in Workers, Flush(w)
  PROVE  Typed' /\ OthersKeep(w) /\ \A f \in Fields : Moved(w, f)
<1> DEFINE c == Plus(local[w], New(w))
<1>1. c \in Vectors /\ \A f \in Fields : c[f] = local[w][f] + New(w)[f]
  BY NewType, VectorFacts DEF Typed
<1>2. incrs' = [incrs EXCEPT ![w] = c]
  BY DEF Flush, New
<1> HIDE DEF c
<1>3. /\ incrs' \in [Workers -> Vectors] /\ incrs'[w] = c
      /\ \A v \in Workers \ {w} : incrs'[v] = incrs[v]
  BY <1>1, <1>2 DEF Typed
<1>4. /\ local' \in [Workers -> Vectors] /\ local'[w] = Zero
      /\ \A v \in Workers \ {w} : local'[v] = local[v]
  BY VectorFacts DEF Typed, Flush
<1>5. /\ last' \in [Workers -> Counts] /\ last'[w] = outcomes[w]
      /\ \A v \in Workers \ {w} : last'[v] = last[v]
  BY ZenonT(60) DEF Typed, Flush
<1>6. /\ outcomes' = outcomes /\ shared' = shared /\ lost' = lost /\ happened' = happened
      /\ after' = [after EXCEPT ![w] = "hset"] /\ after[w] = "none"
  BY DEF Flush, redis
<1>7. /\ after' \in [Workers -> {"none", "hset", "expire", "beat"}] /\ after'[w] = "hset"
      /\ \A v \in Workers \ {w} : after'[v] = after[v]
  BY <1>6 DEF Typed
<1>8. \A o \in Outcomes : outcomes[w][o] <= outcomes[w][o]
  BY DEF Typed, Counts
<1>9. \A v \in Workers, o \in Outcomes : last'[v][o] <= outcomes'[v][o]
  BY <1>5, <1>6, <1>8 DEF Typed
<1>10. \A v \in Workers : after'[v] # "hset" => incrs'[v] = Zero
  BY <1>3, <1>7 DEF Typed
<1>11. Typed'
  BY ZenonT(60), <1>3, <1>4, <1>5, <1>6, <1>7, <1>9, <1>10 DEF Typed
<1>12. OthersKeep(w)
  BY <1>3, <1>4, <1>5, <1>6 DEF OthersKeep
<1>13. ASSUME NEW f \in Fields PROVE Moved(w, f)
  <2>1. New(w)'[f] = 0
    <3>1. New(w)' = Synced(outcomes[w], outcomes[w])
      BY <1>5, <1>6 DEF New
    <3> QED BY <3>1, SyncedNone DEF Typed
  <2>2. {shared[f], lost[f], happened[f]} \subseteq Nat
    BY DEF Typed, Vectors
  <2>3. {incrs[w][f], local[w][f], New(w)[f]} \subseteq Nat
    BY ZenonT(60), PendingFacts
  <2>4. incrs'[w][f] = local[w][f] + New(w)[f] /\ local'[w][f] = 0 /\ incrs[w][f] = 0
    BY <1>1, <1>3, <1>4, <1>6, VectorFacts DEF Typed
  <2> QED BY <1>6, <2>1, <2>2, <2>3, <2>4 DEF Moved
<1> QED BY <1>11, <1>12, <1>13

LEMMA IncrKeeps ==
  ASSUME Typed, NEW w \in Workers, NEW g \in Fields, Incr(w, g)
  PROVE  Typed' /\ OthersKeep(w) /\ \A f \in Fields : Moved(w, f)
<1> DEFINE a == incrs[w]
           c == [a EXCEPT ![g] = 0]
<1>1. /\ a \in Vectors /\ c \in Vectors /\ c[g] = 0
      /\ \A f \in Fields \ {g} : c[f] = a[f]
  BY DEF Typed, Vectors
<1>2. incrs' = [incrs EXCEPT ![w] = c]
  BY DEF Incr
<1> HIDE DEF c
<1>3. /\ incrs' \in [Workers -> Vectors] /\ incrs'[w] = c
      /\ \A v \in Workers \ {w} : incrs'[v] = incrs[v]
  BY <1>1, <1>2 DEF Typed
<1>4. /\ last' = last /\ outcomes' = outcomes /\ local' = local /\ after' = after
      /\ lost' = lost /\ happened' = happened /\ a[g] # 0
  BY DEF Incr
<1>5. /\ shared' \in Vectors /\ shared'[g] = shared[g] + a[g]
      /\ \A f \in Fields \ {g} : shared'[f] = shared[f]
  BY <1>1 DEF Incr, Typed, Vectors
<1>6. after[w] = "hset"
  BY <1>4, VectorFacts DEF Typed
<1>7. \A v \in Workers : after'[v] # "hset" => incrs'[v] = Zero
  BY <1>3, <1>4, <1>6 DEF Typed
<1>8. Typed'
  BY ZenonT(60), <1>3, <1>4, <1>5, <1>7 DEF Typed
<1>9. OthersKeep(w)
  BY <1>3, <1>4 DEF OthersKeep
<1>10. ASSUME NEW f \in Fields PROVE Moved(w, f)
  <2>1. New(w)' = New(w)
    BY <1>4 DEF New
  <2>2. {shared[f], lost[f], happened[f]} \subseteq Nat
    BY DEF Typed, Vectors
  <2>3. {incrs[w][f], local[w][f], New(w)[f]} \subseteq Nat
    BY ZenonT(60), PendingFacts
  <2>4. CASE f = g
    BY <1>1, <1>3, <1>4, <1>5, <2>1, <2>2, <2>3, <2>4 DEF Moved
  <2>5. CASE f # g
    BY ZenonT(60), <1>1, <1>3, <1>4, <1>5, <2>1, <2>2, <2>3, <2>5 DEF Moved
  <2> QED BY <2>4, <2>5
<1> QED BY <1>8, <1>9, <1>10

LEMMA TearKeeps ==
  ASSUME Typed, NEW w \in Workers, Tear(w)
  PROVE  Typed' /\ OthersKeep(w) /\ \A f \in Fields : Moved(w, f)
<1>1. /\ incrs' \in [Workers -> Vectors] /\ incrs'[w] = Zero
      /\ \A v \in Workers \ {w} : incrs'[v] = incrs[v]
  BY VectorFacts DEF Typed, Tear
<1>2. /\ after' \in [Workers -> {"none", "hset", "expire", "beat"}] /\ after'[w] = "none"
      /\ \A v \in Workers \ {w} : after'[v] = after[v]
  BY DEF Typed, Tear
<1>3. /\ last' = last /\ outcomes' = outcomes /\ local' = local /\ shared' = shared
      /\ happened' = happened /\ lost' = Plus(lost, incrs[w])
  BY DEF Tear, redis
<1>4. lost' \in Vectors /\ \A f \in Fields : lost'[f] = lost[f] + incrs[w][f]
  BY <1>3, VectorFacts DEF Typed
<1>5. \A v \in Workers : after'[v] # "hset" => incrs'[v] = Zero
  BY <1>1, <1>2 DEF Typed
<1>6. Typed'
  BY ZenonT(60), <1>1, <1>2, <1>3, <1>4, <1>5 DEF Typed
<1>7. OthersKeep(w)
  BY ZenonT(60), <1>1, <1>3 DEF OthersKeep
<1>8. ASSUME NEW f \in Fields PROVE Moved(w, f)
  <2>1. New(w)' = New(w)
    BY <1>3 DEF New
  <2>2. {shared[f], lost[f], happened[f]} \subseteq Nat
    BY ZenonT(60) DEF Typed, Vectors
  <2>3. {incrs[w][f], local[w][f], New(w)[f]} \subseteq Nat
    BY ZenonT(60), PendingFacts
  <2>4. incrs'[w][f] = 0
    BY ZenonT(60), <1>1, VectorFacts
  <2> QED BY <1>3, <1>4, <2>1, <2>2, <2>3, <2>4 DEF Moved
<1> QED BY ZenonT(60), <1>6, <1>7, <1>8

LEMMA ExitKeeps ==
  ASSUME Typed, NEW w \in Workers, Exit(w)
  PROVE  Typed' /\ OthersKeep(w) /\ \A f \in Fields : Moved(w, f)
<1> DEFINE c == Plus(incrs[w], Plus(local[w], New(w)))
<1>1. c \in Vectors /\ \A f \in Fields : c[f] = incrs[w][f] + (local[w][f] + New(w)[f])
  <2>1. incrs[w] \in Vectors /\ local[w] \in Vectors /\ New(w) \in Vectors
    BY NewType DEF Typed
  <2>2. PICK b : b = Plus(local[w], New(w))
    BY ZenonT(60)
  <2>3. b \in Vectors /\ \A f \in Fields : b[f] = local[w][f] + New(w)[f]
    BY <2>1, <2>2, VectorFacts
  <2>4. Plus(incrs[w], b) \in Vectors /\ \A f \in Fields : Plus(incrs[w], b)[f] = incrs[w][f] + b[f]
    BY <2>1, <2>3, VectorFacts
  <2> QED BY <2>2, <2>3, <2>4
<1>2. lost' = Plus(lost, c)
  BY ZenonT(60) DEF Exit, New
<1> HIDE DEF c
<1>3. lost' \in Vectors /\ \A f \in Fields : lost'[f] = lost[f] + c[f]
  BY ZenonT(60), <1>1, <1>2, VectorFacts DEF Typed
<1>4. /\ incrs' \in [Workers -> Vectors] /\ incrs'[w] = Zero
      /\ \A v \in Workers \ {w} : incrs'[v] = incrs[v]
  BY VectorFacts DEF Typed, Exit
<1>5. /\ local' \in [Workers -> Vectors] /\ local'[w] = Zero
      /\ \A v \in Workers \ {w} : local'[v] = local[v]
  BY VectorFacts DEF Typed, Exit
<1>6. /\ outcomes' \in [Workers -> Counts] /\ outcomes'[w] = Fresh
      /\ \A v \in Workers \ {w} : outcomes'[v] = outcomes[v]
  BY FreshFacts DEF Typed, Exit
<1>7. /\ last' \in [Workers -> Counts] /\ last'[w] = Fresh
      /\ \A v \in Workers \ {w} : last'[v] = last[v]
  BY FreshFacts DEF Typed, Exit
<1>8. /\ after' \in [Workers -> {"none", "hset", "expire", "beat"}] /\ after'[w] = "none"
      /\ \A v \in Workers \ {w} : after'[v] = after[v]
  BY DEF Typed, Exit
<1>9. shared' = shared /\ happened' = happened
  BY DEF Exit, redis
<1>10. \A v \in Workers, o \in Outcomes : last'[v][o] <= outcomes'[v][o]
  BY ZenonT(60), <1>6, <1>7, FreshFacts DEF Typed
<1>11. \A v \in Workers : after'[v] # "hset" => incrs'[v] = Zero
  BY ZenonT(60), <1>4, <1>8 DEF Typed
<1>12. Typed'
  BY ZenonT(60), <1>3, <1>4, <1>5, <1>6, <1>7, <1>8, <1>9, <1>10, <1>11 DEF Typed
<1>13. OthersKeep(w)
  BY ZenonT(60), <1>4, <1>5, <1>6, <1>7 DEF OthersKeep
<1>14. ASSUME NEW f \in Fields PROVE Moved(w, f)
  <2>1. New(w)'[f] = 0
    <3>1. New(w)' = Synced(Fresh, Fresh)
      BY ZenonT(60), <1>6, <1>7 DEF New
    <3> QED BY <3>1, SyncedNone, FreshFacts
  <2>2. {shared[f], lost[f], happened[f]} \subseteq Nat
    BY ZenonT(60) DEF Typed, Vectors
  <2>3. {incrs[w][f], local[w][f], New(w)[f]} \subseteq Nat
    BY ZenonT(60), PendingFacts
  <2>4. incrs'[w][f] = 0 /\ local'[w][f] = 0
    BY ZenonT(60), <1>4, <1>5, VectorFacts
  <2>5. lost'[f] = lost[f] + (incrs[w][f] + (local[w][f] + New(w)[f]))
    BY ZenonT(60), <1>1, <1>3
  <2> QED BY <1>9, <2>1, <2>2, <2>3, <2>4, <2>5 DEF Moved
<1> QED BY ZenonT(60), <1>12, <1>13, <1>14

(* Restart, a tick and the commands on a worker's own keys move no count.  *)
counters == <<outcomes, last, local, incrs, shared, lost, happened>>

LEMMA QuietConserves ==
  ASSUME NothingCountedTwice, UNCHANGED counters
  PROVE  NothingCountedTwice'
BY DEF counters, NothingCountedTwice, Pending

LEMMA CommandTyped ==
  ASSUME Typed, NEW w \in Workers, SetGauges(w) \/ ExpireGauges(w) \/ Beat(w)
  PROVE  Typed' /\ UNCHANGED counters
<1>1. UNCHANGED counters
  BY ZenonT(60) DEF counters, SetGauges, ExpireGauges, Beat
<1>2. PICK x \in {"none", "expire", "beat"} : after' = [after EXCEPT ![w] = x]
  BY ZenonT(60) DEF SetGauges, ExpireGauges, Beat
<1>3. incrs[w] = Zero
  BY DEF SetGauges, ExpireGauges, Beat, Typed
<1>4. /\ after' \in [Workers -> {"none", "hset", "expire", "beat"}]
      /\ \A v \in Workers \ {w} : after'[v] = after[v]
  BY <1>2 DEF Typed
<1>5. \A v \in Workers : after'[v] # "hset" => incrs'[v] = Zero
  BY <1>1, <1>3, <1>4 DEF Typed, counters
<1> QED BY <1>1, <1>4, <1>5 DEF Typed, counters

LEMMA IdleTyped ==
  ASSUME Typed, UNCHANGED <<counters, after>>
  PROVE  Typed'
BY DEF Typed, counters

LEMMA StepConserves ==
  ASSUME Typed, NothingCountedTwice, [Next]_vars
  PROVE  Typed' /\ NothingCountedTwice'
<1>1. ASSUME NEW w \in Workers, NEW o \in Outcomes, Record(w, o) PROVE Typed' /\ NothingCountedTwice'
  BY <1>1, RecordKeeps, Conserves
<1>2. ASSUME NEW w \in Workers, NEW d \in Durations, Observe(w, d) PROVE Typed' /\ NothingCountedTwice'
  BY <1>2, ObserveKeeps, Conserves
<1>3. ASSUME NEW w \in Workers, NEW f \in Fields, Incr(w, f) PROVE Typed' /\ NothingCountedTwice'
  BY <1>3, IncrKeeps, Conserves
<1>4. ASSUME NEW w \in Workers, Flush(w) PROVE Typed' /\ NothingCountedTwice'
  BY <1>4, FlushKeeps, Conserves
<1>5. ASSUME NEW w \in Workers, Tear(w) PROVE Typed' /\ NothingCountedTwice'
  BY <1>5, TearKeeps, Conserves
<1>6. ASSUME NEW w \in Workers, Exit(w) PROVE Typed' /\ NothingCountedTwice'
  BY ZenonT(60), <1>6, ExitKeeps, Conserves
<1>7. ASSUME NEW w \in Workers, SetGauges(w) \/ ExpireGauges(w) \/ Beat(w)
      PROVE  Typed' /\ NothingCountedTwice'
  BY <1>7, CommandTyped, QuietConserves
<1>8. ASSUME UNCHANGED <<counters, after>> PROVE Typed' /\ NothingCountedTwice'
  <2>1. UNCHANGED counters
    BY <1>8
  <2> QED BY <1>8, <2>1, IdleTyped, QuietConserves
<1>9. (Tick \/ UNCHANGED vars \/ \E w \in Workers : Restart(w)) => UNCHANGED <<counters, after>>
  BY DEF Tick, vars, Restart, counters, redis
<1> QED BY <1>1, <1>2, <1>3, <1>4, <1>5, <1>6, <1>7, <1>8, <1>9 DEF Next

LEMMA InitConserves == Init => NothingCountedTwice
<1> SUFFICES ASSUME Init, NEW f \in Fields
             PROVE  shared[f] + lost[f] + Total([w \in Workers |-> Pending(w, f)]) = happened[f]
  BY DEF NothingCountedTwice
<1> DEFINE n == [w \in Workers |-> Pending(w, f)]
<1>1. shared[f] = 0 /\ lost[f] = 0 /\ happened[f] = 0
  BY VectorFacts DEF Init
<1>2. ASSUME NEW w \in Workers PROVE Pending(w, f) = 0
  <2>1. New(w)[f] = 0
    <3>1. New(w) = Synced(Fresh, Fresh)
      BY DEF Init, New
    <3> QED BY <3>1, SyncedNone, FreshFacts
  <2>2. incrs[w][f] = 0 /\ local[w][f] = 0
    BY VectorFacts DEF Init
  <2> QED BY <2>1, <2>2 DEF Pending, New
<1>3. n \in [Workers -> Nat] /\ \A w \in Workers : n[w] = 0
  BY <1>2
<1> HIDE DEF n
<1>4. Total(n) = 0
  BY <1>3, TotalZero
<1> QED BY <1>1, <1>4 DEF n

(* Whatever the outcomes, durations, flushes, torn pipelines, exits and    *)
(* restarts, and for any fleet: what was ever counted is in Redis once,    *)
(* waits with one worker, or went with a flush that raised or a process    *)
(* that ended (Counter.drain, WorkerMetrics.sync, MetricsSink.flush).      *)
THEOREM CountsAreConserved == Spec => []NothingCountedTwice
<1>1. Init => Typed /\ NothingCountedTwice
  BY TypedInit, InitConserves
<1>2. Typed /\ NothingCountedTwice /\ [Next]_vars => Typed' /\ NothingCountedTwice'
  BY ZenonT(60), StepConserves
<1> QED BY <1>1, <1>2, PTL DEF Spec

-----------------------------------------------------------------------------
(* The keys of a job, for any pages, coroutines and ttl, and the pauses    *)
(* and delays for which the ttl has room.                                  *)

Half == RESULT_TTL \div 2

Sweeping == \E w \in Movers : sweep[w] # NoSweep

\* Why the keys of a job under way do not expire.  The marker was fresh enough
\* at the last transition, so its age exceeds half a ttl by the pause since then
\* at most.  Without a sweep in progress every page was renewed no earlier than
\* the marker says; with one, the marker is as young as the sweep and the pages
\* were renewed at the marker before it.
Timely ==
  /\ idle <= GAP
  /\ job.total /\ job.ttl >= RESULT_TTL - idle
  /\ since <= Half + idle
  /\ \A p \in Pages \ settled :
       /\ ttl[p] >= RESULT_TTL - since - Half - GAP
       /\ ~Sweeping => ttl[p] >= RESULT_TTL - since

Inv ==
  trouble = {} =>
    /\ settled # Pages => Timely
    /\ \A w \in Movers : sweep[w] # NoSweep => sweep[w] = since /\ since <= DELAY
    /\ job.total => job.done = Cardinality(settled)
    /\ reports = IF settled = Pages THEN 1 ELSE 0

\* Half a ttl, rounded down, and what fits in the other half.
Halves ==
  /\ RESULT_TTL \in Nat /\ GAP \in Nat /\ DELAY \in Nat /\ Half \in Nat
  /\ 2 * Half <= RESULT_TTL /\ RESULT_TTL <= 2 * Half + 1
  /\ GAP + DELAY + Half < RESULT_TTL /\ 2 * DELAY <= RESULT_TTL

LEMMA HalfFacts == Halves
BY ExpiryAssumption DEF Halves, Half

\* The key ranges hold whatever the workers and the clock do.
THEOREM KeysTyped == KeysSpec => []ExpiryTypeOK
<1>0. Halves
  BY ZenonT(60), HalfFacts
<1> USE <1>0 DEF Halves
<1>1. KeysInit => ExpiryTypeOK
  <2> SUFFICES ASSUME KeysInit PROVE ExpiryTypeOK
    OBVIOUS
  <2>1. reports \in Nat
    BY DEF KeysInit
  <2>2. settled \subseteq Pages /\ ttl \in [Pages -> 0..RESULT_TTL]
    BY DEF KeysInit
  <2>3. job \in [ttl : 0..Persistent, total : BOOLEAN, done : Nat]
    BY DEF KeysInit, Persistent
  <2>4. since \in 0..RESULT_TTL /\ sweep \in [Movers -> {NoSweep} \cup 0..(DELAY + 1)] /\ idle \in 0..RESULT_TTL
    BY DEF KeysInit
  <2> QED BY ZenonT(60), <2>1, <2>2, <2>3, <2>4 DEF KeysInit, ExpiryTypeOK
<1>2. ExpiryTypeOK /\ [KeysNext]_keyVars => ExpiryTypeOK'
  <2> SUFFICES ASSUME ExpiryTypeOK, [KeysNext]_keyVars PROVE ExpiryTypeOK'
    OBVIOUS
  <2>1. ASSUME NEW w \in Movers, NEW p \in Pages, NEW final \in BOOLEAN,
               Transition(w, p, final)
        PROVE  ExpiryTypeOK'
    <3>1. CASE Commit(w, p, final)
      <4>1. Renewed \in [ttl : 0..Persistent, total : BOOLEAN, done : Nat]
        <5>1. CASE Exists
          BY <5>1 DEF ExpiryTypeOK, Renewed, Persistent
        <5>2. CASE ~Exists
          BY <5>2 DEF ExpiryTypeOK, Renewed, Persistent
        <5> QED BY <5>1, <5>2
      <4>2. job' \in [ttl : 0..Persistent, total : BOOLEAN, done : Nat]
        BY <3>1, <4>1 DEF Commit
      <4>3. settled' \subseteq Pages
        BY <3>1 DEF Commit, ExpiryTypeOK
      <4>4. ttl' \in [Pages -> 0..RESULT_TTL] /\ since' \in 0..RESULT_TTL
        BY <3>1 DEF Commit, ExpiryTypeOK
      <4>5. sweep' \in [Movers -> {NoSweep} \cup 0..(DELAY + 1)]
        BY <3>1 DEF Commit, ExpiryTypeOK
      <4>6. reports' \in Nat
        BY <3>1 DEF Commit, ExpiryTypeOK
      <4>7. idle' \in 0..RESULT_TTL /\ trouble' = trouble
        BY <3>1 DEF Commit
      <4> QED BY ZenonT(60), <4>2, <4>3, <4>4, <4>5, <4>6, <4>7 DEF ExpiryTypeOK
    <3>2. CASE Reject(p)
      BY <3>2 DEF Reject, keyVars, ExpiryTypeOK
    <3> QED BY ZenonT(60), <2>1, <3>1, <3>2 DEF Transition
  <2>2. ASSUME NEW w \in Movers, NEW reached \in SUBSET Pages, Extend(reached),
               sweep' = [sweep EXCEPT ![w] = NoSweep],
               trouble' \in {trouble, trouble \cup {"lost"}},
               UNCHANGED <<settled, job, since, reports, idle>>
        PROVE  ExpiryTypeOK'
    <3>1. ttl' \in [Pages -> 0..RESULT_TTL]
      BY <2>2 DEF Extend, ExpiryTypeOK
    <3>2. sweep' \in [Movers -> {NoSweep} \cup 0..(DELAY + 1)]
      BY ZenonT(60), <2>2 DEF ExpiryTypeOK
    <3>3. trouble' \subseteq {"lost", "pause", "inactive", "late"}
      BY <2>2 DEF ExpiryTypeOK
    <3> QED BY ZenonT(60), <2>2, <3>1, <3>2, <3>3 DEF ExpiryTypeOK
  <2>3. CASE Elapse
    <3>1. ttl' \in [Pages -> 0..RESULT_TTL]
      <4>1. \A t \in 0..RESULT_TTL : Older(t) \in 0..RESULT_TTL
        BY DEF Older, Persistent
      <4> QED BY <2>3, <4>1 DEF Elapse, ExpiryTypeOK
    <3>2. job' \in [ttl : 0..Persistent, total : BOOLEAN, done : Nat]
      <4>1. Older(job.ttl) \in 0..Persistent
        BY DEF Older, Persistent, ExpiryTypeOK
      <4> QED BY <2>3, <4>1 DEF Elapse, ExpiryTypeOK
    <3>3. since' \in 0..RESULT_TTL /\ idle' \in 0..RESULT_TTL
      BY <2>3 DEF Elapse, UpTo, ExpiryTypeOK
    <3>4. sweep' \in [Movers -> {NoSweep} \cup 0..(DELAY + 1)]
      BY <2>3 DEF Elapse, UpTo, NoSweep, ExpiryTypeOK
    <3>5. trouble' \subseteq {"lost", "pause", "inactive", "late"}
      BY ZenonT(60), <2>3 DEF Elapse, ExpiryTypeOK
    <3> QED BY <2>3, <3>1, <3>2, <3>3, <3>4, <3>5 DEF Elapse, ExpiryTypeOK
  <2>4. CASE UNCHANGED keyVars
    BY ZenonT(60), <2>4 DEF keyVars, ExpiryTypeOK
  <2> QED
    BY <2>1, <2>2, <2>3, <2>4 DEF KeysNext, RunSweep, LoseSweep
<1> QED BY <1>1, <1>2, PTL DEF KeysSpec

\* A successful transition: the marker was at most half a ttl and a pause old,
\* so the pages have at least the rest of the ttl left, and the sweep it may
\* start finds no other in progress.
LEMMA CommitInv ==
  ASSUME ExpiryTypeOK, Inv, trouble = {}, NEW w \in Movers, NEW p \in Pages \ settled,
         NEW final \in BOOLEAN, sweep[w] = NoSweep, ttl[p] > 0, Commit(w, p, final)
  PROVE  Inv'
<1>0. Halves
  BY ZenonT(60), HalfFacts
<1> USE <1>0 DEF Halves
<1>1. settled # Pages /\ Timely
  BY DEF Inv
<1>2. Exists /\ job.total = TRUE
  BY <1>1 DEF Timely, Exists, ExpiryTypeOK
<1>3. Renewed = [job EXCEPT !.ttl = RESULT_TTL] /\ Renewed.total = TRUE /\ Renewed.done = job.done
  BY <1>2 DEF Renewed, ExpiryTypeOK
<1>4. /\ job'.ttl = RESULT_TTL /\ job'.total = TRUE
      /\ job'.done = IF final THEN job.done + 1 ELSE job.done
  BY <1>3 DEF Commit, ExpiryTypeOK
<1>5. /\ idle' = 0 /\ ttl' = [ttl EXCEPT ![p] = RESULT_TTL]
      /\ settled' = IF final THEN settled \cup {p} ELSE settled
  BY ZenonT(60) DEF Commit
<1>6. /\ settled' # Pages => Timely'
      /\ \A v \in Movers : sweep'[v] # NoSweep => sweep'[v] = since' /\ since' <= DELAY
  <2>1. CASE 2 * since > RESULT_TTL
    <3>1. since' = 0 /\ sweep' = [sweep EXCEPT ![w] = 0]
      BY ZenonT(60), <1>2, <1>3, <2>1 DEF Commit, SweepDue
    <3>2. \A v \in Movers : sweep[v] = NoSweep
      BY <2>1 DEF Inv, ExpiryTypeOK
    <3>3. Sweeping'
      BY <3>1 DEF Sweeping, NoSweep, ExpiryTypeOK
    <3>4. \A v \in Movers : sweep'[v] # NoSweep => sweep'[v] = since' /\ since' <= DELAY
      BY <3>1, <3>2 DEF ExpiryTypeOK
    <3>5. \A q \in Pages \ settled' : ttl'[q] >= RESULT_TTL - since' - Half - GAP
      BY <1>1, <1>5, <3>1, <3>2 DEF Timely, Sweeping, ExpiryTypeOK
    <3> QED BY <1>4, <1>5, <3>1, <3>3, <3>4, <3>5 DEF Timely
  <2>2. CASE ~(2 * since > RESULT_TTL)
    <3>1. since' = since /\ sweep' = sweep
      BY ZenonT(60), <1>2, <2>2 DEF Commit, SweepDue
    <3>2. Sweeping' <=> Sweeping
      BY ZenonT(60), <3>1 DEF Sweeping
    <3>3. since' <= Half + idle'
      BY <1>5, <2>2, <3>1 DEF ExpiryTypeOK
    <3>4. \A q \in Pages \ settled' : /\ ttl'[q] >= RESULT_TTL - since' - Half - GAP
                                      /\ ~Sweeping' => ttl'[q] >= RESULT_TTL - since'
      BY <1>1, <1>5, <3>1, <3>2 DEF Timely, ExpiryTypeOK
    <3> QED BY <1>4, <1>5, <3>1, <3>3, <3>4 DEF Timely, Inv
  <2> QED BY ZenonT(60), <2>1, <2>2
<1>7. IsFiniteSet(Pages) /\ IsFiniteSet(settled) /\ Cardinality(settled) \in Nat
  BY ZenonT(60), ExpiryAssumption, FS_Subset, FS_CardinalityType DEF ExpiryTypeOK
<1>8. job.done = Cardinality(settled) /\ reports = 0
  BY <1>1, <1>2 DEF Inv
<1>9. Cardinality(settled \cup {p}) = Cardinality(settled) + 1
  BY ZenonT(60), <1>7, FS_AddElement
<1>10. settled \cup {p} # Pages => Cardinality(settled) + 1 < Cardinality(Pages)
  <2>1. ASSUME settled \cup {p} # Pages
        PROVE  Cardinality(settled \cup {p}) < Cardinality(Pages)
    BY <1>7, <2>1, FS_Subset, FS_CardinalityType DEF ExpiryTypeOK
  <2> QED BY ZenonT(60), <1>9, <2>1
<1>11. job'.done = Cardinality(settled')
  BY ZenonT(60), <1>4, <1>5, <1>8, <1>9
<1>12. reports' = IF settled' = Pages THEN 1 ELSE 0
  <2>1. CASE final
    <3>1. /\ settled' = settled \cup {p}
          /\ reports' = IF Cardinality(settled) + 1 >= Cardinality(Pages) THEN 1 ELSE 0
      <4>2. reports' = IF Renewed.total /\ Renewed.done + 1 >= Cardinality(Pages)
                       THEN reports + 1 ELSE reports
        BY <2>1 DEF Commit
      <4>3. Renewed.total = TRUE /\ Renewed.done = Cardinality(settled) /\ reports = 0
        BY <1>3, <1>8
      <4>4. reports' = IF Cardinality(settled) + 1 >= Cardinality(Pages) THEN 1 ELSE 0
        BY <4>2, <4>3
      <4> QED BY <1>5, <2>1, <4>4
    <3>2. Cardinality(Pages) \in Nat
      BY ZenonT(60), <1>7, FS_CardinalityType
    <3>3. CASE settled \cup {p} = Pages
      <4>1. Cardinality(settled) + 1 = Cardinality(Pages)
        BY ZenonT(60), <1>9, <3>3
      <4>2. reports' = 1
        BY <3>1, <3>2, <4>1
      <4> QED BY ZenonT(60), <3>1, <3>3, <4>2
    <3>4. CASE settled \cup {p} # Pages
      <4>1. Cardinality(settled) + 1 < Cardinality(Pages)
        BY ZenonT(60), <1>10, <3>4
      <4>2. reports' = 0
        BY <1>7, <3>1, <3>2, <4>1
      <4> QED BY ZenonT(60), <3>1, <3>4, <4>2
    <3> QED BY <3>3, <3>4
  <2>2. CASE ~final
    BY <1>1, <1>5, <1>8, <2>2 DEF Commit
  <2> QED BY ZenonT(60), <2>1, <2>2
<1> QED BY <1>6, <1>11, <1>12 DEF Inv

\* A tick without trouble: the pause is still short and a sweep still young.
LEMMA TickInv ==
  ASSUME ExpiryTypeOK, Inv, Elapse, trouble' = {}
  PROVE  Inv'
<1>0. Halves
  BY HalfFacts
<1> USE <1>0 DEF Halves
<1>1. /\ trouble = {} /\ settled' = settled /\ reports' = reports
      /\ settled # Pages => idle < GAP
      /\ \A w \in Movers : ~(sweep[w] >= DELAY)
  BY DEF Elapse, ExpiryTypeOK
<1>2. job'.total = job.total /\ job'.done = job.done /\ job'.ttl = Older(job.ttl)
  BY DEF Elapse, ExpiryTypeOK
<1>3. \A w \in Movers : sweep'[w] # NoSweep <=> sweep[w] # NoSweep
  BY DEF Elapse, UpTo, NoSweep, ExpiryTypeOK
<1>4. Sweeping' <=> Sweeping
  BY <1>3 DEF Sweeping
<1>5. ASSUME NEW w \in Movers, sweep'[w] # NoSweep
      PROVE  sweep'[w] = since' /\ since' <= DELAY
  <2>1. sweep[w] = since /\ sweep[w] < DELAY
    BY <1>1, <1>3, <1>5 DEF Inv, ExpiryTypeOK, NoSweep
  <2> QED BY <1>3, <1>5, <2>1 DEF Elapse, UpTo, ExpiryTypeOK
<1>6. ASSUME settled # Pages
      PROVE  Timely'
  <2>1. Timely /\ idle < GAP
    BY <1>1, <1>6 DEF Inv
  <2>2. idle' = idle + 1 /\ since' = since + 1
    BY <2>1 DEF Elapse, UpTo, Timely, ExpiryTypeOK
  <2>3. job.ttl > 1 /\ job'.ttl >= job.ttl - 1
    BY <1>2, <2>1 DEF Older, Persistent, Timely, ExpiryTypeOK
  <2>4. \A p \in Pages : ttl'[p] \in Int /\ ttl'[p] >= ttl[p] - 1
    BY DEF Elapse, Older, Persistent, ExpiryTypeOK
  <2>5. \A p \in Pages \ settled : /\ ttl'[p] >= RESULT_TTL - since' - Half - GAP
                                   /\ ~Sweeping => ttl'[p] >= RESULT_TTL - since'
    BY <2>1, <2>2, <2>4 DEF Timely, ExpiryTypeOK
  <2>6. job'.total /\ job'.ttl >= RESULT_TTL - idle'
    BY <1>2, <2>1, <2>2, <2>3 DEF Timely, Older, ExpiryTypeOK
  <2>7. idle' <= GAP /\ since' <= Half + idle'
    BY <2>1, <2>2 DEF Timely, ExpiryTypeOK
  <2> QED BY ZenonT(60), <1>1, <1>4, <2>5, <2>6, <2>7 DEF Timely
<1> QED BY ZenonT(60), <1>1, <1>2, <1>5, <1>6 DEF Inv

\* A sweep moves the expiry of every page away.
LEMMA SweepInv ==
  ASSUME ExpiryTypeOK, Inv, trouble = {}, NEW w \in Movers, RunSweep(w)
  PROVE  Inv'
<1>0. Halves
  BY ZenonT(60), HalfFacts
<1> USE <1>0 DEF Halves
<1>1. /\ sweep[w] = since
      /\ \A p \in Pages : ttl'[p] = IF ttl[p] > 0 THEN RESULT_TTL ELSE ttl[p]
      /\ \A v \in Movers : sweep'[v] # NoSweep => sweep'[v] = sweep[v]
      /\ UNCHANGED <<settled, job, since, reports, idle, trouble>>
  BY DEF RunSweep, Extend, Inv, ExpiryTypeOK
<1>2. ASSUME settled # Pages
      PROVE  Timely'
  <2>1. Timely /\ since <= DELAY
    BY <1>2 DEF Inv, RunSweep
  <2>2. \A p \in Pages \ settled : ttl[p] > 0
    BY <2>1 DEF Timely, ExpiryTypeOK
  <2>3. \A p \in Pages \ settled : /\ ttl'[p] >= RESULT_TTL - since - Half - GAP
                                   /\ ttl'[p] >= RESULT_TTL - since
    BY <1>1, <2>2 DEF ExpiryTypeOK
  <2> QED BY ZenonT(60), <1>1, <2>1, <2>3 DEF Timely
<1> QED BY <1>1, <1>2 DEF Inv

LEMMA InvHolds == KeysSpec => [](ExpiryTypeOK /\ Inv)
<1>1. KeysInit => Inv
  <2> SUFFICES ASSUME KeysInit PROVE Inv
    OBVIOUS
  <2>0. Halves
    BY ZenonT(60), HalfFacts
  <2> USE <2>0 DEF Halves
  <2>1. settled # Pages /\ Cardinality(settled) = 0
    BY ExpiryAssumption, FS_EmptySet DEF KeysInit
  <2>2. Timely
    BY DEF KeysInit, Timely
  <2> QED BY <2>1, <2>2 DEF KeysInit, Inv
<1>2. ExpiryTypeOK /\ Inv /\ [KeysNext]_keyVars => Inv'
  <2> SUFFICES ASSUME ExpiryTypeOK, Inv, [KeysNext]_keyVars, trouble' = {} PROVE Inv'
    BY DEF Inv
  <2>1. ASSUME NEW w \in Movers, NEW p \in Pages, NEW final \in BOOLEAN,
               Transition(w, p, final)
        PROVE  Inv'
    <3>1. CASE ttl[p] > 0 /\ p \notin settled
      <4>1. Commit(w, p, final) /\ sweep[w] = NoSweep /\ trouble = {}
        BY ZenonT(60), <2>1, <3>1 DEF Transition, Commit
      <4> QED BY <3>1, <4>1, CommitInv
    <3>2. CASE ~(ttl[p] > 0 /\ p \notin settled)
      BY <2>1, <3>2 DEF Transition, Reject, keyVars, Inv, Timely, Sweeping
    <3> QED BY <3>1, <3>2
  <2>2. ASSUME NEW w \in Movers, RunSweep(w) PROVE Inv'
    <3>1. trouble = {}
      BY <2>2 DEF RunSweep
    <3> QED BY <2>2, <3>1, SweepInv
  <2>3. ASSUME NEW w \in Movers, LoseSweep(w) PROVE Inv'
    BY <2>3 DEF LoseSweep
  <2>4. CASE Elapse
    BY <2>4, TickInv
  <2>5. CASE UNCHANGED keyVars
    BY ZenonT(60), <2>5 DEF keyVars, Inv, Timely, Sweeping
  <2> QED BY ZenonT(60), <2>1, <2>2, <2>3, <2>4, <2>5 DEF KeysNext
<1> QED BY <1>1, <1>2, KeysTyped, PTL DEF KeysSpec

\* For any ttl with room for a pause and a late sweep in its second half, the
\* keys of a job under way never expire, however many pages wait unstarted, and
\* one transition is told that the job is complete.
THEOREM ActiveJobsAreKept == KeysSpec => []ActiveJobKept
<1>1. ExpiryTypeOK /\ Inv => ActiveJobKept
  <2> SUFFICES ASSUME ExpiryTypeOK, Inv, trouble = {} PROVE ActiveJobKept
    BY DEF ActiveJobKept
  <2>0. Halves
    BY HalfFacts
  <2> USE <2>0 DEF Halves
  <2>1. reports = IF settled = Pages THEN 1 ELSE 0
    BY DEF Inv
  <2>2. ASSUME settled # Pages
        PROVE  /\ job.ttl > 0 /\ job.total
               /\ \A p \in Pages \ settled : ttl[p] > 0
    <3>1. Timely
      BY <2>2 DEF Inv
    <3>2. job.ttl > 0 /\ job.total
      BY <3>1 DEF Timely, ExpiryTypeOK
    <3>3. CASE Sweeping
      BY <3>1, <3>3 DEF Timely, Inv, Sweeping, ExpiryTypeOK
    <3>4. CASE ~Sweeping
      BY <3>1, <3>4 DEF Timely, ExpiryTypeOK
    <3> QED BY <3>2, <3>3, <3>4
  <2>3. \A p \in Pages \ settled : ttl[p] > 0
    BY <2>2
  <2> QED BY ZenonT(60), <2>1, <2>2, <2>3 DEF ActiveJobKept
<1> QED BY <1>1, InvHolds, PTL
=============================================================================

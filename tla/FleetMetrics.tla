---------------------------- MODULE FleetMetrics ----------------------------
(***************************************************************************)
(* How the workers' numbers reach /metrics: each worker counts in memory   *)
(* (common/metrics.py, app/worker/metrics.py) and its maintenance loop     *)
(* flushes the deltas into hashes shared by the fleet, and its gauges into *)
(* a key of its own that expires; the API reads the hashes at each scrape  *)
(* (app/api/metrics.py).  Building a flush is one step, as it contains no  *)
(* await; its pipeline is not a transaction, so every command of it is a   *)
(* step of Redis, and the connection may be lost between any two.          *)
(***************************************************************************)
EXTENDS Integers, Sequences, FiniteSets, FiniteSetsExt

CONSTANTS Workers,
          Outcomes,     \* the outcomes of an attempt
          Bounds,       \* upper bounds of the finite histogram buckets, ascending
          Durations,    \* how long an attempt can take
          INTERVAL,     \* ticks between two flushes
          TTL,          \* ticks a gauge key and a heartbeat live
          MaxAttempts,  \* bound: attempts by the whole fleet
          MaxFaults     \* bound: processes that end and flushes that raise

ASSUME MetricsAssumption ==
  /\ IsFiniteSet(Workers) /\ IsFiniteSet(Outcomes) /\ Bounds \in Seq(Nat)
  /\ INTERVAL \in Nat \ {0} /\ TTL \in Nat \ {0}
  /\ Durations \subseteq Nat \ {0} /\ Durations # {}
  /\ MaxAttempts \in Nat /\ MaxFaults \in Nat

VARIABLES up,        \* whether the worker's process runs
          recorded,  \* its page coroutine has recorded an outcome and not yet ended
          outcomes,  \* WorkerStats.outcomes, running totals of the process
          last,      \* _last_outcomes, the totals at the last sync
          local,     \* deltas in the registry since the last drain
          incrs,     \* HINCRBYFLOATs of the flush in progress yet to run, by field
          after,     \* the next of its commands once those have run, or "none"
          due,       \* ticks until the next flush
          shared,    \* the hashes in Redis
          gauge,     \* metrics:gauges:<worker>: remaining ttl, 0 when absent
          alive,     \* remaining ttl of the heartbeat key
          attempts, faults,
          happened,  \* history: what was counted anywhere
          lost,      \* history: what was counted and can no longer be flushed
          missed     \* history: flushes that raised since one succeeded, or None

None == -1
Forever == TTL + 1   \* the ttl of a key that has none

vars == <<up, recorded, outcomes, last, local, incrs, after, due, shared, gauge, alive,
          attempts, faults, happened, lost, missed>>

TERMINAL_RESULT ==
  [completed |-> "success", resumed |-> "success", degraded |-> "success",
   failed |-> "failed", already_terminal |-> "duplicate"]

IsTerminal(o) == o \in DOMAIN TERMINAL_RESULT

Results == {TERMINAL_RESULT[o] : o \in {p \in Outcomes : IsTerminal(p)}}

\* The hash fields, metric by metric.
Attempts == {"attempts"} \X Outcomes
Terminals == {"terminal"} \X Results
Buckets == {"bucket"} \X (1..(Len(Bounds) + 1))
Sum == <<"sum", 0>>

Fields == Attempts \union Terminals \union Buckets \union {Sum}

\* The order in which a flush writes: counters as registered, then the buckets
\* in ascending order, then the sums.  Labels of a counter come in any order.
Rank(f) ==
  IF f[1] = "attempts" THEN 0
  ELSE IF f[1] = "terminal" THEN 1
  ELSE IF f[1] = "bucket" THEN 1 + f[2]
  ELSE Len(Bounds) + 3

Zero == [f \in Fields |-> 0]

Plus(a, b) == [f \in Fields |-> a[f] + b[f]]

Fresh == [o \in Outcomes |-> 0]

Init ==
  /\ up = [w \in Workers |-> TRUE] /\ recorded = [w \in Workers |-> FALSE]
  /\ outcomes = [w \in Workers |-> Fresh] /\ last = outcomes
  /\ local = [w \in Workers |-> Zero]
  /\ incrs = [w \in Workers |-> Zero] /\ after = [w \in Workers |-> "none"]
  /\ due = [w \in Workers |-> INTERVAL]
  /\ shared = Zero
  /\ gauge = [w \in Workers |-> 0]
  /\ alive = [w \in Workers |-> 0]
  /\ attempts = 0 /\ faults = 0
  /\ happened = Zero /\ lost = Zero /\ missed = [w \in Workers |-> None]

\* What an attempt that ended in o adds to the counters.
CountedAs(o) ==
  [f \in Fields |->
     IF f = <<"attempts", o>> \/ (IsTerminal(o) /\ f = <<"terminal", TERMINAL_RESULT[o]>>)
     THEN 1 ELSE 0]

\* observe: the first bucket whose bound is not below the value
BucketOf(d) == Min({i \in 1..Len(Bounds) : d <= Bounds[i]} \union {Len(Bounds) + 1})

Observed(d) ==
  [f \in Fields |->
     IF f = <<"bucket", BucketOf(d)>> THEN 1 ELSE IF f = Sum THEN d ELSE 0]

redis == <<shared, gauge, alive>>
bounds == <<attempts, faults>>

\* stats.record(result.outcome); acknowledging the entry comes in between
Record(w, o) ==
  /\ up[w] /\ ~recorded[w] /\ attempts < MaxAttempts
  /\ recorded' = [recorded EXCEPT ![w] = TRUE] /\ attempts' = attempts + 1
  /\ outcomes' = [outcomes EXCEPT ![w][o] = @ + 1]
  /\ happened' = Plus(happened, CountedAs(o))
  /\ UNCHANGED <<up, last, local, incrs, after, due, redis, faults, lost, missed>>

\* record_page, in the finally clause: also for an attempt that raised before
\* it recorded an outcome
Observe(w, d) ==
  /\ up[w]
  /\ \/ recorded[w] /\ attempts' = attempts
     \/ ~recorded[w] /\ attempts < MaxAttempts /\ attempts' = attempts + 1
  /\ recorded' = [recorded EXCEPT ![w] = FALSE]
  /\ local' = [local EXCEPT ![w] = Plus(@, Observed(d))]
  /\ happened' = Plus(happened, Observed(d))
  /\ UNCHANGED <<up, outcomes, last, incrs, after, due, redis, faults, lost, missed>>

Delta(now, before, o) == Max({0, now[o] - before[o]})

\* The sum of the values of a function, as the number of units in them.
Total(n) == Cardinality(UNION {{x} \X (1..n[x]) : x \in DOMAIN n})

EndingIn(r) == {o \in Outcomes : IsTerminal(o) /\ TERMINAL_RESULT[o] = r}

\* sync: the running totals as deltas of both counters
Synced(now, before) ==
  [f \in Fields |->
     IF f[1] = "attempts" THEN Delta(now, before, f[2])
     ELSE IF f[1] = "terminal" THEN Total([o \in EndingIn(f[2]) |-> Delta(now, before, o)])
     ELSE 0]

\* Mutant: the totals of the last sync are not remembered.
FlushForgetsSync(w) ==
  /\ up[w] /\ after[w] = "none" /\ due[w] = 0
  /\ incrs' = [incrs EXCEPT ![w] = Plus(local[w], Synced(outcomes[w], last[w]))]
  /\ after' = [after EXCEPT ![w] = "hset"]
  /\ local' = [local EXCEPT ![w] = Zero] /\ last' = last
  /\ due' = [due EXCEPT ![w] = INTERVAL]
  /\ UNCHANGED <<up, recorded, outcomes, redis, bounds, happened, lost, missed>>

\* WorkerMetrics.flush up to its await: sync, drain, and the pipeline, which
\* has a command for every delta that is not zero.
Flush(w) ==
  /\ up[w] /\ after[w] = "none" /\ due[w] = 0
  /\ incrs' = [incrs EXCEPT ![w] = Plus(local[w], Synced(outcomes[w], last[w]))]
  /\ after' = [after EXCEPT ![w] = "hset"]
  /\ last' = [last EXCEPT ![w] = outcomes[w]]
  /\ local' = [local EXCEPT ![w] = Zero]
  /\ due' = [due EXCEPT ![w] = INTERVAL]
  /\ UNCHANGED <<up, recorded, outcomes, redis, bounds, happened, lost, missed>>

\* HINCRBYFLOAT of a field, the next one that has a delta
Incr(w, f) ==
  /\ incrs[w][f] # 0 /\ \A g \in Fields : incrs[w][g] # 0 => Rank(f) <= Rank(g)
  /\ shared' = [shared EXCEPT ![f] = @ + incrs[w][f]]
  /\ incrs' = [incrs EXCEPT ![w][f] = 0]
  /\ UNCHANGED <<up, recorded, outcomes, last, local, after, due, gauge, alive, bounds,
                 happened, lost, missed>>

\* HSET of the gauges; it leaves the ttl of a key that exists
SetGauges(w) ==
  /\ after[w] = "hset" /\ incrs[w] = Zero
  /\ gauge' = [gauge EXCEPT ![w] = IF @ = 0 THEN Forever ELSE @]
  /\ after' = [after EXCEPT ![w] = "expire"]
  /\ UNCHANGED <<up, recorded, outcomes, last, local, incrs, due, shared, alive, bounds,
                 happened, lost, missed>>

\* Mutant: the key of the gauges is not given a ttl again by later flushes.
ExpireGaugesOnce(w) ==
  /\ after[w] = "expire"
  /\ gauge' = [gauge EXCEPT ![w] = IF @ = Forever THEN TTL ELSE @]
  /\ after' = [after EXCEPT ![w] = "beat"]
  /\ UNCHANGED <<up, recorded, outcomes, last, local, incrs, due, shared, alive, bounds,
                 happened, lost, missed>>

ExpireGauges(w) ==
  /\ after[w] = "expire"
  /\ gauge' = [gauge EXCEPT ![w] = TTL]
  /\ after' = [after EXCEPT ![w] = "beat"]
  /\ UNCHANGED <<up, recorded, outcomes, last, local, incrs, due, shared, alive, bounds,
                 happened, lost, missed>>

\* SET of the heartbeat, the last command: execute() returns.
Beat(w) ==
  /\ after[w] = "beat"
  /\ alive' = [alive EXCEPT ![w] = TTL]
  /\ after' = [after EXCEPT ![w] = "none"]
  /\ missed' = [missed EXCEPT ![w] = 0]
  /\ UNCHANGED <<up, recorded, outcomes, last, local, incrs, due, shared, gauge, bounds,
                 happened, lost>>

\* execute() raises: the loop logs it and goes on, and what was drained is gone.
Tear(w) ==
  /\ after[w] # "none" /\ faults < MaxFaults /\ faults' = faults + 1
  /\ lost' = Plus(lost, incrs[w])
  /\ incrs' = [incrs EXCEPT ![w] = Zero] /\ after' = [after EXCEPT ![w] = "none"]
  /\ missed' = [missed EXCEPT ![w] = IF @ = None THEN None ELSE @ + 1]
  /\ UNCHANGED <<up, recorded, outcomes, last, local, due, redis, attempts, happened>>

\* The process ends, by a crash or after a graceful stop: maintenance is
\* cancelled without a last flush, so both lose what has not been flushed.
Exit(w) ==
  /\ up[w] /\ faults < MaxFaults /\ faults' = faults + 1
  /\ up' = [up EXCEPT ![w] = FALSE] /\ recorded' = [recorded EXCEPT ![w] = FALSE]
  /\ lost' = Plus(lost, Plus(incrs[w], Plus(local[w], Synced(outcomes[w], last[w]))))
  /\ outcomes' = [outcomes EXCEPT ![w] = Fresh] /\ last' = [last EXCEPT ![w] = Fresh]
  /\ local' = [local EXCEPT ![w] = Zero]
  /\ incrs' = [incrs EXCEPT ![w] = Zero] /\ after' = [after EXCEPT ![w] = "none"]
  /\ due' = [due EXCEPT ![w] = INTERVAL] /\ missed' = [missed EXCEPT ![w] = None]
  /\ UNCHANGED <<redis, attempts, happened>>

Restart(w) ==
  /\ ~up[w] /\ up' = [up EXCEPT ![w] = TRUE]
  /\ UNCHANGED <<recorded, outcomes, last, local, incrs, after, due, redis, bounds,
                 happened, lost, missed>>

\* A tick of the clock; commands take none, and a flush that is due is begun.
Aged(t) == IF t \in {0, Forever} THEN t ELSE t - 1

Tick ==
  /\ \A w \in Workers : after[w] = "none" /\ (up[w] => due[w] > 0)
  /\ due' = [w \in Workers |-> IF up[w] THEN due[w] - 1 ELSE due[w]]
  /\ gauge' = [w \in Workers |-> Aged(gauge[w])]
  /\ alive' = [w \in Workers |-> Aged(alive[w])]
  /\ UNCHANGED <<up, recorded, outcomes, last, local, incrs, after, shared, bounds,
                 happened, lost, missed>>

Next ==
  \/ \E w \in Workers :
       \/ \E o \in Outcomes : Record(w, o)
       \/ \E d \in Durations : Observe(w, d)
       \/ \E f \in Fields : Incr(w, f)
       \/ Flush(w) \/ SetGauges(w) \/ ExpireGauges(w) \/ Beat(w)
       \/ Tear(w) \/ Exit(w) \/ Restart(w)
  \/ Tick

Spec == Init /\ [][Next]_vars

-----------------------------------------------------------------------------
\* What a worker has counted and not yet written to a field.
Pending(w, f) == incrs[w][f] + local[w][f] + Synced(outcomes[w], last[w])[f]

\* Whatever interleaves with a flush, tears it or ends its process, everything
\* counted is in exactly one place: in Redis, still with its worker, or gone
\* with a flush that raised or a process that ended.  In particular the fleet
\* totals never count anything twice (drain, sync, HINCRBYFLOAT).
NothingCountedTwice ==
  \A f \in Fields :
    shared[f] + lost[f] + Total([w \in Workers |-> Pending(w, f)]) = happened[f]

\* A live worker that has reported once stays visible, heartbeat and gauges,
\* over a flush that raises (the ttl of three flush intervals).
LiveWorkersVisible ==
  \A w \in Workers :
    up[w] /\ missed[w] \in {0, 1} => alive[w] > 0 /\ gauge[w] > 0
=============================================================================

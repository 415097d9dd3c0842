------------------------------ MODULE ModelCall ------------------------------
(* Calls of one model endpoint by the workers' coroutines: _post and         *)
(* _post_with_retries of app/worker/client.py, composed with the endpoint's  *)
(* circuit breaker, token bucket and AIMD controller, which live in Redis    *)
(* and are shared by all callers.  A step is one await and the local code    *)
(* up to the next one; time advances in ticks between steps.                 *)
EXTENDS Breaker, TokenBucket, AdaptiveRate

CONSTANTS Callers,       \* coroutines that call the endpoint
          MAX_ATTEMPTS,  \* attempts of one call
          TIMEOUT,       \* ticks after which the HTTP client gives up
          JITTER,        \* ticks a reserved sleep may be prolonged by
          MayVanish      \* whether callers die or lose Redis

ASSUME CallAssumption ==
  /\ Callers # {} /\ IsFiniteSet(Callers)
  /\ MAX_ATTEMPTS \in Nat \ {0} /\ TIMEOUT \in Nat \ {0} /\ JITTER \in Nat
  /\ MayVanish \in BOOLEAN

VARIABLES
  wired,    \* which of breaker, limiter and controller the client was given
  br, bucket, aimd, ring,   \* the keys of the endpoint in Redis
  call,     \* control state of each caller
  healthy,  \* the endpoint answers every request, and in time
  leaked,   \* an admitted call has ended without reporting its outcome
  meter     \* a bucket that watches the requests sent, at the advertised rate

vars == <<wired, br, bucket, aimd, ring, call, healthy, leaked, meter>>

Has(part) == part \in wired

\* What a request can come to.  "rejected" is a 429, "refused" a status that
\* is not worth a retry, "cancelled" the cancellation of the coroutine.
Answers == {"ok", "rejected", "error", "refused", "timeout", "cancelled"}

\* What the retry loop tells apart: a result, or the disposition of the failure.
classify(a) ==
  IF a = "ok" THEN "ok"
  ELSE IF a \in {"rejected", "error", "timeout"} THEN "RETRY" ELSE "PERMANENT"

Idle ==
  [pc |-> "idle", attempt |-> 0, rate |-> 0, left |-> 0, lat |-> 0,
   probe |-> FALSE, answer |-> "ok"]

AtPc(c, pc) == call[c].pc = pc

Becomes(c, k) == call' = [call EXCEPT ![c] = k]

Goto(c, pc) == Becomes(c, [call[c] EXCEPT !.pc = pc])

End(c) == Becomes(c, Idle)

\* The gates of _post in order; an absent one is skipped.
ToAcquire == IF Has("limiter") THEN "acquire" ELSE "post"

ToRate == IF Has("controller") THEN "rate" ELSE ToAcquire

ToAllow == IF Has("breaker") THEN "allow" ELSE ToRate

Redis == <<br, bucket, aimd, ring>>

\* The reference meter holds a burst, and as much again as rounding a wait up
\* to a tick and jitter can push together.
MeterCap == BURST + JITTER * MAX_RATE + MAX_RATE - 1

Metered == wired = {"limiter"}

Sent == meter' = IF Metered THEN meter - COST ELSE meter

Init ==
  /\ wired \in SUBSET {"breaker", "limiter", "controller"}
  /\ br = NoBreaker /\ bucket = NoBucket /\ aimd = NoController /\ ring = <<>>
  /\ call = [c \in Callers |-> Idle]
  /\ healthy = FALSE /\ leaked = FALSE /\ meter = MeterCap

\* layout() or vlm() is called.
Start(c) ==
  /\ AtPc(c, "idle")
  /\ Becomes(c, [Idle EXCEPT !.pc = ToAllow])
  /\ UNCHANGED <<wired, Redis, healthy, leaked, meter>>

\* breaker.allow(): a refusal is CircuitOpen, which no attempt retries.
AskBreaker(c) ==
  /\ AtPc(c, "allow")
  /\ br' = Allow(br)
  /\ IF Admits(Touch(br))
     THEN Becomes(c, [call[c] EXCEPT !.pc = ToRate,
                                     !.probe = Touch(br).state = "HALF_OPEN"])
     ELSE End(c)
  /\ UNCHANGED <<wired, bucket, aimd, ring, healthy, leaked, meter>>

\* controller.current(): the rate the next command will use.
ReadRate(c) ==
  /\ AtPc(c, "rate")
  /\ Becomes(c, [call[c] EXCEPT !.rate = aimd.rate, !.pc = ToAcquire])
  /\ UNCHANGED <<wired, Redis, healthy, leaked, meter>>

\* The rate handed to the bucket: the controller's, or the configured one.
Setpoint(c) == IF Has("controller") THEN call[c].rate ELSE MAX_RATE

\* limiter.acquire(): granted at once, reserved and slept for, or refused with
\* RateLimitTimeout, which leaves _post outside its try block: the breaker
\* hears nothing of it.
Acquire(c) ==
  LET r    == Refill(bucket, Setpoint(c))
      wait == WaitFor(r, Setpoint(c))
  IN  /\ AtPc(c, "acquire")
      /\ bucket' = TryAcquire(bucket, Setpoint(c))
      /\ \/ /\ Granted(bucket, Setpoint(c)) /\ wait = 0
            /\ Becomes(c, [call[c] EXCEPT !.pc = "post", !.rate = 0])
            /\ Sent /\ leaked' = leaked
         \/ /\ Granted(bucket, Setpoint(c)) /\ wait > 0
            /\ \E j \in 0..JITTER :
                 Becomes(c, [call[c] EXCEPT !.pc = "sleep", !.rate = 0,
                                            !.left = wait + j])
            /\ UNCHANGED <<leaked, meter>>
         \/ /\ ~Granted(bucket, Setpoint(c))
            /\ End(c) /\ leaked' = (leaked \/ call[c].probe) /\ meter' = meter
      /\ UNCHANGED <<wired, br, aimd, ring, healthy>>

Wake(c) ==
  /\ AtPc(c, "sleep") /\ call[c].left = 0
  /\ Goto(c, "post") /\ Sent
  /\ UNCHANGED <<wired, Redis, healthy, leaked>>

\* The POST returns or raises.
Answer(c, a) ==
  /\ AtPc(c, "post")
  /\ a = "timeout" => call[c].lat = TIMEOUT \/ ~Has("controller")
  /\ healthy => a = "ok"
  /\ Becomes(c, [call[c] EXCEPT !.answer = classify(a),
        !.lat = IF a = "ok" THEN @ ELSE 0,
        !.pc =
          IF a = "ok" THEN (IF Has("controller") THEN "bank" ELSE "report")
          ELSE IF a \in {"rejected", "timeout"} /\ Has("controller")
          THEN "congest" ELSE "report"])
  /\ UNCHANGED <<wired, Redis, healthy, leaked, meter>>

\* controller.on_congestion().
SignalLoad(c) ==
  /\ AtPc(c, "congest")
  /\ aimd' = OnCongestion(aimd)
  /\ Goto(c, "report")
  /\ UNCHANGED <<wired, br, bucket, ring, healthy, leaked, meter>>

\* controller.on_success(), with the latency of the request.
BankSuccess(c) ==
  /\ AtPc(c, "bank")
  /\ ring' = Pushed(ring, call[c].lat)
  /\ aimd' = OnSuccess(aimd, ring')
  /\ Becomes(c, [call[c] EXCEPT !.pc = "report", !.lat = 0])
  /\ UNCHANGED <<wired, br, bucket, healthy, leaked, meter>>

\* record_success() or record_failure(), and what _post_with_retries makes of
\* the outcome.  A failure that is worth it is tried again from the first gate
\* after a backoff, for as long as attempts are left.
Report(c) ==
  LET ok    == call[c].answer = "ok"
      again == /\ call[c].answer = "RETRY"
               /\ call[c].attempt + 1 < MAX_ATTEMPTS
  IN  /\ AtPc(c, "report")
      /\ br' = IF ~Has("breaker") THEN br
               ELSE IF ok THEN Success(br) ELSE Failure(br)
      /\ Becomes(c, IF again
           THEN [Idle EXCEPT !.pc = ToAllow, !.attempt = call[c].attempt + 1]
           ELSE Idle)
      /\ UNCHANGED <<wired, bucket, aimd, ring, healthy, leaked, meter>>

\* The caller's process dies, or a Redis command of it fails: the call ends
\* without the report the breaker is waiting for.
Vanish(c) ==
  /\ MayVanish /\ Has("breaker") /\ ~leaked /\ ~AtPc(c, "idle")
  /\ End(c) /\ leaked' = TRUE
  /\ UNCHANGED <<wired, Redis, healthy, meter>>

\* /metrics peeks at the breaker.
Scrape ==
  /\ Has("breaker")
  /\ br' = Touch(br)
  /\ UNCHANGED <<wired, bucket, aimd, ring, call, healthy, leaked, meter>>

Heal ==
  /\ ~healthy /\ healthy' = TRUE
  /\ \A c \in Callers : AtPc(c, "post") => call[c].lat <= LATENCY_SLO
  /\ UNCHANGED <<wired, Redis, call, leaked, meter>>

\* Past this the bucket is full again at any rate.
FullAfter(b) == BURST - b.tokens

\* Only the controller measures how long a request takes; without one it may
\* take any time.
Timed(c) == AtPc(c, "post") /\ Has("controller")

\* A tick: sleepers that are due have woken, and a request is not kept waiting
\* beyond the client's timeout, nor beyond the SLO by a healthy endpoint.
Tick ==
  /\ \A c \in Callers :
       /\ AtPc(c, "sleep") => call[c].left > 0
       /\ Timed(c) => call[c].lat < TIMEOUT /\ (healthy => call[c].lat < LATENCY_SLO)
  /\ call' = [c \in Callers |->
       [call[c] EXCEPT !.left = IF AtPc(c, "sleep") THEN @ - 1 ELSE @,
                       !.lat  = IF Timed(c) THEN @ + 1 ELSE @]]
  /\ br' = Age(br)
  /\ bucket' = [bucket EXCEPT !.elapsed =
                  IF @ < FullAfter(bucket) THEN @ + 1 ELSE @]
  /\ aimd' = [aimd EXCEPT !.cut = IF @ < REFRACTORY THEN @ + 1 ELSE @]
  /\ meter' = IF meter + MAX_RATE > MeterCap THEN MeterCap ELSE meter + MAX_RATE
  /\ UNCHANGED <<wired, ring, healthy, leaked>>

\* The keys expire once the endpoint has been left alone for long.
Expire ==
  /\ \A c \in Callers : AtPc(c, "idle")
  /\ br.window = WINDOW /\ br.opened = COOLDOWN
  /\ bucket.elapsed = FullAfter(bucket) /\ aimd.cut = REFRACTORY
  /\ br' = NoBreaker /\ bucket' = NoBucket /\ aimd' = NoController
  /\ ring' = <<>>
  /\ UNCHANGED <<wired, call, healthy, leaked, meter>>

Step(c) ==
  \/ AskBreaker(c) \/ ReadRate(c) \/ Acquire(c) \/ Wake(c)
  \/ \E a \in Answers : Answer(c, a)
  \/ SignalLoad(c) \/ BankSuccess(c) \/ Report(c)

Next ==
  \/ \E c \in Callers : Start(c) \/ Step(c) \/ Vanish(c)
  \/ Scrape \/ Heal \/ Tick \/ Expire

Spec == Init /\ [][Next]_vars

\* Time passes, calls that wait for an answer, a timer or Redis get it, and
\* there is always another page to call the endpoint for.
LiveSpec ==
  /\ Spec /\ WF_vars(Tick)
  /\ \A c \in Callers : WF_vars(Start(c) \/ Step(c))

-----------------------------------------------------------------------------
InFlight == {c \in Callers : ~AtPc(c, "idle")}

\* Shapes and ranges of the calls and of the keys.
CallTypeOK ==
  /\ wired \subseteq {"breaker", "limiter", "controller"}
  /\ br.state \in BreakerState /\ br.probes \in 0..MAX_PROBES
  /\ br.probe_ok \in 0..(PROBE_SUCCESSES - 1)
  /\ br.window \in 0..WINDOW /\ br.opened \in 0..COOLDOWN
  /\ {br.failures, br.successes} \subseteq Nat
  /\ bucket.tokens \in Int /\ bucket.elapsed \in Nat
  /\ aimd.rate \in MIN_RATE..MAX_RATE /\ aimd.cut \in 0..REFRACTORY
  /\ aimd.successes \in 0..(INCREASE_AFTER - 1)
  /\ Len(ring) <= RING_SIZE
  /\ \A c \in Callers :
       /\ call[c].pc \in {"idle", "allow", "rate", "acquire", "sleep", "post",
                          "congest", "bank", "report"}
       /\ call[c].attempt \in 0..(MAX_ATTEMPTS - 1)
       /\ call[c].rate = 0 \/ call[c].rate \in MIN_RATE..MAX_RATE
       /\ call[c].left \in 0..(MAX_WAIT + JITTER) /\ call[c].lat \in 0..TIMEOUT
       /\ call[c].answer \in {"ok", "RETRY", "PERMANENT"}

\* However the rate moves, the reservations outstanding never exceed what the
\* wait budget promises at the advertised rate (the bound stated in the bucket's
\* script).
DebtBounded == bucket.tokens >= -(MAX_WAIT * MAX_RATE) /\ bucket.tokens <= BURST

\* At the configured rate, the requests sent by all callers together conform to
\* a bucket of that rate and burst: reserving instead of polling lets no more
\* through in any interval.
SendsConform == Metered => meter >= 0

\* A probe slot of a half-open breaker belongs to a probe in flight, unless a
\* call was lost: nobody waits for the outcome of a probe that has ended.
SlotsHaveOwners ==
  br.state = "HALF_OPEN" /\ ~leaked =>
    br.probes <= Cardinality({c \in InFlight : call[c].probe})

\* A half-open breaker is closed by its probes or reopened by one of them.
ProbesDecide == br.state = "HALF_OPEN" ~> br.state # "HALF_OPEN"

\* A congestion signal, be it a 429, a timeout or a latency above the SLO, does
\* not raise the rate.
CongestionSlowsDown ==
  [][\A c \in Callers :
       SignalLoad(c) \/ (BankSuccess(c) /\ Slow(ring')) => aimd'.rate <= aimd.rate]_vars

\* An endpoint that has recovered gets its circuit closed and its advertised
\* rate back for good, as long as no call is lost.
EndpointRecovers ==
  <>healthy /\ []~leaked =>
    <>[](br.state = "CLOSED" /\ aimd.rate = MAX_RATE)
=============================================================================

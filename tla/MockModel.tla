------------------------------ MODULE MockModel ------------------------------
(***************************************************************************)
(* The stand-in model service (mock_model/): one event loop serving        *)
(* predict requests.  Requests that carry an Idempotency-Key share one     *)
(* execution: the first for a key leads, later ones follow it or are       *)
(* answered from a cache bounded by age and by number of entries.  The     *)
(* loop switches requests only at an await, so everything from arrival to  *)
(* the simulated latency is one step, and everything after it another.     *)
(***************************************************************************)
EXTENDS Integers, Sequences, SequencesExt, FiniteSets

CONSTANTS Requests,     \* one element per request a worker ever sends
          Keys,         \* Idempotency-Key values
          NoKey,        \* the header is absent
          NoRequest,
          MAX_ENTRIES,  \* IdempotencyStore.max_entries
          BURST,        \* capacity of the endpoint's token bucket
          MaxResets     \* bound: calls of /admin/reset

ASSUME MockAssumption ==
  /\ NoKey \notin Keys /\ NoRequest \notin Requests /\ IsFiniteSet(Requests)
  /\ MAX_ENTRIES \in Nat \ {0} /\ BURST \in Nat \ {0} /\ MaxResets \in Nat

VARIABLES pc,         \* new, run (asleep in the model), join (awaits a handle), done
          key,        \* the header of a request that has arrived
          handle,     \* the in-flight handle a follower holds, named by its leader
          outcome,    \* what the handle's event released: none, body or error
          answer,     \* what the caller received: none, body, error or cut
          inflight,   \* key -> leader of the open handle
          cache,      \* keys with a stored response, least recently used first
          stale,      \* cached keys whose ttl has passed
          tracked,    \* keys of _executions, oldest record first
          count,      \* _executions
          duplicates, \* _duplicates
          tokens,     \* whole tokens in the bucket
          chaos,      \* status of the live chaos rule: 0 when there is none
          st,         \* EndpointStats
          resets,
          ran,        \* history: completed runs since the response was forgotten
          total,      \* history: completed runs
          cut         \* history: leaders cancelled since the last reset

store == <<inflight, cache, stale, tracked, count, duplicates>>
edge == <<tokens, chaos, resets>>
vars == <<pc, key, handle, outcome, answer, store, edge, st, ran, total, cut>>

Statistics == [requests : Nat, executions : Nat, replays : Nat, rate_limited : Nat,
               injected_failures : Nat]

NoStats == [requests |-> 0, executions |-> 0, replays |-> 0,
            rate_limited |-> 0, injected_failures |-> 0]

Init ==
  /\ pc = [q \in Requests |-> "new"]
  /\ key = [q \in Requests |-> NoKey]
  /\ handle = [q \in Requests |-> NoRequest]
  /\ outcome = [q \in Requests |-> "none"]
  /\ answer = [q \in Requests |-> "none"]
  /\ inflight = [k \in Keys |-> NoRequest]
  /\ cache = <<>> /\ stale = {}
  /\ tracked = <<>> /\ count = [k \in Keys |-> 0]
  /\ duplicates = [k \in Keys |-> 0]
  /\ tokens = BURST /\ chaos = 0 /\ resets = 0
  /\ st = NoStats
  /\ ran = [k \in Keys |-> 0] /\ total = [k \in Keys |-> 0] /\ cut = 0

Arrived(s) == [s EXCEPT !.requests = @ + 1]

Remove1(s, k) ==
  IF k \in Range(s) THEN RemoveAt(s, CHOOSE i \in DOMAIN s : s[i] = k) ELSE s

Freshest(s, k) == Append(Remove1(s, k), k)

\* popitem(last=False): what no longer fits leaves from the old end
Evict(s) == IF Len(s) > MAX_ENTRIES THEN Tail(s) ELSE s

Forget(f, kept) == [k \in Keys |-> IF k \in Range(kept) THEN f[k] ELSE 0]

Cached(k) == k \in Range(cache) /\ k \notin stale

\* A stored response: no token, no latency.
Replay(q, k) ==
  /\ pc[q] = "new" /\ Cached(k)
  /\ pc' = [pc EXCEPT ![q] = "done"] /\ key' = [key EXCEPT ![q] = k]
  /\ answer' = [answer EXCEPT ![q] = "body"]
  /\ cache' = Freshest(cache, k)
  /\ st' = Arrived([st EXCEPT !.replays = @ + 1])
  /\ UNCHANGED <<handle, outcome, inflight, stale, tracked, count, duplicates,
                 edge, ran, total, cut>>

\* get drops an entry it finds too old; what it drops can run again
Drop(k) ==
  /\ cache' = IF k \in stale THEN Remove1(cache, k) ELSE cache
  /\ stale' = stale \ {k}
  /\ ran' = IF k \in stale THEN [ran EXCEPT ![k] = 0] ELSE ran

\* The same key is being executed: wait for its leader.
Follow(q, k) ==
  /\ pc[q] = "new" /\ ~Cached(k) /\ inflight[k] # NoRequest
  /\ pc' = [pc EXCEPT ![q] = "join"] /\ key' = [key EXCEPT ![q] = k]
  /\ handle' = [handle EXCEPT ![q] = inflight[k]]
  /\ Drop(k)
  /\ st' = Arrived([st EXCEPT !.replays = @ + 1])
  /\ UNCHANGED <<outcome, answer, inflight, tracked, count, duplicates, edge, total, cut>>

\* Mutant: the in-flight table is not consulted.
ExecutesUncoalesced(q, k) ==
  /\ pc[q] = "new"
  /\ \/ k = NoKey /\ UNCHANGED <<cache, stale, ran>>
     \/ k \in Keys /\ ~Cached(k) /\ Drop(k)
  /\ key' = [key EXCEPT ![q] = k]

\* The branch of _handle that reaches _execute: no header, or a new leader.
Executes(q, k) ==
  /\ pc[q] = "new"
  /\ \/ k = NoKey /\ UNCHANGED <<cache, stale, ran>>
     \/ k \in Keys /\ ~Cached(k) /\ inflight[k] = NoRequest /\ Drop(k)
  /\ key' = [key EXCEPT ![q] = k]

\* A chaos rule or an empty bucket refuses before any await: the handle is
\* opened and abandoned within the step, and nobody can have joined it.
Refuse(q, k) ==
  /\ Executes(q, k)
  /\ \/ chaos = 429 /\ st' = Arrived([st EXCEPT !.rate_limited = @ + 1])
     \/ chaos = 500 /\ st' = Arrived([st EXCEPT !.injected_failures = @ + 1])
     \/ tokens = 0 /\ st' = Arrived([st EXCEPT !.rate_limited = @ + 1])
  /\ pc' = [pc EXCEPT ![q] = "done"]
  /\ answer' = [answer EXCEPT ![q] = "error"]
  /\ UNCHANGED <<handle, outcome, inflight, tracked, count, duplicates, edge, total, cut>>

\* The ratio of a live chaos rule lets the request through, or there is none.
Start(q, k) ==
  /\ Executes(q, k)
  /\ tokens > 0 /\ tokens' = tokens - 1
  /\ pc' = [pc EXCEPT ![q] = "run"]
  /\ inflight' = IF k = NoKey THEN inflight ELSE [inflight EXCEPT ![k] = q]
  /\ st' = Arrived(st)
  /\ UNCHANGED <<handle, outcome, answer, tracked, count, duplicates, chaos,
                 resets, total, cut>>

\* Mutant: an execution that fails removes its handle and sets no event.
ReleaseSilently(q, o) ==
  /\ inflight' = [k \in Keys |-> IF inflight[k] = q THEN NoRequest ELSE inflight[k]]
  /\ outcome' = IF o = "body" THEN [outcome EXCEPT ![q] = o] ELSE outcome

\* finish and abandon: close the handle and release whoever waits on it
Release(q, o) ==
  /\ inflight' = [k \in Keys |-> IF inflight[k] = q THEN NoRequest ELSE inflight[k]]
  /\ outcome' = [outcome EXCEPT ![q] = o]

Leave(q, a) ==
  /\ pc' = [pc EXCEPT ![q] = "done"]
  /\ answer' = [answer EXCEPT ![q] = a]

record_execution(k) ==
  LET kept == Evict(Freshest(tracked, k))
      now  == count[k] + 1
  IN /\ tracked' = kept
     /\ count' = Forget([count EXCEPT ![k] = now], kept)
     /\ duplicates' = IF now > 1 THEN [duplicates EXCEPT ![k] = now] ELSE duplicates

\* Mutant: a response is not stored when its key is new to the cache.
putKnown(k) ==
  /\ UNCHANGED <<cache, stale>>
  /\ ran' = [ran EXCEPT ![k] = @ + 1]

put(k) ==
  LET kept == Evict(Freshest(cache, k))
  IN /\ cache' = kept
     /\ stale' = (stale \ {k}) \intersect Range(kept)
     /\ ran' = Forget([ran EXCEPT ![k] = @ + 1], kept)

\* The latency is over and the model answers.
Succeed(q) ==
  /\ pc[q] = "run"
  /\ Leave(q, "body") /\ Release(q, "body")
  /\ \/ /\ key[q] \in Keys
        /\ record_execution(key[q]) /\ put(key[q])
        /\ total' = [total EXCEPT ![key[q]] = @ + 1]
     \/ /\ key[q] = NoKey
        /\ UNCHANGED <<cache, stale, tracked, count, duplicates, ran, total>>
  /\ st' = [st EXCEPT !.executions = @ + 1]
  /\ UNCHANGED <<key, handle, edge, cut>>

\* The latency is over and the model fails at random.
Fail(q) ==
  /\ pc[q] = "run"
  /\ Leave(q, "error") /\ Release(q, "error")
  /\ st' = [st EXCEPT !.injected_failures = @ + 1]
  /\ UNCHANGED <<key, handle, cache, stale, tracked, count, duplicates, edge,
                 ran, total, cut>>

\* A request is cancelled in its await: a leader abandons its followers.
Cancel(q) ==
  /\ pc[q] \in {"run", "join"}
  /\ Leave(q, "cut")
  /\ IF pc[q] = "run" THEN Release(q, "error") /\ cut' = cut + 1
                      ELSE UNCHANGED <<inflight, outcome, cut>>
  /\ UNCHANGED <<key, handle, cache, stale, tracked, count, duplicates, edge, st,
                 ran, total>>

\* The event is set: the follower shares the leader's body or error.
Join(q) ==
  /\ pc[q] = "join" /\ outcome[handle[q]] # "none"
  /\ Leave(q, outcome[handle[q]])
  /\ UNCHANGED <<key, handle, outcome, store, edge, st, ran, total, cut>>

\* A ttl passes; a token accrues; an operator sets a chaos rule, or it ends.
GrowOld(k) ==
  /\ Cached(k) /\ stale' = stale \union {k}
  /\ UNCHANGED <<pc, key, handle, outcome, answer, inflight, cache, tracked, count,
                 duplicates, edge, st, ran, total, cut>>
Accrue ==
  /\ tokens < BURST /\ tokens' = tokens + 1
  /\ UNCHANGED <<pc, key, handle, outcome, answer, store, chaos, resets, st, ran, total, cut>>
SetChaos(s) ==
  /\ chaos # s /\ chaos' = s
  /\ UNCHANGED <<pc, key, handle, outcome, answer, store, tokens, resets, st, ran, total, cut>>

\* /admin/reset between two scenarios: no request is in progress.
Reset ==
  /\ resets < MaxResets /\ resets' = resets + 1
  /\ \A q \in Requests : pc[q] \notin {"run", "join"}
  /\ cache' = <<>> /\ stale' = {} /\ tracked' = <<>>
  /\ count' = [k \in Keys |-> 0] /\ duplicates' = [k \in Keys |-> 0]
  /\ ran' = [k \in Keys |-> 0] /\ cut' = 0
  /\ st' = NoStats /\ chaos' = 0
  /\ UNCHANGED <<pc, key, handle, outcome, answer, inflight, tokens, total>>

Arrive(q) ==
  \/ \E k \in Keys : Replay(q, k) \/ Follow(q, k)
  \/ \E k \in Keys \union {NoKey} : Refuse(q, k) \/ Start(q, k)

Next ==
  \/ \E q \in Requests : Arrive(q) \/ Succeed(q) \/ Fail(q) \/ Cancel(q) \/ Join(q)
  \/ \E k \in Keys : GrowOld(k)
  \/ \E s \in {0, 429, 500} : SetChaos(s)
  \/ Accrue \/ Reset

Spec == Init /\ [][Next]_vars

\* asyncio.sleep ends, and a task whose event is set is run.
LiveSpec ==
  Spec /\ \A q \in Requests : WF_vars(Succeed(q) \/ Fail(q)) /\ WF_vars(Join(q))

-----------------------------------------------------------------------------
(* Type invariant.  cache and tracked never exceed max_entries and never   *)
(* hold a key twice, as put and record_execution evict in the same step.   *)
LruOf(s) == /\ s \in Seq(Keys) /\ Len(s) <= MAX_ENTRIES
            /\ IsInjective(s)

MockTypeOK ==
  /\ pc \in [Requests -> {"new", "run", "join", "done"}]
  /\ key \in [Requests -> Keys \union {NoKey}]
  /\ handle \in [Requests -> Requests \union {NoRequest}]
  /\ outcome \in [Requests -> {"none", "body", "error"}]
  /\ answer \in [Requests -> {"none", "body", "error", "cut"}]
  /\ inflight \in [Keys -> Requests \union {NoRequest}]
  /\ LruOf(cache) /\ stale \subseteq Range(cache)
  /\ LruOf(tracked) /\ count \in [Keys -> Nat] /\ duplicates \in [Keys -> Nat]
  /\ tokens \in 0..BURST /\ chaos \in {0, 429, 500} /\ resets \in 0..MaxResets
  /\ st \in Statistics
  /\ ran \in [Keys -> Nat] /\ total \in [Keys -> Nat] /\ cut \in Nat

(* Single flight (begin, finish, abandon): the open handle of a key is     *)
(* that of the one request executing it, so two executions of a key never  *)
(* overlap and no handle outlives its leader.                              *)
SingleFlight ==
  /\ \A q \in Requests : pc[q] = "run" /\ key[q] \in Keys => inflight[key[q]] = q
  /\ \A k \in Keys : inflight[k] # NoRequest =>
       pc[inflight[k]] = "run" /\ key[inflight[k]] = k

(* "Same key, model runs once": however arrivals, failures, cancellations  *)
(* and coalesced requests interleave, a key is executed again only after   *)
(* its response has expired, been evicted or been reset.                   *)
RunsOnceWhileRemembered == \A k \in Keys : ran[k] <= 1

(* A caller of a key is given a body only if the model produced one for    *)
(* that key (join: "reporting success would be a lie").                    *)
BodyMeansRan ==
  \A q \in Requests : answer[q] = "body" /\ key[q] \in Keys => total[key[q]] > 0

(* The counters of /admin/call-counts account for every request that was   *)
(* not cancelled inside the model: it is executing, or was counted once as *)
(* an execution, a replay, a refusal or a failure.                         *)
Accounted ==
  st.requests =
    st.executions + st.replays + st.rate_limited + st.injected_failures
    + Cardinality({q \in Requests : pc[q] = "run"})
    + cut

(* The evidence never accuses wrongly: a key reported in                   *)
(* duplicate_executions really ran more than once, and no recorded count   *)
(* is ahead of the runs.                                                   *)
EvidenceSound ==
  \A k \in Keys : /\ count[k] <= total[k] /\ duplicates[k] <= total[k]
                  /\ duplicates[k] # 1

(* "a permanent hang" is what abandon exists to prevent: a follower is     *)
(* always released, whether its leader succeeds, fails or is cancelled.    *)
FollowersReleased ==
  \A q \in Requests : pc[q] = "join" ~> pc[q] = "done"
=============================================================================

------------------------------- MODULE Expiry --------------------------------
(***************************************************************************)
(* The life of a job's keys (app/queue/state.py): the job hash and one     *)
(* hash per page are created with a ttl that every successful transition   *)
(* renews for its own page and for the job.  Pages nobody has started are   *)
(* renewed by a sweep, which the transition script claims when the last one *)
(* is more than half a ttl old and which its caller runs afterwards, as a   *)
(* best effort.  Time is counted in ticks; what a page goes through between *)
(* its first and its last transition is the subject of PageLifecycle.       *)
(***************************************************************************)
EXTENDS Integers, FiniteSets

CONSTANTS Pages,
          Movers,      \* coroutines of the fleet that move pages
          RESULT_TTL,  \* result_ttl_s
          GAP,         \* pause between two transitions of a job called normal
          DELAY        \* time a sweep takes to reach Redis called normal

\* A pause and a late sweep together fit in the half of the ttl that is left
\* when a sweep falls due.
ASSUME ExpiryAssumption ==
  /\ Pages # {} /\ IsFiniteSet(Pages)
  /\ RESULT_TTL \in Nat /\ GAP \in Nat /\ DELAY \in Nat
  /\ GAP + DELAY + RESULT_TTL \div 2 < RESULT_TTL

VARIABLES
  settled,   \* pages in a terminal state
  ttl,       \* per page: remaining life of its hash, 0 when it is gone
  job,       \* the job hash: its remaining life, total_pages present?, done_count
  since,     \* age of pages_renewed_at, counted up to RESULT_TTL
  sweep,     \* per mover: age of the sweep it has been told to run, or NoSweep
  reports,   \* transitions that have returned completed_job
  idle,      \* history: time since the last transition that succeeded
  trouble    \* history: what has gone beyond the normal

keyVars == <<settled, ttl, job, since, sweep, reports, idle, trouble>>

NoSweep == -1
Persistent == RESULT_TTL + 1   \* the remaining life of a key without a ttl

\* init_job: one MULTI/EXEC.
KeysInit ==
  /\ settled = {}
  /\ ttl = [p \in Pages |-> RESULT_TTL]
  /\ job = [ttl |-> RESULT_TTL, total |-> TRUE, done |-> 0]
  /\ since = 0
  /\ sweep = [w \in Movers |-> NoSweep]
  /\ reports = 0 /\ idle = 0 /\ trouble = {}

Exists == job.ttl > 0

\* PEXPIRE does nothing to a missing key; the writes that follow recreate the
\* job hash, with neither a ttl nor total_pages.
Renewed ==
  IF Exists THEN [job EXCEPT !.ttl = RESULT_TTL]
  ELSE [ttl |-> Persistent, total |-> FALSE, done |-> 0]

\* Mutant: gated on the remaining life of the job hash, which was just renewed.
SweepDueByTtl == ~Exists \/ 2 * (RESULT_TTL - Renewed.ttl) > RESULT_TTL

\* Is the marker stale?  A job hash that is gone has none.
SweepDue == ~Exists \/ 2 * since > RESULT_TTL

\* Mutant: a rejected transition renews as well.
RejectRenews(p) ==
  /\ ttl' = [ttl EXCEPT ![p] = IF @ > 0 THEN RESULT_TTL ELSE @]
  /\ job' = IF Exists THEN [job EXCEPT !.ttl = RESULT_TTL] ELSE job
  /\ UNCHANGED <<settled, since, sweep, reports, idle, trouble>>

\* The page is gone, or in a state the move may not start from: nothing is
\* written, and nothing is renewed.
Reject(p) == UNCHANGED keyVars

\* The script on a page it accepts.  final: the new state is terminal.
Commit(w, p, final) ==
  /\ ttl' = [ttl EXCEPT ![p] = RESULT_TTL]
  /\ since' = IF SweepDue THEN 0 ELSE since
  /\ sweep' = IF SweepDue /\ Renewed.total THEN [sweep EXCEPT ![w] = 0] ELSE sweep
  /\ job' = [Renewed EXCEPT !.done = IF final THEN @ + 1 ELSE @]
  /\ settled' = IF final THEN settled \cup {p} ELSE settled
  /\ reports' = IF final /\ Renewed.total /\ Renewed.done + 1 >= Cardinality(Pages)
                THEN reports + 1 ELSE reports
  /\ idle' = 0
  /\ UNCHANGED trouble

\* transition, up to the sweep it may have to run.
Transition(w, p, final) ==
  /\ sweep[w] = NoSweep
  /\ IF ttl[p] > 0 /\ p \notin settled THEN Commit(w, p, final) ELSE Reject(p)

Extend(reached) ==
  ttl' = [p \in Pages |-> IF p \in reached /\ ttl[p] > 0 THEN RESULT_TTL ELSE ttl[p]]

\* _renew_job_pages: a pipeline of PEXPIREs over all pages of the job.
RunSweep(w) ==
  /\ sweep[w] # NoSweep
  /\ Extend(Pages)
  /\ sweep' = [sweep EXCEPT ![w] = NoSweep]
  /\ UNCHANGED <<settled, job, since, reports, idle, trouble>>

\* The pipeline raises after some of its commands, or the worker dies before or
\* during it: logged at best, and the marker has moved on.
LoseSweep(w) ==
  /\ sweep[w] # NoSweep
  /\ \E reached \in SUBSET Pages : Extend(reached)
  /\ sweep' = [sweep EXCEPT ![w] = NoSweep] /\ trouble' = trouble \cup {"lost"}
  /\ UNCHANGED <<settled, job, since, reports, idle>>

Older(t) == IF t \in {0, Persistent} THEN t ELSE t - 1

UpTo(n, bound) == IF n < bound THEN n + 1 ELSE n

Elapse ==
  /\ ttl' = [p \in Pages |-> Older(ttl[p])]
  /\ job' = [job EXCEPT !.ttl = Older(@)]
  /\ since' = UpTo(since, RESULT_TTL)
  /\ sweep' = [w \in Movers |->
                 IF sweep[w] = NoSweep THEN NoSweep ELSE UpTo(sweep[w], DELAY + 1)]
  /\ idle' = UpTo(idle, RESULT_TTL)
  /\ trouble' = trouble
       \cup (IF settled # Pages /\ idle >= GAP THEN {"pause"} ELSE {})
       \cup (IF settled # Pages /\ idle + 1 >= RESULT_TTL THEN {"inactive"} ELSE {})
       \cup (IF \E w \in Movers : sweep[w] >= DELAY THEN {"late"} ELSE {})
  /\ UNCHANGED <<settled, reports>>

KeysNext ==
  \/ \E w \in Movers, p \in Pages, final \in BOOLEAN : Transition(w, p, final)
  \/ \E w \in Movers : RunSweep(w) \/ LoseSweep(w)
  \/ Elapse

KeysSpec == KeysInit /\ [][KeysNext]_keyVars

\* The clock does not stop.  Nothing is assumed of the workers.
KeysLiveSpec == KeysSpec /\ WF_keyVars(Elapse)

-----------------------------------------------------------------------------
\* Shapes and ranges of the keys.
ExpiryTypeOK ==
  /\ settled \subseteq Pages /\ ttl \in [Pages -> 0..RESULT_TTL]
  /\ job \in [ttl : 0..Persistent, total : BOOLEAN, done : Nat]
  /\ since \in 0..RESULT_TTL /\ sweep \in [Movers -> {NoSweep} \cup 0..(DELAY + 1)]
  /\ reports \in Nat /\ idle \in 0..RESULT_TTL
  /\ trouble \subseteq {"lost", "pause", "inactive", "late"}

\* "a job that is still making progress cannot age out from under itself": as
\* long as transitions keep coming and sweeps reach Redis in time, every page
\* to be processed has its hash, started or not, the job hash keeps its totals,
\* and exactly one transition is told that it settled the last page.
ActiveJobKept ==
  trouble = {} =>
    /\ \A p \in Pages \ settled : ttl[p] > 0
    /\ settled # Pages => job.ttl > 0 /\ job.total
    /\ reports = IF settled = Pages THEN 1 ELSE 0

\* "finished jobs reclaim themselves": redelivered pages notwithstanding, every
\* hash of a settled job expires, unless the job hash had expired before and was
\* recreated without a ttl by the last transition.
KeysReclaimed ==
  settled = Pages /\ job.ttl # Persistent ~>
    job.ttl = 0 /\ \A p \in Pages : ttl[p] = 0

\* The ttl as its comment puts it, "expires after this much INACTIVITY": a page
\* hash outlives any pause that is shorter than the ttl.
OnlyInactivityExpires ==
  trouble \subseteq {"pause"} => \A p \in Pages \ settled : ttl[p] > 0
=============================================================================

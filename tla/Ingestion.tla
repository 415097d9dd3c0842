------------------------------ MODULE Ingestion ------------------------------
(***************************************************************************)
(* Jobs entering the system and their documents leaving it: the endpoints   *)
(* of app/api/jobs.py on several API replicas, the admission script of      *)
(* app/api/admission.py, the creation of rows and tasks, and the two ways   *)
(* a document is deleted (app/pdf/splitter.py, app/worker/main.py).  What    *)
(* the workers do with a page is reduced to settling and acknowledging it;  *)
(* PageLifecycle has the rest.                                              *)
(***************************************************************************)
EXTENDS Integers, FiniteSets, FiniteSetsExt

CONSTANTS Jobs, Replicas, At,     \* At[j]: the replica that receives j
          MAX_PAGES, HIGH, LOW,   \* max_pages, the two watermarks
          RETRY_CAP,              \* retry_after_cap_s
          Uploads, Sizes,         \* bounds: jobs with a document, page counts of each
          MaxFaults, MaxTwins     \* bounds: crashes and Redis errors, requeues in progress

ASSUME IngestionAssumption ==
  /\ "none" \notin Jobs /\ IsFiniteSet(Jobs) /\ IsFiniteSet(Replicas) /\ Replicas # {}
  /\ At \in [Jobs -> Replicas]
  /\ {MAX_PAGES, HIGH, LOW, RETRY_CAP} \subseteq Nat \ {0} /\ LOW <= HIGH
  /\ Uploads \subseteq Jobs /\ Sizes \in [Jobs -> SUBSET Nat]
  /\ {MaxFaults, MaxTwins} \subseteq Nat

VARIABLES
  req,        \* per job: where its request is
  pages,      \* per job: page count of the request
  row,        \* per job: "none", "live" or "expired" (job and page hashes)
  queued,     \* per job: tasks in the streams whose page is not settled
  settled,    \* per job: tasks settled and not yet acknowledged
  twins,      \* per job: tasks re-added by a requeue, the old one not yet deleted
  done,       \* per job: done_count of the row
  checks,     \* per job: acknowledged, _maybe_delete_document still to run
  doc,        \* per job: "none", "fresh" or "old" (mtime beyond orphan_sweep_age_s)
  sweep,      \* job whose document the sweeper has decided to delete
  lock,       \* per replica: admission_lock
  shedding,   \* flag of the admission hash
  tally,      \* counters of the admission hash
  faults

tasks == <<queued, settled, twins, done, checks>>
vars == <<req, pages, row, tasks, doc, sweep, lock, shedding, tally, faults>>

None == "none"
Refused == "refused"
InSection == {"evaluating", "initialising", "enqueuing"}
InProgress == {"storing", "counting", "waiting"} \cup InSection

NoTally == [admitted |-> 0, shed |-> 0, trips |-> 0, recoveries |-> 0]

\* The entries counted per job by f, as a set: the jobs' shares are disjoint.
Entries(f) == UNION {{j} \X (1..f[j]) : j \in Jobs}
SumOver(f) == Cardinality(Entries(f))

\* XLEN over every lane.
Depth == SumOver(queued) + SumOver(settled) + SumOver(twins)

Init ==
  /\ req = [j \in Jobs |-> "new"] /\ pages = [j \in Jobs |-> 0]
  /\ row = [j \in Jobs |-> None]
  /\ queued = [j \in Jobs |-> 0] /\ settled = [j \in Jobs |-> 0]
  /\ twins = [j \in Jobs |-> 0] /\ done = [j \in Jobs |-> 0]
  /\ checks = [j \in Jobs |-> 0]
  /\ doc = [j \in Jobs |-> None] /\ sweep = None
  /\ lock = [r \in Replicas |-> None]
  /\ shedding = FALSE /\ tally = NoTally /\ faults = 0

-----------------------------------------------------------------------------
(* Requests, up to the critical section.                                   *)

\* delete_document: idempotent.
Without(j) == [doc EXCEPT ![j] = None]

\* An error answer: the request and what it asked for are forgotten.
Refuse(j) ==
  /\ req' = [req EXCEPT ![j] = Refused]
  /\ pages' = [pages EXCEPT ![j] = 0]

\* create_job refuses a count over the limit at once; an upload is stored first.
Arrive(j) ==
  /\ req[j] = "new"
  /\ \E n \in Sizes[j] :
       \/ /\ j \in Uploads
          /\ req' = [req EXCEPT ![j] = "storing"] /\ pages' = [pages EXCEPT ![j] = n]
          /\ doc' = [doc EXCEPT ![j] = "fresh"]
       \/ /\ j \notin Uploads /\ n \in 1..MAX_PAGES
          /\ req' = [req EXCEPT ![j] = "waiting"] /\ pages' = [pages EXCEPT ![j] = n]
          /\ UNCHANGED doc
       \/ j \notin Uploads /\ n > MAX_PAGES /\ Refuse(j) /\ UNCHANGED doc
  /\ UNCHANGED <<row, tasks, sweep, lock, shedding, tally, faults>>

\* stream_to_disk, stream_body_to_disk: a partial file is removed on failure.
Store(j) ==
  /\ req[j] = "storing"
  /\ \/ req' = [req EXCEPT ![j] = "counting"] /\ UNCHANGED <<pages, doc>>
     \/ Refuse(j) /\ doc' = Without(j)
  /\ UNCHANGED <<row, tasks, sweep, lock, shedding, tally, faults>>

\* count_pages: unreadable and empty documents are invalid.
Countable(j) == doc[j] # None /\ pages[j] >= 1

\* Mutant: the refusal leaves the document on disk.
CountKeepsFile(j) ==
  /\ req[j] = "counting"
  /\ req' = [req EXCEPT ![j] = IF Countable(j) /\ pages[j] <= MAX_PAGES
                               THEN "waiting" ELSE Refused]
  /\ UNCHANGED <<pages, row, tasks, doc, sweep, lock, shedding, tally, faults>>

Count(j) ==
  /\ req[j] = "counting"
  /\ IF Countable(j) /\ pages[j] <= MAX_PAGES
     THEN req' = [req EXCEPT ![j] = "waiting"] /\ UNCHANGED <<pages, doc>>
     ELSE Refuse(j) /\ doc' = Without(j)
  /\ UNCHANGED <<row, tasks, sweep, lock, shedding, tally, faults>>

-----------------------------------------------------------------------------
(* The critical section: check, rows, tasks.                               *)

Lock(j) ==
  /\ req[j] = "waiting" /\ lock[At[j]] = None
  /\ lock' = [lock EXCEPT ![At[j]] = j]
  /\ req' = [req EXCEPT ![j] = "evaluating"]
  /\ UNCHANGED <<pages, row, tasks, doc, sweep, shedding, tally, faults>>

Unlock(j) == lock' = [lock EXCEPT ![At[j]] = None]

\* Mutant: the depth is checked without the pages of the job itself.
FitsBefore(j) == Depth <= HIGH

\* The admission script.
StillShedding == shedding /\ Depth > LOW
Fits(j) == Depth + pages[j] <= HIGH
Admits(j) == ~StillShedding /\ Fits(j)

\* Mutant: every refusal counts as a trip.
CountedTripsAlways(j) ==
  [admitted |-> tally.admitted + (IF Admits(j) THEN 1 ELSE 0),
   shed |-> tally.shed + (IF Admits(j) THEN 0 ELSE 1),
   trips |-> tally.trips + (IF Admits(j) THEN 0 ELSE 1),
   recoveries |-> tally.recoveries + (IF shedding /\ ~StillShedding THEN 1 ELSE 0)]

\* The counters: a trip starts shedding, a recovery ends it.
Counted(j) ==
  [admitted |-> tally.admitted + (IF Admits(j) THEN 1 ELSE 0),
   shed |-> tally.shed + (IF Admits(j) THEN 0 ELSE 1),
   trips |-> tally.trips + (IF ~StillShedding /\ ~Fits(j) THEN 1 ELSE 0),
   recoveries |-> tally.recoveries + (IF shedding /\ ~StillShedding THEN 1 ELSE 0)]

Evaluate(j) ==
  /\ req[j] = "evaluating"
  /\ shedding' = ~Admits(j) /\ tally' = Counted(j)
  /\ \/ /\ Admits(j) /\ req' = [req EXCEPT ![j] = "initialising"]
        /\ UNCHANGED <<pages, doc, lock>>
     \/ ~Admits(j) /\ Refuse(j) /\ doc' = Without(j) /\ Unlock(j)
  /\ UNCHANGED <<row, tasks, sweep, faults>>

\* init_job: one MULTI/EXEC.
InitJob(j) ==
  /\ req[j] = "initialising"
  /\ row' = [row EXCEPT ![j] = "live"]
  /\ req' = [req EXCEPT ![j] = "enqueuing"]
  /\ UNCHANGED <<pages, tasks, doc, sweep, lock, shedding, tally, faults>>

\* Mutant: work before state.
EnqueueBeforeInit(j) ==
  /\ req[j] = "initialising"
  /\ queued' = [queued EXCEPT ![j] = pages[j]]
  /\ req' = [req EXCEPT ![j] = "accepted"] /\ Unlock(j)
  /\ UNCHANGED <<pages, row, settled, twins, done, checks, doc, sweep, shedding, tally, faults>>

\* enqueue_pages, and the lock is released.
EnqueuePages(j) ==
  /\ req[j] = "enqueuing"
  /\ queued' = [queued EXCEPT ![j] = pages[j]]
  /\ req' = [req EXCEPT ![j] = "accepted"] /\ Unlock(j)
  /\ UNCHANGED <<pages, row, settled, twins, done, checks, doc, sweep, shedding, tally, faults>>

\* A Redis error in the section answers 500.  The document stays: only an
\* HTTPException deletes it.  The pipeline of enqueue_pages is no transaction,
\* so some of its tasks may have been added.
Fail(j) ==
  /\ req[j] \in InSection /\ faults < MaxFaults /\ faults' = faults + 1
  /\ \E n \in IF req[j] = "enqueuing" THEN 0..pages[j] ELSE {0} :
       queued' = [queued EXCEPT ![j] = n]
  /\ \E r \in IF req[j] = "initialising" THEN {None, "live"} ELSE {row[j]} :
       row' = [row EXCEPT ![j] = r]
  /\ \/ req[j] = "evaluating" /\ shedding' = ~Admits(j) /\ tally' = Counted(j)
     \/ UNCHANGED <<shedding, tally>>
  /\ req' = [req EXCEPT ![j] = "failed"] /\ Unlock(j)
  /\ UNCHANGED <<pages, settled, twins, done, checks, doc, sweep>>

\* A replica dies with all its requests.
ApiCrash(r) ==
  /\ faults < MaxFaults /\ faults' = faults + 1
  /\ \E j \in Jobs : At[j] = r /\ req[j] \in InProgress
  /\ req' = [j \in Jobs |-> IF At[j] = r /\ req[j] \in InProgress
                            THEN "failed" ELSE req[j]]
  /\ lock' = [lock EXCEPT ![r] = None]
  /\ UNCHANGED <<pages, row, tasks, doc, sweep, shedding, tally>>

-----------------------------------------------------------------------------
(* Workers, as far as tasks, counters and documents are concerned.         *)

\* A page of an expired job is missing: it is acknowledged without a count.
Settle(j) ==
  /\ queued[j] > 0
  /\ queued' = [queued EXCEPT ![j] = @ - 1]
  /\ settled' = [settled EXCEPT ![j] = @ + 1]
  /\ done' = IF row[j] = "live" THEN [done EXCEPT ![j] = @ + 1] ELSE done
  /\ UNCHANGED <<req, pages, row, twins, checks, doc, sweep, lock, shedding, tally, faults>>

\* Nothing is left to delete once the document is gone.
Ack(j) ==
  /\ settled[j] > 0
  /\ settled' = [settled EXCEPT ![j] = @ - 1]
  /\ checks' = IF doc[j] # None THEN [checks EXCEPT ![j] = @ + 1] ELSE checks
  /\ UNCHANGED <<req, pages, row, queued, twins, done, doc, sweep, lock, shedding, tally, faults>>

\* requeue adds the new entry, then acknowledges the old one.
RequeueAdd(j) ==
  /\ queued[j] > twins[j] /\ SumOver(twins) < MaxTwins
  /\ twins' = [twins EXCEPT ![j] = @ + 1]
  /\ UNCHANGED <<req, pages, row, queued, settled, done, checks, doc, sweep, lock, shedding, tally, faults>>

RequeueAck(j) ==
  /\ twins[j] > 0
  /\ twins' = [twins EXCEPT ![j] = @ - 1]
  /\ UNCHANGED <<req, pages, row, queued, settled, done, checks, doc, sweep, lock, shedding, tally, faults>>

\* Mutant: off by one in the completion test.
FinishedEarly(j) == row[j] = "live" /\ done[j] >= pages[j] - 1

\* _maybe_delete_document: progress of a missing row is (0, 0).
Finished(j) == row[j] = "live" /\ done[j] >= pages[j]

MaybeDelete(j) ==
  /\ checks[j] > 0
  /\ checks' = [checks EXCEPT ![j] = @ - 1]
  /\ doc' = IF Finished(j) THEN Without(j) ELSE doc
  /\ UNCHANGED <<req, pages, row, queued, settled, twins, done, sweep, lock, shedding, tally, faults>>

\* A worker dies between the acknowledgement and the deletion.
WorkerCrash(j) ==
  /\ checks[j] > 0 /\ faults < MaxFaults /\ faults' = faults + 1
  /\ checks' = [checks EXCEPT ![j] = @ - 1]
  /\ UNCHANGED <<req, pages, row, queued, settled, twins, done, doc, sweep, lock, shedding, tally>>

-----------------------------------------------------------------------------
(* Time: the TTL of the rows, the age of a file, the TTL of the flag.      *)

\* The TTL bounds inactivity: it does not run out under a job being worked on.
Expire(j) ==
  /\ row[j] = "live" /\ req[j] \notin InProgress /\ queued[j] = 0
  /\ row' = [row EXCEPT ![j] = "expired"]
  /\ UNCHANGED <<req, pages, tasks, doc, sweep, lock, shedding, tally, faults>>

\* orphan_sweep_age_s is longer than an ingestion takes.
GrowOld(j) ==
  /\ doc[j] = "fresh" /\ req[j] \notin InProgress
  /\ doc' = [doc EXCEPT ![j] = "old"]
  /\ UNCHANGED <<req, pages, row, tasks, sweep, lock, shedding, tally, faults>>

\* The hash outlives every request by far: its TTL is restarted by each.  Its
\* expiry only matters while it says shedding.
FlagExpires ==
  /\ shedding /\ shedding' = FALSE /\ tally' = NoTally
  /\ \A j \in Jobs : req[j] \notin InProgress
  /\ UNCHANGED <<req, pages, row, tasks, doc, sweep, lock, faults>>

\* Mutant: only jobs whose state is known to have expired are swept.
SweepCheckExpired(j) ==
  /\ sweep = None /\ doc[j] = "old" /\ row[j] = "expired"
  /\ sweep' = j
  /\ UNCHANGED <<req, pages, row, tasks, doc, lock, shedding, tally, faults>>

\* orphan_candidates and the liveness check.
SweepCheck(j) ==
  /\ sweep = None /\ doc[j] = "old" /\ row[j] # "live"
  /\ sweep' = j
  /\ UNCHANGED <<req, pages, row, tasks, doc, lock, shedding, tally, faults>>

SweepDelete(j) ==
  /\ sweep = j /\ sweep' = None
  /\ doc' = Without(j)
  /\ UNCHANGED <<req, pages, row, tasks, lock, shedding, tally, faults>>

-----------------------------------------------------------------------------
Request(j) == Store(j) \/ Count(j) \/ Lock(j) \/ Evaluate(j) \/ InitJob(j) \/ EnqueuePages(j)
Work(j) == Settle(j) \/ Ack(j) \/ RequeueAck(j) \/ MaybeDelete(j)
Sweep(j) == SweepCheck(j) \/ SweepDelete(j)

Next ==
  \/ \E j \in Jobs : \/ Arrive(j) \/ Request(j) \/ Fail(j)
                     \/ Work(j) \/ RequeueAdd(j) \/ WorkerCrash(j)
                     \/ Expire(j) \/ GrowOld(j) \/ Sweep(j)
  \/ \E r \in Replicas : ApiCrash(r)
  \/ FlagExpires

Spec == Init /\ [][Next]_vars

\* Requests go on; every page settles in the end (its requeues are bounded);
\* time passes and the sweeper keeps running.
LiveSpec ==
  /\ Spec
  /\ \A j \in Jobs : WF_vars(Request(j))
  /\ \A j \in Uploads : /\ WF_vars(Settle(j)) /\ WF_vars(Expire(j))
                        /\ WF_vars(GrowOld(j)) /\ WF_vars(Sweep(j))

-----------------------------------------------------------------------------
(* _retry_after: seconds until the backlog is down to the low mark, with a *)
(* jitter in tenths.                                                       *)

RetryAfter(depth, rate, jitter) ==
  LET excess == Max({0, depth - LOW})
      ceil   == -((-(excess * (10 + jitter))) \div (10 * rate))
  IN  Max({1, Min({RETRY_CAP, ceil})})

-----------------------------------------------------------------------------
\* Type invariant; a held lock belongs to a request inside the section.
IngestionTypeOK ==
  /\ \A j \in Jobs :
       /\ req[j] \in {"new", "accepted", "failed", Refused} \cup InProgress
       /\ row[j] \in {None, "live", "expired"} /\ doc[j] \in {None, "fresh", "old"}
       /\ {queued[j], settled[j], checks[j], done[j]} \subseteq Nat
       /\ queued[j] + settled[j] + checks[j] <= pages[j] /\ done[j] <= pages[j]
       /\ twins[j] \in 0..MaxTwins
  /\ \A r \in Replicas :
       lock[r] = None \/ (At[lock[r]] = r /\ req[lock[r]] \in InSection)
  /\ sweep \in Jobs \cup {None}

\* The bound promised in app/main.py: with N replicas the admitted work exceeds
\* the high mark by at most (N-1) jobs of the maximal size; entries doubled by
\* a requeue in progress come on top.
DepthBounded ==
  Depth <= HIGH + (Cardinality(Replicas) - 1) * MAX_PAGES + SumOver(twins)

\* A refused request (400, 413, 503) leaves nothing behind: no document, no rows
\* and no tasks.
RefusedLeavesNothing ==
  \A j \in Jobs : req[j] = Refused =>
    doc[j] = None /\ row[j] = None /\ queued[j] = 0

\* State before work: a task in a stream always has its rows.
StateBeforeWork ==
  \A j \in Jobs : queued[j] > 0 => row[j] = "live"

\* The document of a job is on disk as long as one of its pages is to be
\* processed, whatever the sweeper and the workers of other pages do.
DocumentWhileNeeded ==
  \A j \in Uploads : queued[j] > 0 => doc[j] # None

\* Admission counts, never silent: trips and recoveries alternate, the flag is
\* the difference, and every trip refused somebody, over expiry of the hash,
\* concurrent replicas and replies that are lost.
TripsExplainShedding ==
  /\ tally.trips - tally.recoveries = IF shedding THEN 1 ELSE 0
  /\ tally.shed >= tally.trips

\* Every document leaves the disk, whatever crashed or failed on the way.
DocumentsReclaimed ==
  \A j \in Uploads : doc[j] # None ~> doc[j] = None
=============================================================================

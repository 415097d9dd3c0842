--------------------------- MODULE IngestionProofs ---------------------------
(***************************************************************************)
(* Proofs about Ingestion for any jobs, replicas, sizes and bounds.        *)
(***************************************************************************)
EXTENDS Ingestion, FiniteSetTheorems, TLAPS

(* The provers a leaf that names none is given to, and in which order.     *)
USE SMT, ZenonT(30), SMTT(10), SMTT(20)

ReqState == {"new", "accepted", "failed", Refused} \cup InProgress

\* Shapes of what the invariants below are about.
Shapes ==
  /\ req \in [Jobs -> ReqState]
  /\ pages \in [Jobs -> Nat]
  /\ row \in [Jobs -> {None, "live", "expired"}]
  /\ doc \in [Jobs -> {None, "fresh", "old"}]
  /\ queued \in [Jobs -> Nat] /\ settled \in [Jobs -> Nat] /\ done \in [Jobs -> Nat]
  /\ checks \in [Jobs -> Nat] /\ twins \in [Jobs -> Nat]
  /\ sweep \in Jobs \cup {None}

\* Requests that have not begun to add tasks.
Early == {"new", "storing", "counting", "waiting", "evaluating", "initialising", "enqueuing"}

\* What is true of one job.  Its rows exist exactly from init_job on, its
\* tasks only once enqueue_pages has run, its document is young as long as its
\* request is in progress, and pages settled and pages to be settled are never
\* more than it has.
JobInv(j) ==
  /\ req[j] \in (Early \ {"enqueuing"}) \cup {Refused} => row[j] = None
  /\ req[j] = "enqueuing" => row[j] = "live"
  /\ req[j] \in Early \cup {Refused} =>
       queued[j] = 0 /\ settled[j] = 0 /\ done[j] = 0 /\ checks[j] = 0
  /\ req[j] = Refused \/ req[j] = "new" => doc[j] = None
  /\ j \in Uploads /\ req[j] \in InProgress => doc[j] = "fresh"
  /\ j \notin Uploads => doc[j] = None
  /\ queued[j] > 0 => row[j] = "live" /\ (j \in Uploads => doc[j] # None)
  /\ queued[j] + done[j] <= pages[j]
  /\ sweep = j => req[j] \in {"accepted", "failed", Refused} /\ queued[j] = 0

\* A job none of whose rows, tasks or pages exists yet, and which is not swept.
Quiet(j) ==
  /\ row[j] = None /\ sweep # j
  /\ queued[j] = 0 /\ settled[j] = 0 /\ done[j] = 0 /\ checks[j] = 0

Inv == Shapes /\ \A j \in Jobs : JobInv(j)

USE DEF None, Refused, InSection, InProgress, ReqState, Early

LEMMA InitInv == Init => Inv
  BY IngestionAssumption DEF Init, Inv, Shapes, JobInv

\* A step of one job that keeps its shapes keeps the invariant of the others.
LEMMA OthersUntouched ==
  ASSUME Inv, Shapes', NEW j \in Jobs,
         JobInv(j)',
         \A i \in Jobs \ {j} : /\ req'[i] = req[i] /\ pages'[i] = pages[i] /\ row'[i] = row[i]
                               /\ doc'[i] = doc[i] /\ queued'[i] = queued[i]
                               /\ settled'[i] = settled[i] /\ done'[i] = done[i]
                               /\ checks'[i] = checks[i] /\ (sweep' = i => sweep = i)
  PROVE  Inv'
  BY DEF Inv, JobInv

\* Every step of Next keeps the invariant: one step of one job at a time, and
\* a crash of a replica, which ends all its requests.
LEMMA StepInv == Inv /\ [Next]_vars => Inv'
<1> SUFFICES ASSUME Inv, [Next]_vars PROVE Inv'
  OBVIOUS
<1> USE IngestionAssumption
<1>1. ASSUME NEW j \in Jobs, Arrive(j) PROVE Inv'
  <2>1. Shapes'
    BY <1>1 DEF Inv, Shapes, Arrive, tasks, Refuse
  <2>2. JobInv(j)'
    <3>1. Quiet(j) /\ req[j] = "new" /\ doc[j] = None
      BY <1>1 DEF Inv, JobInv, Arrive, Quiet
    <3>2. UNCHANGED <<row, queued, settled, done, checks, sweep>>
      BY <1>1 DEF Arrive, tasks
    <3>3. \/ j \in Uploads /\ req'[j] = "storing" /\ pages'[j] \in Nat /\ doc'[j] = "fresh"
          \/ j \notin Uploads /\ req'[j] = "waiting" /\ pages'[j] \in Nat /\ doc'[j] = doc[j]
          \/ j \notin Uploads /\ req'[j] = Refused /\ pages'[j] = 0 /\ doc'[j] = doc[j]
      BY <1>1 DEF Inv, Shapes, Arrive, Refuse
    <3> QED
      BY <3>1, <3>2, <3>3 DEF JobInv, Quiet
  <2> QED
    BY <1>1, <2>1, <2>2, OthersUntouched DEF Inv, Shapes, Arrive, tasks, Refuse
<1>2. ASSUME NEW j \in Jobs, Store(j) PROVE Inv'
  <2>1. Shapes'
    BY <1>2 DEF Inv, Shapes, Store, tasks, Refuse, Without
  <2>2. JobInv(j)'
    <3>1. Quiet(j) /\ req[j] = "storing" /\ pages[j] \in Nat
      BY <1>2 DEF Inv, Shapes, JobInv, Store, Quiet
    <3>2. (j \in Uploads => doc[j] = "fresh") /\ (j \notin Uploads => doc[j] = None)
      BY <1>2 DEF Inv, JobInv, Store
    <3>3. UNCHANGED <<row, queued, settled, done, checks, sweep>>
      BY <1>2 DEF Store, tasks
    <3>4. \/ req'[j] = "counting" /\ pages'[j] = pages[j] /\ doc'[j] = doc[j]
          \/ req'[j] = Refused /\ pages'[j] = 0 /\ doc'[j] = None
      BY <1>2 DEF Inv, Shapes, Store, Refuse, Without
    <3> QED
      BY <3>1, <3>2, <3>3, <3>4 DEF JobInv, Quiet
  <2> QED
    BY <1>2, <2>1, <2>2, OthersUntouched DEF Inv, Shapes, Store, tasks, Refuse, Without
<1>3. ASSUME NEW j \in Jobs, Count(j) PROVE Inv'
  <2>1. Shapes'
    BY <1>3 DEF Inv, Shapes, Count, tasks, Refuse, Without
  <2>2. JobInv(j)'
    <3>1. Quiet(j) /\ req[j] = "counting" /\ pages[j] \in Nat
      BY <1>3 DEF Inv, Shapes, JobInv, Count, Quiet
    <3>2. (j \in Uploads => doc[j] = "fresh") /\ (j \notin Uploads => doc[j] = None)
      BY <1>3 DEF Inv, JobInv, Count
    <3>3. UNCHANGED <<row, queued, settled, done, checks, sweep>>
      BY <1>3 DEF Count, tasks
    <3>4. \/ req'[j] = "waiting" /\ pages'[j] = pages[j] /\ doc'[j] = doc[j]
          \/ req'[j] = Refused /\ pages'[j] = 0 /\ doc'[j] = None
      BY <1>3 DEF Inv, Shapes, Count, Refuse, Without
    <3> QED
      BY <3>1, <3>2, <3>3, <3>4 DEF JobInv, Quiet
  <2> QED
    BY <1>3, <2>1, <2>2, OthersUntouched DEF Inv, Shapes, Count, tasks, Refuse, Without
<1>4. ASSUME NEW j \in Jobs, Lock(j) PROVE Inv'
  <2>1. Shapes'
    BY <1>4 DEF Inv, Shapes, Lock, tasks
  <2>2. JobInv(j)'
    BY <1>4 DEF Inv, Shapes, JobInv, Lock, tasks
  <2> QED
    BY <1>4, <2>1, <2>2, OthersUntouched DEF Inv, Shapes, Lock, tasks
<1>5. ASSUME NEW j \in Jobs, Evaluate(j) PROVE Inv'
  <2>1. Shapes'
    BY <1>5 DEF Inv, Shapes, Evaluate, tasks, Refuse, Without, Unlock
  <2>2. JobInv(j)'
    BY <1>5 DEF Inv, Shapes, JobInv, Evaluate, tasks, Refuse, Without, Unlock
  <2> QED
    BY <1>5, <2>1, <2>2, OthersUntouched DEF Inv, Shapes, Evaluate, tasks, Refuse, Without, Unlock
<1>6. ASSUME NEW j \in Jobs, InitJob(j) PROVE Inv'
  <2>1. Shapes'
    BY <1>6 DEF Inv, Shapes, InitJob, tasks
  <2>2. JobInv(j)'
    BY <1>6 DEF Inv, Shapes, JobInv, InitJob, tasks
  <2> QED
    BY <1>6, <2>1, <2>2, OthersUntouched DEF Inv, Shapes, InitJob, tasks
<1>7. ASSUME NEW j \in Jobs, EnqueuePages(j) PROVE Inv'
  <2>1. Shapes'
    BY <1>7 DEF Inv, Shapes, EnqueuePages, tasks, Unlock
  <2>2. JobInv(j)'
    BY <1>7 DEF Inv, Shapes, JobInv, EnqueuePages, tasks, Unlock
  <2> QED
    BY <1>7, <2>1, <2>2, OthersUntouched DEF Inv, Shapes, EnqueuePages, tasks, Unlock
<1>8. ASSUME NEW j \in Jobs, Fail(j) PROVE Inv'
  <2>1. Shapes'
    BY <1>8 DEF Inv, Shapes, Fail, tasks, Unlock
  <2>2. JobInv(j)'
    BY <1>8 DEF Inv, Shapes, JobInv, Fail, tasks, Unlock
  <2> QED
    BY <1>8, <2>1, <2>2, OthersUntouched DEF Inv, Shapes, Fail, tasks, Unlock
<1>9. ASSUME NEW j \in Jobs, Settle(j) PROVE Inv'
  <2>1. Shapes'
    BY <1>9 DEF Inv, Shapes, Settle, tasks
  <2>2. JobInv(j)'
    BY <1>9 DEF Inv, Shapes, JobInv, Settle, tasks
  <2> QED
    BY <1>9, <2>1, <2>2, OthersUntouched DEF Inv, Shapes, Settle, tasks
<1>10. ASSUME NEW j \in Jobs, Ack(j) PROVE Inv'
  <2>1. Shapes'
    BY <1>10 DEF Inv, Shapes, Ack, tasks
  <2>2. JobInv(j)'
    BY <1>10 DEF Inv, Shapes, JobInv, Ack, tasks
  <2> QED
    BY <1>10, <2>1, <2>2, OthersUntouched DEF Inv, Shapes, Ack, tasks
<1>11. ASSUME NEW j \in Jobs, RequeueAdd(j) PROVE Inv'
  <2>1. Shapes'
    BY <1>11 DEF Inv, Shapes, RequeueAdd, tasks
  <2>2. JobInv(j)'
    BY <1>11 DEF Inv, Shapes, JobInv, RequeueAdd, tasks
  <2> QED
    BY <1>11, <2>1, <2>2, OthersUntouched DEF Inv, Shapes, RequeueAdd, tasks
<1>12. ASSUME NEW j \in Jobs, RequeueAck(j) PROVE Inv'
  <2>1. Shapes'
    BY <1>12 DEF Inv, Shapes, RequeueAck, tasks
  <2>2. JobInv(j)'
    BY <1>12 DEF Inv, Shapes, JobInv, RequeueAck, tasks
  <2> QED
    BY <1>12, <2>1, <2>2, OthersUntouched DEF Inv, Shapes, RequeueAck, tasks
<1>13. ASSUME NEW j \in Jobs, MaybeDelete(j) PROVE Inv'
  <2>1. Shapes'
    BY <1>13 DEF Inv, Shapes, MaybeDelete, tasks, Finished, Without
  <2>2. JobInv(j)'
    BY <1>13 DEF Inv, Shapes, JobInv, MaybeDelete, tasks, Finished, Without
  <2> QED
    BY <1>13, <2>1, <2>2, OthersUntouched DEF Inv, Shapes, MaybeDelete, tasks, Finished, Without
<1>14. ASSUME NEW j \in Jobs, WorkerCrash(j) PROVE Inv'
  <2>1. Shapes'
    BY <1>14 DEF Inv, Shapes, WorkerCrash, tasks
  <2>2. JobInv(j)'
    BY <1>14 DEF Inv, Shapes, JobInv, WorkerCrash, tasks
  <2> QED
    BY <1>14, <2>1, <2>2, OthersUntouched DEF Inv, Shapes, WorkerCrash, tasks
<1>15. ASSUME NEW j \in Jobs, Expire(j) PROVE Inv'
  <2>1. Shapes'
    BY <1>15 DEF Inv, Shapes, Expire, tasks
  <2>2. JobInv(j)'
    BY <1>15 DEF Inv, Shapes, JobInv, Expire, tasks
  <2> QED
    BY <1>15, <2>1, <2>2, OthersUntouched DEF Inv, Shapes, Expire, tasks
<1>16. ASSUME NEW j \in Jobs, GrowOld(j) PROVE Inv'
  <2>1. Shapes'
    BY <1>16 DEF Inv, Shapes, GrowOld, tasks
  <2>2. JobInv(j)'
    BY <1>16 DEF Inv, Shapes, JobInv, GrowOld, tasks
  <2> QED
    BY <1>16, <2>1, <2>2, OthersUntouched DEF Inv, Shapes, GrowOld, tasks
<1>17. ASSUME NEW j \in Jobs, SweepCheck(j) PROVE Inv'
  <2>1. Shapes'
    BY <1>17 DEF Inv, Shapes, SweepCheck, tasks
  <2>2. JobInv(j)'
    BY <1>17 DEF Inv, Shapes, JobInv, SweepCheck, tasks
  <2> QED
    BY <1>17, <2>1, <2>2, OthersUntouched DEF Inv, Shapes, SweepCheck, tasks
<1>18. ASSUME NEW j \in Jobs, SweepDelete(j) PROVE Inv'
  <2>1. Shapes'
    BY <1>18 DEF Inv, Shapes, SweepDelete, tasks, Without
  <2>2. JobInv(j)'
    BY <1>18 DEF Inv, Shapes, JobInv, SweepDelete, tasks, Without
  <2> QED
    BY <1>18, <2>1, <2>2, OthersUntouched DEF Inv, Shapes, SweepDelete, tasks, Without
<1>19. ASSUME NEW r \in Replicas, ApiCrash(r) PROVE Inv'
  BY <1>19 DEF Inv, Shapes, JobInv, ApiCrash, tasks
<1>20. CASE FlagExpires
  BY <1>20 DEF Inv, Shapes, JobInv, FlagExpires, tasks
<1>21. CASE UNCHANGED vars
  BY <1>21 DEF Inv, Shapes, JobInv, vars, tasks
<1> QED
  BY <1>1, <1>2, <1>3, <1>4, <1>5, <1>6, <1>7, <1>8, <1>9, <1>10, <1>11, <1>12, <1>13, <1>14, <1>15, <1>16, <1>17, <1>18, <1>19, <1>20, <1>21 DEF Next, Request, Work, Sweep

LEMMA InvHolds == Spec => []Inv
  BY InitInv, StepInv, PTL DEF Spec

\* A refused request leaves no document, no rows and no tasks, for any number of
\* replicas and whatever fails (app/main.py create_job, jobstore.init_job).
THEOREM NothingLeftBehind == Spec => []RefusedLeavesNothing
<1>1. Inv => RefusedLeavesNothing
  BY DEF Inv, JobInv, RefusedLeavesNothing
<1> QED
  BY InvHolds, <1>1, PTL

\* init_job precedes enqueue_pages, and no crash, error or duplicate task shows a
\* worker a task without its rows.
THEOREM RowsPrecedeTasks == Spec => []StateBeforeWork
<1>1. Inv => StateBeforeWork
  BY DEF Inv, JobInv, StateBeforeWork
<1> QED
  BY InvHolds, <1>1, PTL

\* Neither the worker that finds a job finished nor the orphan sweeper removes a
\* document that a queued page still needs.
THEOREM DocumentKept == Spec => []DocumentWhileNeeded
<1>1. Inv => DocumentWhileNeeded
  BY IngestionAssumption DEF Inv, JobInv, DocumentWhileNeeded
<1> QED
  BY InvHolds, <1>1, PTL

-----------------------------------------------------------------------------
(* The counters of the admission script.                                   *)

TallyShape == tally \in [admitted : Nat, shed : Nat, trips : Nat, recoveries : Nat]

TallyInv ==
  /\ TallyShape /\ tally.shed >= tally.trips
  /\ shedding => tally.trips = tally.recoveries + 1
  /\ ~shedding => tally.trips = tally.recoveries

\* One evaluation of the script keeps the counters explained, whether or not its
\* reply arrives.
LEMMA CountedExplains ==
  ASSUME TallyInv, NEW j, shedding' = ~Admits(j), tally' = Counted(j)
  PROVE  TallyInv'
<1> DEFINE still == StillShedding
           fits == Fits(j)
<1>1. still => shedding
  BY DEF StillShedding
<1>2. shedding' <=> still \/ ~fits
  BY DEF Admits
<1>3. tally' = [admitted |-> tally.admitted + (IF still \/ ~fits THEN 0 ELSE 1),
                shed |-> tally.shed + (IF still \/ ~fits THEN 1 ELSE 0),
                trips |-> tally.trips + (IF ~still /\ ~fits THEN 1 ELSE 0),
                recoveries |-> tally.recoveries + (IF shedding /\ ~still THEN 1 ELSE 0)]
  BY DEF Counted, Admits
<1> HIDE DEF still, fits
<1>4. CASE still
  <2>1. tally' = [tally EXCEPT !.shed = @ + 1]
    BY <1>1, <1>3, <1>4 DEF TallyInv, TallyShape
  <2> QED
    BY <1>1, <1>2, <1>4, <2>1 DEF TallyInv, TallyShape
<1>5. CASE ~still /\ fits
  BY <1>2, <1>3, <1>5 DEF TallyInv, TallyShape
<1>6. CASE ~still /\ ~fits
  BY <1>2, <1>3, <1>6 DEF TallyInv, TallyShape
<1> QED
  BY <1>4, <1>5, <1>6

\* Trips and recoveries explain the flag over any history of evaluations, lost
\* replies and expiries of the admission hash (admission.py _ADMISSION_LUA).
THEOREM SheddingExplained == Spec => []TripsExplainShedding
<1>1. Init => TallyInv
  BY DEF Init, NoTally, TallyInv, TallyShape
<1>2. TallyInv /\ [Next]_vars => TallyInv'
  <2> SUFFICES ASSUME TallyInv, [Next]_vars PROVE TallyInv'
    OBVIOUS
  <2>1. CASE UNCHANGED <<shedding, tally>>
    BY <2>1 DEF TallyInv, TallyShape
  <2>2. CASE FlagExpires
    BY <2>2 DEF FlagExpires, NoTally, TallyInv, TallyShape
  <2>3. ASSUME NEW j \in Jobs, shedding' = ~Admits(j), tally' = Counted(j) PROVE TallyInv'
    BY <2>3, CountedExplains
  <2>4. ASSUME NEW j \in Jobs, Request(j)
        PROVE  UNCHANGED <<shedding, tally>> \/ (shedding' = ~Admits(j) /\ tally' = Counted(j))
    BY <2>4 DEF Request, Store, Count, Lock, Evaluate, InitJob, EnqueuePages
  <2>5. ASSUME NEW j \in Jobs, Fail(j)
        PROVE  UNCHANGED <<shedding, tally>> \/ (shedding' = ~Admits(j) /\ tally' = Counted(j))
    BY <2>5 DEF Fail
  <2>6. ASSUME NEW j \in Jobs,
               \/ Arrive(j) \/ Work(j) \/ RequeueAdd(j) \/ WorkerCrash(j)
               \/ Expire(j) \/ GrowOld(j) \/ Sweep(j)
        PROVE  UNCHANGED <<shedding, tally>>
    BY <2>6 DEF Arrive, Work, RequeueAdd, WorkerCrash, Expire, GrowOld, Sweep, Settle, Ack, RequeueAck,
                MaybeDelete, SweepCheck, SweepDelete
  <2>7. ASSUME NEW r \in Replicas, ApiCrash(r) PROVE UNCHANGED <<shedding, tally>>
    BY <2>7 DEF ApiCrash
  <2>8. CASE UNCHANGED vars
    BY <2>8, <2>1 DEF vars
  <2> QED
    BY <2>1, <2>2, <2>3, <2>4, <2>5, <2>6, <2>7, <2>8 DEF Next
<1>3. TallyInv => TripsExplainShedding
  BY DEF TallyInv, TallyShape, TripsExplainShedding
<1> QED
  BY <1>1, <1>2, <1>3, PTL DEF Spec

-----------------------------------------------------------------------------
(* The depth of the queue.                                                 *)

\* What one job contributes, and the others together.
Share(f, j) == {j} \X (1..f[j])
Rest(f, j) == UNION {Share(f, i) : i \in Jobs \ {j}}

LEMMA ShareFacts ==
  ASSUME NEW f \in [Jobs -> Nat], NEW j \in Jobs
  PROVE  IsFiniteSet(Share(f, j)) /\ Cardinality(Share(f, j)) = f[j]
<1>1. IsFiniteSet({j}) /\ Cardinality({j}) = 1
  BY FS_Singleton
<1>2. IsFiniteSet(1..f[j]) /\ Cardinality(1..f[j]) = f[j] /\ f[j] \in Nat
  BY FS_Interval
<1>3. IsFiniteSet({j} \X (1..f[j]))
      /\ Cardinality({j} \X (1..f[j])) = Cardinality({j}) * Cardinality(1..f[j])
  BY <1>1, <1>2, FS_Product
<1>4. Cardinality({j}) * Cardinality(1..f[j]) = f[j]
  BY <1>1, <1>2
<1> QED BY <1>3, <1>4 DEF Share

\* The entries of the others are finitely many.
LEMMA RestFinite ==
  ASSUME NEW f \in [Jobs -> Nat], NEW j
  PROVE  IsFiniteSet(Rest(f, j)) /\ Cardinality(Rest(f, j)) \in Nat
<1> DEFINE S == Jobs \ {j}
           T == {Share(f, i) : i \in S}
           g == [i \in S |-> Share(f, i)]
<1>1. IsFiniteSet(S)
  BY IngestionAssumption, FS_Subset
<1>2. g \in Surjection(S, T)
  BY DEF Surjection
<1>3. IsFiniteSet(T)
  BY <1>1, <1>2, FS_Surjection
<1>4. \A t \in T : IsFiniteSet(t)
  BY ShareFacts
<1>5. IsFiniteSet(UNION T)
  BY <1>3, <1>4, FS_UNION
<1> QED BY <1>5, FS_CardinalityType DEF Rest

LEMMA SumSplit ==
  ASSUME NEW f \in [Jobs -> Nat], NEW j \in Jobs
  PROVE  SumOver(f) = Cardinality(Rest(f, j)) + f[j] /\ SumOver(f) \in Nat
<1>1. Entries(f) = Rest(f, j) \cup Share(f, j)
  BY DEF Entries, Rest, Share
<1>2. Rest(f, j) \cap Share(f, j) = {}
  BY DEF Rest, Share
<1>3. IsFiniteSet(Rest(f, j)) /\ Cardinality(Rest(f, j)) \in Nat
  BY RestFinite
<1>4. IsFiniteSet(Share(f, j)) /\ Cardinality(Share(f, j)) = f[j] /\ f[j] \in Nat
  BY ShareFacts
<1>5. Cardinality(Rest(f, j) \cup Share(f, j))
        = Cardinality(Rest(f, j)) + Cardinality(Share(f, j))
          - Cardinality(Rest(f, j) \cap Share(f, j))
  BY <1>3, <1>4, FS_Union
<1>6. Cardinality(Rest(f, j) \cap Share(f, j)) = 0
  BY <1>2, FS_EmptySet
<1> QED BY <1>1, <1>3, <1>4, <1>5, <1>6 DEF SumOver

\* The length of a stream changes by what one job adds or takes away.
LEMMA SumUpdate ==
  ASSUME NEW f \in [Jobs -> Nat], NEW g \in [Jobs -> Nat], NEW j \in Jobs,
         \A i \in Jobs \ {j} : g[i] = f[i]
  PROVE  SumOver(g) = SumOver(f) - f[j] + g[j] /\ SumOver(f) \in Nat /\ SumOver(g) \in Nat
<1>1. Rest(g, j) = Rest(f, j)
  BY DEF Rest, Share
<1>2. Cardinality(Rest(f, j)) \in Nat
  BY RestFinite
<1> QED BY <1>1, <1>2, SumSplit

LEMMA SumType ==
  ASSUME NEW f \in [Jobs -> Nat]
  PROVE  SumOver(f) \in Nat /\ ((\A j \in Jobs : f[j] = 0) => SumOver(f) = 0)
<1>1. CASE Jobs = {}
  <2>1. Entries(f) = {}
    BY <1>1 DEF Entries
  <2> QED BY <2>1, FS_EmptySet DEF SumOver
<1>2. CASE Jobs # {}
  <2>1. SumOver(f) \in Nat
    BY <1>2, SumSplit
  <2>2. ASSUME \A j \in Jobs : f[j] = 0 PROVE SumOver(f) = 0
    <3>1. Entries(f) = {}
      BY <2>2 DEF Entries
    <3> QED BY <3>1, FS_EmptySet DEF SumOver
  <2> QED BY <2>1, <2>2
<1> QED BY <1>1, <1>2

Waiting == SumOver(queued) + SumOver(settled)

\* Requests that were admitted and whose tasks are still to be added.
Pending == {j \in Jobs : req[j] \in {"initialising", "enqueuing"}}

\* The admission lock of a replica: whoever is in the section holds it, and was
\* let through with a count of pages within the limit.
Exclusive ==
  /\ lock \in [Replicas -> Jobs \cup {None}]
  /\ \A j \in Jobs : req[j] \in InSection => lock[At[j]] = j
  /\ \A j \in Jobs : req[j] \in {"waiting"} \cup InSection => pages[j] <= MAX_PAGES

Allowance == HIGH + (Cardinality(Replicas) - 1) * MAX_PAGES

\* What is in the streams, and what the pending requests may still add, is
\* within the allowance.  One of them, the last admitted, counts with its pages
\* because the script saw them fit; any other counts as a job of maximal size.
Reserved ==
  /\ Pending = {} => Waiting <= Allowance
  /\ Pending # {} => \E j \in Pending :
       Waiting + pages[j] + (Cardinality(Pending) - 1) * MAX_PAGES <= Allowance

LEMMA SizeFacts ==
  ASSUME TRUE
  PROVE  /\ MAX_PAGES \in Nat /\ HIGH \in Nat
         /\ Cardinality(Replicas) \in Nat /\ Cardinality(Replicas) >= 1
         /\ Allowance \in Int
         /\ \A a, b \in Int : a <= b => a * MAX_PAGES <= b * MAX_PAGES
         /\ \A a \in Int : /\ a * MAX_PAGES \in Int
                           /\ (a - 1) * MAX_PAGES = a * MAX_PAGES - MAX_PAGES
<1>1. MAX_PAGES \in Nat /\ HIGH \in Nat
  BY IngestionAssumption
<1>2. Cardinality(Replicas) \in Nat /\ Cardinality(Replicas) # 0
  BY IngestionAssumption, FS_CardinalityType, FS_EmptySet
<1>3. \A a, b \in Int : a <= b => a * MAX_PAGES <= b * MAX_PAGES
  BY <1>1
<1>4. \A a \in Int : /\ a * MAX_PAGES \in Int
                     /\ (a - 1) * MAX_PAGES = a * MAX_PAGES - MAX_PAGES
  BY <1>1
<1> QED BY <1>1, <1>2, <1>3, <1>4 DEF Allowance

LEMMA PendingFacts ==
  ASSUME NEW j
  PROVE  /\ IsFiniteSet(Pending) /\ Cardinality(Pending) \in Nat
         /\ Cardinality(Pending) = 0 <=> Pending = {}
         /\ j \in Pending => Cardinality(Pending \ {j}) = Cardinality(Pending) - 1
<1>1. IsFiniteSet(Pending)
  BY IngestionAssumption, FS_Subset DEF Pending
<1> QED BY <1>1, FS_CardinalityType, FS_EmptySet, FS_RemoveElement

\* A request leaves the section having added no more than its pages.
LEMMA LeaveReserved ==
  ASSUME Shapes, Exclusive, Reserved, Waiting \in Nat, Waiting' \in Nat,
         NEW i \in Pending, Pending' = Pending \ {i},
         Waiting' <= Waiting + pages[i],
         \A j \in Jobs \ {i} : pages'[j] = pages[j]
  PROVE  Reserved'
<1> DEFINE c == Cardinality(Pending)
           M == MAX_PAGES
<1>1. \A j \in Pending : pages[j] \in Nat /\ pages[j] <= M
  BY DEF Shapes, Exclusive, Pending
<1>2. c \in Nat /\ Cardinality(Pending') = c - 1 /\ (Cardinality(Pending') = 0 <=> Pending' = {})
  <2>1. c \in Nat /\ Cardinality(Pending \ {i}) = c - 1 /\ IsFiniteSet(Pending \ {i})
    BY PendingFacts, FS_RemoveElement
  <2> QED BY <2>1, FS_EmptySet
<1>3. PICK j \in Pending : Waiting + pages[j] + (c - 1) * M <= Allowance
  BY DEF Reserved
<1>4. /\ Allowance' = Allowance /\ Allowance \in Int /\ M \in Nat
      /\ (c - 1) * M \in Int /\ (c - 2) * M = (c - 1) * M - M
  <2>1. c - 1 \in Int /\ (c - 1) - 1 = c - 2
    BY <1>2
  <2> QED BY <2>1, SizeFacts DEF Allowance
<1> HIDE DEF c, M
<1>5. Waiting' + (c - 1) * M <= Allowance \/ (j # i /\ Waiting' + pages[j] + (c - 2) * M <= Allowance)
  <2>1. CASE j = i
    BY <1>1, <1>3, <1>4, <2>1
  <2>2. CASE j # i
    BY <1>1, <1>3, <1>4, <2>2
  <2> QED BY <2>1, <2>2
<1>6. CASE Pending' = {}
  <2>1. (c - 1) * M = 0
    BY <1>2, <1>4, <1>6
  <2>2. j = i
    BY <1>6
  <2> QED BY <1>4, <1>5, <1>6, <2>1, <2>2 DEF Reserved
<1>7. CASE Pending' # {}
  <2>1. Cardinality(Pending') - 1 = c - 2 /\ M = MAX_PAGES
    BY <1>2 DEF M
  <2>2. CASE j # i /\ Waiting' + pages[j] + (c - 2) * M <= Allowance
    <3>1. j \in Pending' /\ pages'[j] = pages[j]
      BY <2>2 DEF Pending
    <3> QED BY <1>4, <1>7, <2>1, <2>2, <3>1 DEF Reserved
  <2>3. CASE Waiting' + (c - 1) * M <= Allowance
    <3>1. PICK k \in Pending' : TRUE
      BY <1>7
    <3>2. k \in Pending /\ pages'[k] = pages[k] /\ pages[k] \in Nat /\ pages[k] <= M
      BY <1>1, <3>1 DEF Pending
    <3>3. Waiting' + pages'[k] + (c - 2) * M <= Allowance
      BY <1>4, <2>3, <3>2
    <3> QED BY <1>4, <1>7, <2>1, <3>1, <3>3 DEF Reserved
  <2> QED BY <1>5, <2>2, <2>3
<1> QED BY <1>6, <1>7

\* Neither a request nor a task more: nothing to argue about.
LEMMA KeepReserved ==
  ASSUME Shapes, Reserved, Waiting \in Nat, Waiting' \in Nat, Waiting' <= Waiting,
         Pending' = Pending, \A j \in Pending : pages'[j] = pages[j]
  PROVE  Reserved'
<1>1. CASE Pending = {}
  BY <1>1, SizeFacts DEF Reserved, Allowance
<1>2. CASE Pending # {}
  <2> DEFINE k == (Cardinality(Pending) - 1) * MAX_PAGES
  <2>1. PICK j \in Pending : Waiting + pages[j] + k <= Allowance
    BY <1>2 DEF Reserved
  <2>4. Cardinality(Pending) \in Nat
    BY PendingFacts
  <2>5. k \in Int /\ Allowance \in Int
    <3>1. Cardinality(Pending) - 1 \in Int
      BY <2>4
    <3> QED BY <3>1, SizeFacts
  <2>6. k' = k /\ Allowance' = Allowance
    BY DEF Allowance
  <2>7. pages[j] \in Nat /\ pages'[j] = pages[j]
    BY DEF Shapes, Pending
  <2> HIDE DEF k
  <2>3. Waiting' + pages'[j] + k' <= Allowance'
    BY <2>1, <2>5, <2>6, <2>7
  <2> QED BY <1>2, <2>1, <2>3 DEF Reserved, k
<1> QED BY <1>1, <1>2

\* The script lets j through only if its pages fit on top of what it sees, and
\* no more than one request per other replica is on its way.
LEMMA AdmitReserved ==
  ASSUME Shapes, Exclusive', NEW j \in Jobs, Fits(j), j \in Pending',
         UNCHANGED <<pages, queued, settled>>
  PROVE  Reserved'
<1> DEFINE c == Cardinality(Pending')
<1>1. /\ SumOver(twins) \in Nat /\ SumOver(queued) \in Nat /\ SumOver(settled) \in Nat
      /\ pages[j] \in Nat
  BY SumType DEF Shapes
<1>2. Waiting' + pages'[j] <= HIGH /\ Waiting' \in Nat
  <2>1. HIGH \in Nat
    BY SizeFacts
  <2>2. SumOver(queued) + SumOver(settled) + SumOver(twins) + pages[j] <= HIGH
    BY DEF Fits, Depth
  <2>3. Waiting' = SumOver(queued) + SumOver(settled) /\ pages'[j] = pages[j]
    BY DEF Waiting, SumOver, Entries
  <2> QED BY <1>1, <2>1, <2>2, <2>3
<1>3. c <= Cardinality(Replicas) /\ c \in Nat
  <2>1. IsFiniteSet(Pending')
    BY IngestionAssumption, FS_Subset DEF Pending
  <2>2. Exclusive' => c <= Cardinality(Replicas)
    <3> DEFINE f == [i \in Pending' |-> At[i]]
    <3>1. Exclusive' => f \in Injection(Pending', Replicas)
      BY IngestionAssumption DEF Exclusive, Pending, Injection, IsInjective
    <3> QED BY <3>1, FS_Injection, IngestionAssumption
  <2> QED BY <2>1, <2>2, FS_CardinalityType
<1> HIDE DEF c
<1>4. (c - 1) * MAX_PAGES <= (Cardinality(Replicas) - 1) * MAX_PAGES
      /\ (c - 1) * MAX_PAGES \in Int /\ (Cardinality(Replicas) - 1) * MAX_PAGES \in Int
  <2>0. Cardinality(Replicas) \in Nat
    BY SizeFacts
  <2>1. c - 1 \in Int /\ Cardinality(Replicas) - 1 \in Int
        /\ c - 1 <= Cardinality(Replicas) - 1
    BY <1>3, <2>0
  <2> QED BY <2>1, SizeFacts
<1>5. Waiting' + pages'[j] + (c - 1) * MAX_PAGES <= Allowance'
  <2> DEFINE m == (Cardinality(Replicas) - 1) * MAX_PAGES
             n == (c - 1) * MAX_PAGES
  <2>1. Allowance' = HIGH + m /\ HIGH \in Nat
    BY SizeFacts DEF Allowance
  <2>2. pages'[j] \in Nat
    BY <1>1
  <2>3. n <= m /\ n \in Int /\ m \in Int
    BY <1>4
  <2> HIDE DEF m, n
  <2>4. Waiting' + pages'[j] + n <= Allowance'
    BY <1>2, <2>1, <2>2, <2>3
  <2> QED BY <2>4 DEF n
<1> QED BY <1>5 DEF Reserved, c

\* The lock excludes: every step keeps its holder the only one in the section.
LEMMA ExclusiveStep == Inv /\ Exclusive /\ [Next]_vars => Exclusive'
<1> SUFFICES ASSUME Inv, Exclusive, [Next]_vars PROVE Exclusive'
  OBVIOUS
<1> USE IngestionAssumption
<1>0. /\ req \in [Jobs -> ReqState] /\ pages \in [Jobs -> Nat]
      /\ lock \in [Replicas -> Jobs \cup {None}] /\ MAX_PAGES \in Nat
  BY DEF Inv, Shapes, Exclusive
<1>1. ASSUME NEW j \in Jobs, Arrive(j) PROVE Exclusive'
  BY <1>0, <1>1 DEF Arrive, Refuse, Exclusive
<1>2. ASSUME NEW j \in Jobs, Store(j) \/ Count(j) PROVE Exclusive'
  BY <1>0, <1>2 DEF Store, Count, Refuse, Exclusive
<1>3. ASSUME NEW j \in Jobs, Lock(j) PROVE Exclusive'
  BY <1>0, <1>3 DEF Lock, Exclusive
<1>4. ASSUME NEW j \in Jobs, Evaluate(j) PROVE Exclusive'
  <2>1. CASE req' = [req EXCEPT ![j] = "initialising"] /\ UNCHANGED <<pages, lock>>
    BY <1>0, <1>4, <2>1 DEF Evaluate, Exclusive
  <2>2. CASE Refuse(j) /\ Unlock(j)
    BY <1>0, <1>4, <2>2 DEF Evaluate, Refuse, Unlock, Exclusive
  <2> QED BY <1>4, <2>1, <2>2 DEF Evaluate
<1>5. ASSUME NEW j \in Jobs, InitJob(j) PROVE Exclusive'
  BY <1>0, <1>5 DEF InitJob, Exclusive
<1>6. ASSUME NEW j \in Jobs, EnqueuePages(j) \/ Fail(j) PROVE Exclusive'
  <2>1. /\ req[j] \in InSection /\ req'[j] \in {"accepted", "failed"} /\ pages' = pages
        /\ \A i \in Jobs \ {j} : req'[i] = req[i]
        /\ lock' = [lock EXCEPT ![At[j]] = None]
    BY <1>0, <1>6 DEF EnqueuePages, Fail, Unlock
  <2> QED BY <1>0, <2>1 DEF Exclusive
<1>7. ASSUME NEW r \in Replicas, ApiCrash(r) PROVE Exclusive'
  BY <1>0, <1>7 DEF ApiCrash, Exclusive
<1>8. CASE UNCHANGED <<req, pages, lock>>
  BY <1>8 DEF Exclusive
<1> QED
  BY <1>1, <1>2, <1>3, <1>4, <1>5, <1>6, <1>7, <1>8
     DEF Next, Request, Work, Sweep, Settle, Ack, RequeueAdd, RequeueAck, MaybeDelete,
         WorkerCrash, Expire, GrowOld, FlagExpires, SweepCheck, SweepDelete, vars

LEMMA ReservedStep == Inv /\ Exclusive /\ Reserved /\ [Next]_vars => Reserved'
<1> SUFFICES ASSUME Inv, Exclusive, Reserved, [Next]_vars PROVE Reserved'
  OBVIOUS
<1>0. Inv' /\ Shapes /\ Exclusive'
  BY StepInv, ExclusiveStep DEF Inv, StepInv, ExclusiveStep
<1>a. /\ queued \in [Jobs -> Nat] /\ settled \in [Jobs -> Nat] /\ pages \in [Jobs -> Nat]
      /\ queued' \in [Jobs -> Nat] /\ settled' \in [Jobs -> Nat]
      /\ req \in [Jobs -> ReqState]
  BY <1>0 DEF Inv, Shapes
<1>b. Waiting' = SumOver(queued') + SumOver(settled')
  BY DEF Waiting, SumOver, Entries
<1>c. Waiting \in Nat /\ Waiting' \in Nat
  <2>1. /\ SumOver(queued) \in Nat /\ SumOver(settled) \in Nat
        /\ SumOver(queued') \in Nat /\ SumOver(settled') \in Nat
    BY <1>a, SumType
  <2> QED BY <1>b, <2>1 DEF Waiting
\* The number of entries changes by what one job's counters do.
<1>d. ASSUME NEW j \in Jobs,
             \A i \in Jobs \ {j} : queued'[i] = queued[i] /\ settled'[i] = settled[i]
      PROVE  Waiting' = Waiting + (queued'[j] - queued[j]) + (settled'[j] - settled[j])
  <2>1. /\ SumOver(queued') = SumOver(queued) - queued[j] + queued'[j]
        /\ SumOver(queued) \in Nat /\ SumOver(queued') \in Nat
    BY <1>a, <1>d, SumUpdate
  <2>2. /\ SumOver(settled') = SumOver(settled) - settled[j] + settled'[j]
        /\ SumOver(settled) \in Nat /\ SumOver(settled') \in Nat
    BY <1>a, <1>d, SumUpdate
  <2>3. queued[j] \in Nat /\ settled[j] \in Nat /\ queued'[j] \in Nat /\ settled'[j] \in Nat
    BY <1>a
  <2> QED BY <1>b, <2>1, <2>2, <2>3 DEF Waiting
<1>e. ASSUME UNCHANGED <<queued, settled>> PROVE Waiting' = Waiting
  BY <1>b, <1>e DEF Waiting
<1>1. ASSUME UNCHANGED <<queued, settled>>, Pending' = Pending,
             \A j \in Pending : pages'[j] = pages[j]
      PROVE  Reserved'
  BY <1>0, <1>c, <1>e, <1>1, KeepReserved
<1>2. ASSUME NEW j \in Jobs, Arrive(j) \/ Store(j) \/ Count(j) \/ Lock(j) \/ InitJob(j)
      PROVE  Reserved'
  <2>1. UNCHANGED <<queued, settled>>
    BY <1>2 DEF Arrive, Store, Count, Lock, InitJob, tasks
  <2>2. Pending' = Pending /\ \A i \in Pending : pages'[i] = pages[i]
    BY <1>2, <1>a DEF Pending, Arrive, Store, Count, Lock, InitJob, Refuse
  <2> QED BY <1>1, <2>1, <2>2
<1>3. ASSUME NEW j \in Jobs, Evaluate(j) PROVE Reserved'
  <2>0. UNCHANGED <<queued, settled>> /\ req[j] = "evaluating"
    BY <1>3 DEF Evaluate, tasks
  <2>1. CASE Admits(j)
    <3>1. j \in Pending' /\ pages' = pages /\ Fits(j)
      BY <1>3, <1>a, <2>1 DEF Evaluate, Pending, Admits
    <3> QED BY <1>0, <2>0, <3>1, AdmitReserved
  <2>2. CASE ~Admits(j)
    <3>1. Pending' = Pending /\ \A i \in Pending : pages'[i] = pages[i]
      BY <1>3, <1>a, <2>0, <2>2 DEF Evaluate, Pending, Refuse
    <3> QED BY <1>1, <2>0, <3>1
  <2> QED BY <2>1, <2>2
<1>4. ASSUME NEW j \in Jobs, EnqueuePages(j) \/ Fail(j) PROVE Reserved'
  <2>1. /\ req[j] \in InSection /\ req'[j] \in {"accepted", "failed"} /\ pages' = pages
        /\ \A i \in Jobs \ {j} : req'[i] = req[i]
        /\ settled' = settled /\ \A i \in Jobs \ {j} : queued'[i] = queued[i]
        /\ queued'[j] <= pages[j] /\ (j \notin Pending => queued'[j] = 0)
    BY <1>4, <1>a DEF EnqueuePages, Fail, Pending
  <2>2. queued[j] = 0 /\ queued'[j] \in Nat /\ settled[j] \in Nat /\ pages[j] \in Nat
    BY <1>a, <2>1 DEF Inv, JobInv
  <2>3. Waiting' = Waiting + queued'[j]
    <3>1. Waiting' = Waiting + (queued'[j] - queued[j]) + (settled'[j] - settled[j])
      BY <1>d, <2>1
    <3> QED BY <1>c, <2>1, <2>2, <3>1
  <2>4. CASE j \in Pending
    <3>1. Pending' = Pending \ {j}
      BY <2>1 DEF Pending
    <3>2. Waiting' <= Waiting + pages[j]
      BY <1>c, <2>1, <2>2, <2>3
    <3> QED BY <1>0, <1>c, <2>1, <2>4, <3>1, <3>2, LeaveReserved
  <2>5. CASE j \notin Pending
    <3>1. Pending' = Pending
      BY <2>1, <2>5 DEF Pending
    <3>2. Waiting' <= Waiting
      BY <1>c, <2>1, <2>3, <2>5
    <3> QED BY <1>0, <1>c, <2>1, <3>1, <3>2, KeepReserved
  <2> QED BY <2>4, <2>5
<1>5. ASSUME NEW r \in Replicas, ApiCrash(r) PROVE Reserved'
  <2>1. /\ UNCHANGED <<queued, settled, pages>>
        /\ \A i \in Jobs : req'[i] = IF At[i] = r /\ req[i] \in InProgress
                                     THEN "failed" ELSE req[i]
    BY <1>5 DEF ApiCrash, tasks
  <2>2. CASE \E j \in Pending : At[j] = r
    <3>1. PICK j \in Pending : At[j] = r
      BY <2>2
    <3>2. Pending' = Pending \ {j}
      BY <2>1, <3>1 DEF Pending, Exclusive
    <3>3. pages[j] \in Nat
      BY <1>a DEF Pending
    <3>4. Waiting' <= Waiting + pages[j]
      BY <1>c, <1>e, <2>1, <3>3
    <3> QED BY <1>0, <1>c, <2>1, <3>2, <3>4, LeaveReserved
  <2>3. CASE ~\E j \in Pending : At[j] = r
    <3>1. Pending' = Pending
      BY <2>1, <2>3 DEF Pending
    <3> QED BY <1>1, <2>1, <3>1
  <2> QED BY <2>2, <2>3
<1>6. ASSUME NEW j \in Jobs, Settle(j) \/ Ack(j) PROVE Reserved'
  <2>1. /\ UNCHANGED <<req, pages>>
        /\ \A i \in Jobs \ {j} : queued'[i] = queued[i] /\ settled'[i] = settled[i]
        /\ \/ queued'[j] = queued[j] - 1 /\ settled'[j] = settled[j] + 1
           \/ queued'[j] = queued[j] /\ settled'[j] = settled[j] - 1
    BY <1>6, <1>a DEF Settle, Ack
  <2>2. Waiting' = Waiting + (queued'[j] - queued[j]) + (settled'[j] - settled[j])
    BY <1>d, <2>1
  <2>3. queued[j] \in Nat /\ settled[j] \in Nat
    BY <1>a
  <2>4. Waiting' <= Waiting
    BY <1>c, <2>1, <2>2, <2>3
  <2>5. Pending' = Pending
    BY <2>1 DEF Pending
  <2> QED BY <1>0, <1>c, <2>1, <2>4, <2>5, KeepReserved
<1>7. CASE UNCHANGED <<req, pages, queued, settled>>
  <2>1. Pending' = Pending
    BY <1>7 DEF Pending
  <2> QED BY <1>1, <1>7, <2>1
<1> QED
  BY <1>2, <1>3, <1>4, <1>5, <1>6, <1>7
     DEF Next, Request, Work, Sweep, RequeueAdd, RequeueAck, MaybeDelete,
         WorkerCrash, Expire, GrowOld, FlagExpires, SweepCheck, SweepDelete, vars, tasks

(* The bound on over-admission (app/main.py: "bounded by (N-1) x           *)
(* max_pages"), for any number of replicas, jobs, sizes and watermarks, with *)
(* replies lost, replicas crashing in the section and half-written jobs.     *)
THEOREM BacklogIsBounded == Spec => []DepthBounded
<1>1. Init => Exclusive /\ Reserved
  <2> SUFFICES ASSUME Init PROVE Exclusive /\ Reserved
    OBVIOUS
  <2>1. Exclusive
    BY IngestionAssumption DEF Init, Exclusive
  <2>2. Pending = {}
    BY DEF Init, Pending
  <2>3. /\ queued \in [Jobs -> Nat] /\ \A j \in Jobs : queued[j] = 0
        /\ settled \in [Jobs -> Nat] /\ \A j \in Jobs : settled[j] = 0
    BY DEF Init
  <2>4. SumOver(queued) = 0 /\ SumOver(settled) = 0
    BY <2>3, SumType
  <2>5. Waiting = 0
    BY <2>4 DEF Waiting
  <2>6. 0 <= Allowance
    <3>0. Cardinality(Replicas) \in Nat /\ Cardinality(Replicas) >= 1
          /\ MAX_PAGES \in Nat /\ HIGH \in Nat
      BY SizeFacts
    <3>1. Cardinality(Replicas) - 1 \in Int /\ 0 <= Cardinality(Replicas) - 1
      BY <3>0
    <3>2. 0 * MAX_PAGES <= (Cardinality(Replicas) - 1) * MAX_PAGES
          /\ (Cardinality(Replicas) - 1) * MAX_PAGES \in Int
      BY <3>1, SizeFacts
    <3> QED BY <3>0, <3>2 DEF Allowance
  <2> QED BY <2>1, <2>2, <2>5, <2>6 DEF Reserved
<1>2. Inv /\ Exclusive /\ Reserved => DepthBounded
  <2> SUFFICES ASSUME Inv, Exclusive, Reserved PROVE DepthBounded
    OBVIOUS
  <2>1. /\ SumOver(queued) \in Nat /\ SumOver(settled) \in Nat /\ SumOver(twins) \in Nat
        /\ Allowance \in Int
    BY SumType, SizeFacts DEF Inv, Shapes
  <2>2. Waiting <= Allowance
    <3>1. CASE Pending = {}
      BY <3>1 DEF Reserved
    <3>2. CASE Pending # {}
      <4> DEFINE k == (Cardinality(Pending) - 1) * MAX_PAGES
      <4>1. PICK j \in Pending : Waiting + pages[j] + k <= Allowance
        BY <3>2 DEF Reserved
      <4>0. Cardinality(Pending) \in Nat /\ Cardinality(Pending) # 0
        BY <3>2, PendingFacts
      <4>2. Cardinality(Pending) - 1 \in Int /\ 0 <= Cardinality(Pending) - 1
        BY <4>0
      <4>3. 0 * MAX_PAGES <= k /\ k \in Int /\ MAX_PAGES \in Nat
        BY <4>2, SizeFacts
      <4>4. pages[j] \in Nat
        BY DEF Inv, Shapes, Pending
      <4> HIDE DEF k
      <4> QED BY <2>1, <4>1, <4>3, <4>4 DEF Waiting
    <3> QED BY <3>1, <3>2
  <2> QED BY <2>1, <2>2 DEF DepthBounded, Depth, Waiting, Allowance
<1> QED
  BY <1>1, <1>2, InvHolds, ExclusiveStep, ReservedStep, PTL
     DEF Spec, InvHolds, ExclusiveStep, ReservedStep

-----------------------------------------------------------------------------
(* The Retry-After header.                                                 *)

LEMMA MaxMinOfTwo ==
  ASSUME NEW a \in Int, NEW b \in Int
  PROVE  /\ Max({a, b}) \in {a, b} /\ Max({a, b}) >= a /\ Max({a, b}) >= b
         /\ Min({a, b}) \in {a, b} /\ Min({a, b}) <= a /\ Min({a, b}) <= b
<1>1. \E x \in {a, b} : \A y \in {a, b} : x >= y
  BY DEF Max
<1>2. \E x \in {a, b} : \A y \in {a, b} : x <= y
  BY DEF Min
<1> QED BY <1>1, <1>2 DEF Max, Min

\* Rounding up: the quotient times the divisor reaches the dividend.
LEMMA CeilingReaches ==
  ASSUME NEW n \in Nat, NEW d \in Nat \ {0}
  PROVE  -((-n) \div d) \in Nat /\ (-((-n) \div d)) * d >= n
  OBVIOUS

(* _retry_after is honest for every depth, drain rate and jitter: it is a   *)
(* whole number of seconds within 1..retry_after_cap_s, and unless it was   *)
(* capped a client that waits that long finds the backlog drained to the    *)
(* low mark at the quoted rate.                                             *)
THEOREM RetryAfterIsHonest ==
  ASSUME NEW depth \in Nat, NEW rate \in Nat \ {0}, NEW jitter \in Nat
  PROVE  LET t == RetryAfter(depth, rate, jitter)
         IN  t \in 1..RETRY_CAP /\ (t = RETRY_CAP \/ depth - rate * t <= LOW)
<1> DEFINE excess == Max({0, depth - LOW})
           up     == -((-(excess * (10 + jitter))) \div (10 * rate))
           capped == Min({RETRY_CAP, up})
           t      == RetryAfter(depth, rate, jitter)
<1>0. LOW \in Nat /\ RETRY_CAP \in Nat \ {0}
  BY IngestionAssumption
<1>1. excess \in Nat /\ excess >= depth - LOW
  BY <1>0, MaxMinOfTwo
<1> HIDE DEF excess
<1>2. excess * (10 + jitter) \in Nat /\ 10 * rate \in Nat \ {0}
      /\ excess * (10 + jitter) >= 10 * excess
  <2>1. excess * jitter \in Nat
    BY <1>1
  <2>2. excess * (10 + jitter) = 10 * excess + excess * jitter
    BY <1>1
  <2> QED BY <1>1, <2>1, <2>2
<1>3. up \in Nat /\ up * (10 * rate) >= 10 * excess
  <2>1. up \in Nat /\ up * (10 * rate) >= excess * (10 + jitter)
    BY <1>2, CeilingReaches
  <2> HIDE DEF up
  <2>2. up * (10 * rate) \in Nat
    BY <2>1, <1>2
  <2> QED BY <1>1, <1>2, <2>1, <2>2
<1> HIDE DEF up
<1>4. up * rate \in Nat /\ up * rate >= excess
  <2>1. up * rate \in Nat /\ up * (10 * rate) = 10 * (up * rate)
    BY <1>3
  <2> QED BY <1>1, <1>3, <2>1
<1>5. capped \in {RETRY_CAP, up} /\ capped <= RETRY_CAP /\ capped <= up
  <2>1. RETRY_CAP \in Int /\ up \in Int
    BY <1>0, <1>3
  <2> QED BY <2>1, MaxMinOfTwo
<1> HIDE DEF capped
<1>6. t \in {1, capped} /\ t >= 1 /\ t >= capped
  <2>1. t = Max({1, capped})
    BY DEF t, capped, up, excess, RetryAfter
  <2>2. capped \in Int
    BY <1>0, <1>3, <1>5
  <2> QED BY <2>1, <2>2, MaxMinOfTwo
<1> HIDE DEF t
<1>7. t \in 1..RETRY_CAP
  BY <1>0, <1>3, <1>5, <1>6
<1>8. ASSUME t # RETRY_CAP PROVE depth - rate * t <= LOW
  <2>1. t \in Nat /\ t >= up
    BY <1>0, <1>3, <1>5, <1>6, <1>8
  <2>2. rate * t >= up * rate /\ rate * t \in Nat
    BY <1>3, <2>1
  <2> QED BY <1>0, <1>1, <1>4, <2>2
<1> QED BY <1>7, <1>8 DEF t

-----------------------------------------------------------------------------
(* The type invariant.                                                     *)

\* What the invariants above leave open: the tasks of a job in the streams and
\* at the workers, the requeues in progress, and who holds a lock.
Ranges ==
  /\ \A j \in Jobs : /\ queued[j] + settled[j] + checks[j] <= pages[j]
                     /\ twins[j] <= MaxTwins
  /\ \A r \in Replicas :
       lock[r] = None \/ (At[lock[r]] = r /\ req[lock[r]] \in InSection)

LEMMA RangesStep == Inv /\ Exclusive /\ Ranges /\ [Next]_vars => Ranges'
<1> SUFFICES ASSUME Inv, Exclusive, Ranges, [Next]_vars PROVE Ranges'
  OBVIOUS
<1> USE IngestionAssumption
<1>a. /\ req \in [Jobs -> ReqState] /\ pages \in [Jobs -> Nat] /\ twins \in [Jobs -> Nat]
      /\ queued \in [Jobs -> Nat] /\ settled \in [Jobs -> Nat] /\ checks \in [Jobs -> Nat]
      /\ lock \in [Replicas -> Jobs \cup {None}]
  BY DEF Inv, Shapes, Exclusive
<1>b. \A j \in Jobs : req[j] \in Early \cup {Refused} =>
        queued[j] = 0 /\ settled[j] = 0 /\ checks[j] = 0
  BY DEF Inv, JobInv
\* Before the section a request has no tasks and no lock.
<1>c. ASSUME NEW j \in Jobs, req[j] \in {"new", "storing", "counting"},
             UNCHANGED <<tasks, lock>>, pages' \in [Jobs -> Nat],
             \A i \in Jobs \ {j} : req'[i] = req[i] /\ pages'[i] = pages[i]
      PROVE  Ranges'
  <2>1. \A r \in Replicas : lock[r] # j
    BY <1>c DEF Ranges
  <2>2. UNCHANGED <<queued, settled, checks, twins, lock>>
    BY <1>c DEF tasks
  <2>3. queued[j] = 0 /\ settled[j] = 0 /\ checks[j] = 0 /\ pages'[j] \in Nat
    BY <1>b, <1>c
  <2>4. ASSUME NEW i \in Jobs
        PROVE  queued'[i] + settled'[i] + checks'[i] <= pages'[i] /\ twins'[i] <= MaxTwins
    BY <1>c, <2>2, <2>3 DEF Ranges
  <2>5. ASSUME NEW r \in Replicas
        PROVE  lock'[r] = None \/ (At[lock'[r]] = r /\ req'[lock'[r]] \in InSection)
    BY <1>a, <1>c, <2>1, <2>2 DEF Ranges
  <2> QED BY <2>4, <2>5 DEF Ranges
<1>1. ASSUME NEW j \in Jobs, Arrive(j) PROVE Ranges'
  <2>1. req[j] = "new" /\ UNCHANGED <<tasks, lock>>
        /\ pages' \in [Jobs -> Nat]
        /\ \A i \in Jobs \ {j} : req'[i] = req[i] /\ pages'[i] = pages[i]
    BY <1>a, <1>1 DEF Arrive, Refuse
  <2> QED BY <1>c, <2>1
<1>2. ASSUME NEW j \in Jobs, Store(j) \/ Count(j) PROVE Ranges'
  <2>1. req[j] \in {"storing", "counting"} /\ UNCHANGED <<tasks, lock>>
        /\ pages' \in [Jobs -> Nat]
        /\ \A i \in Jobs \ {j} : req'[i] = req[i] /\ pages'[i] = pages[i]
    BY <1>a, <1>2 DEF Store, Count, Refuse
  <2> QED BY <1>c, <2>1
<1>3. ASSUME NEW j \in Jobs, Lock(j) \/ InitJob(j) PROVE Ranges'
  BY <1>a, <1>3 DEF Lock, InitJob, tasks, Ranges
<1>4. ASSUME NEW j \in Jobs, Evaluate(j) PROVE Ranges'
  <2>0. req[j] = "evaluating" /\ lock[At[j]] = j /\ UNCHANGED tasks
    BY <1>4 DEF Evaluate, Exclusive
  <2>1. CASE req' = [req EXCEPT ![j] = "initialising"] /\ UNCHANGED <<pages, lock>>
    BY <1>a, <2>0, <2>1 DEF Ranges, tasks
  <2>2. CASE Refuse(j) /\ Unlock(j)
    BY <1>a, <1>b, <2>0, <2>2 DEF Refuse, Unlock, tasks, Ranges
  <2> QED BY <1>4, <2>1, <2>2 DEF Evaluate
<1>5. ASSUME NEW j \in Jobs, EnqueuePages(j) \/ Fail(j) PROVE Ranges'
  <2>1. /\ req[j] \in InSection /\ pages' = pages
        /\ \A i \in Jobs \ {j} : req'[i] = req[i] /\ queued'[i] = queued[i]
        /\ UNCHANGED <<settled, twins, checks>>
        /\ queued'[j] <= pages[j]
        /\ lock' = [lock EXCEPT ![At[j]] = None]
    BY <1>5, <1>a DEF EnqueuePages, Fail, Unlock
  <2>2. /\ lock[At[j]] = j /\ settled[j] = 0 /\ checks[j] = 0
        /\ queued' \in [Jobs -> Nat]
    BY <1>5, <1>a, <1>b, <2>1 DEF Exclusive, EnqueuePages, Fail
  <2> QED BY <1>a, <2>1, <2>2 DEF Ranges
<1>6. ASSUME NEW r \in Replicas, ApiCrash(r) PROVE Ranges'
  BY <1>a, <1>6 DEF ApiCrash, tasks, Ranges
<1>7. ASSUME NEW j \in Jobs,
             Settle(j) \/ Ack(j) \/ MaybeDelete(j) \/ WorkerCrash(j) \/ RequeueAck(j)
      PROVE  Ranges'
  BY <1>a, <1>7 DEF Settle, Ack, MaybeDelete, WorkerCrash, RequeueAck, Ranges
<1>8. ASSUME NEW j \in Jobs, RequeueAdd(j) PROVE Ranges'
  <2>1. SumOver(twins) = Cardinality(Rest(twins, j)) + twins[j]
        /\ Cardinality(Rest(twins, j)) \in Nat
    BY <1>a, SumSplit, RestFinite
  <2>2. SumOver(twins) < MaxTwins /\ twins' = [twins EXCEPT ![j] = @ + 1]
    BY <1>8 DEF RequeueAdd
  <2>3. MaxTwins \in Nat
    OBVIOUS
  <2>4. twins[j] + 1 <= MaxTwins
    BY <1>a, <2>1, <2>2, <2>3
  <2> QED BY <1>a, <1>8, <2>2, <2>4 DEF RequeueAdd, Ranges
<1>9. CASE UNCHANGED <<req, pages, tasks, lock>>
  BY <1>9 DEF Ranges, tasks
<1> QED
  BY <1>1, <1>2, <1>3, <1>4, <1>5, <1>6, <1>7, <1>8, <1>9
     DEF Next, Request, Work, Sweep, Expire, GrowOld, FlagExpires, SweepCheck,
         SweepDelete, vars

(* Every variable keeps its type: no job ever has more tasks than pages in  *)
(* the streams and at the workers, no counter goes negative, and a held     *)
(* admission lock belongs to a request inside the section.                  *)
THEOREM IngestionTyped == Spec => []IngestionTypeOK
<1>1. Init => Exclusive /\ Ranges
  BY IngestionAssumption DEF Init, Exclusive, Ranges
<1>2. Inv /\ Exclusive /\ Ranges => IngestionTypeOK
  BY DEF Inv, Shapes, JobInv, Exclusive, Ranges, IngestionTypeOK
<1> QED
  BY <1>1, <1>2, InvHolds, ExclusiveStep, RangesStep, PTL
     DEF Spec, InvHolds, ExclusiveStep, RangesStep
=============================================================================

---------------------------- MODULE PageLifecycle ----------------------------
(***************************************************************************)
(* One job's pages on their way through the orchestrator: the page hashes  *)
(* and their compare-and-set (app/queue/state.py), the task stream and its *)
(* pending-entries list (app/queue/streams.py), the page coroutines of     *)
(* every worker (app/worker/main.py, app/worker/pipeline.py), its reaper   *)
(* (app/worker/reaper.py) and the events they publish.                     *)
(*                                                                         *)
(* A step is one Redis command, or one model call, together with the local *)
(* code up to the next await: coroutines interleave exactly there.  A      *)
(* coroutine's pc names the await it is about to perform.                  *)
(***************************************************************************)
EXTENDS PageStates, Integers, Sequences, FiniteSets

CONSTANTS
    Pages,          \* the pages of the job
    Workers,        \* consumer names
    Slots,          \* page coroutines per worker (worker_concurrency of them)
    Maintenance,    \* the name of a worker's maintenance coroutine
    New, Absent, Gone, \* an entry: undelivered, not yet added, acked and deleted
    NoEntry,        \* "no task"
    Handoff,        \* settings.stage_handoff
    MaxRequeues,    \* settings.effective_max_requeues
    ReaperBatch,    \* settings.reaper_batch
    LeaseMayLapse,  \* may a live coroutine's lease outlive reaper_min_idle_s?
    MaxAge,         \* bound: 0 no page ages, 1 past degrade_after_s, 2 past the deadline
    MaxEntries,     \* bound: stream entries ever added per page
    MaxCrashes,     \* bound: worker crashes
    MaxFaults       \* bound: Redis commands that raise

ASSUME PagesAssumption == IsFiniteSet(Pages) /\ Pages # {}

ASSUME NamesAssumption ==
    /\ Workers \cap {New, Absent, Gone} = {}
    /\ New # Absent /\ New # Gone /\ Absent # Gone
    /\ Maintenance \notin Slots
    /\ NoEntry \notin Pages \X Nat

ASSUME BoundsAssumption ==
    /\ Handoff \in BOOLEAN /\ LeaseMayLapse \in BOOLEAN
    /\ MaxRequeues \in Nat \ {0} /\ ReaperBatch \in Nat \ {0}
    /\ MaxAge \in 0..2
    /\ MaxEntries \in Nat /\ MaxCrashes \in Nat /\ MaxFaults \in Nat

VARIABLES
    pageState,   \* page hash: field state
    doneCount,   \* job hash: field done_count
    owner,       \* per entry: New, Absent, Gone or the consumer whose PEL holds it
    attempt,     \* per entry: its attempt field
    toEnqueue,   \* pages enqueue_pages has not added yet
    age,         \* per page: 0 fresh, 1 past degrade_after_s, 2 past page_deadline_s
    events,      \* the job's result stream
    up,          \* per worker: is its process running?
    co,          \* per coroutine: its control state
    batch,       \* per worker: orphans its reaper claimed and has not recovered
    crashes, faults

vars == <<pageState, doneCount, owner, attempt, toEnqueue, age, events,
          up, co, batch, crashes, faults>>
store == <<pageState, doneCount>>
queue == <<owner, attempt>>
env   == <<toEnqueue, age, up, crashes>>

Total == Cardinality(Pages)

(* Entry ids.  Redis ids are never reused; numbering them per page keeps   *)
(* the page of an id fixed and the order between pages out of the state.   *)
Entries == Pages \X (1..MaxEntries)
PageOf(e) == e[1]

Coroutines == Workers \X (Slots \cup {Maintenance})
IsReaper(c) == c[2] = Maintenance

Labels == {"idle", "get", "relGet", "relCas", "reget", "claimLayout", "layout",
           "commitLayout", "emitPartial", "claimVlm", "vlm", "commitDone",
           "degrade", "fail", "emitFinal", "emitLast", "emitComplete",
           "ftGet", "ftCas", "xadd", "handoff", "ack"}

Idle == [pc |-> "idle", entry |-> NoEntry, ctx |-> "page", final |-> FALSE,
         recovered |-> FALSE, seen |-> "PENDING", ret |-> "idle"]

(* ctx: inside process_page, inside the except block of _handle_page, or   *)
(* inside Reaper._recover.  seen: the state a get_page returned and a later *)
(* command still relies on.  ret: where release_claim returns to.          *)
CoroutineState ==
    [pc : Labels, entry : Entries \cup {NoEntry}, ctx : {"page", "net", "reap"},
     final : BOOLEAN, recovered : BOOLEAN, seen : PageState,
     ret : {"idle", "reget", "xadd", "fail"}]

Page(c) == PageOf(co[c].entry)
At(c, label) == co[c].pc = label
Goto(c, label) == [co[c] EXCEPT !.pc = label]

-----------------------------------------------------------------------------
(***************************************************************************)
(* What a coroutine does after a command: continue at k, or see the command *)
(* raise although Redis executed it (the reply was lost).                   *)
(***************************************************************************)

AfterLayout == IF Handoff THEN "handoff" ELSE "claimVlm"

InOuterTry == {"claimLayout", "commitLayout", "claimVlm", "commitDone", "degrade"}

(* Where an exception raised by the command at co[c].pc is handled: _emit  *)
(* swallows it; the outer handler of process_page turns it into FAILED;    *)
(* anything else in process_page reaches the except block of _handle_page; *)
(* there, in requeue and ack, and in the reaper it ends the coroutine (the *)
(* reaper abandons the rest of its batch), leaving the entry in the PEL.   *)
Raised(c) ==
    LET k == co[c] IN
    CASE k.pc = "emitPartial" -> Goto(c, AfterLayout)
      [] k.pc \in {"emitFinal", "emitLast", "emitComplete"} -> Goto(c, "ack")
      [] k.pc \in {"xadd", "handoff", "ack"} \/ k.ctx # "page" -> Idle
      [] k.pc \in InOuterTry /\ k.ctx = "page" -> Goto(c, "fail")
      [] OTHER -> [k EXCEPT !.ctx = "net", !.ret = "xadd",
                            !.pc = IF k.final THEN "ftGet" ELSE "relGet"]

Raise(c) ==
    /\ faults < MaxFaults
    /\ faults' = faults + 1
    /\ co' = [co EXCEPT ![c] = Raised(c)]
    /\ batch' = IF IsReaper(c) /\ Raised(c) = Idle
                THEN [batch EXCEPT ![c[1]] = {}] ELSE batch

Proceed(c, k) ==
    \/ co' = [co EXCEPT ![c] = k] /\ UNCHANGED <<batch, faults>>
    \/ Raise(c)

(* A command that raises without having been executed.                     *)
RedisError(c) ==
    /\ co[c].pc \notin {"idle", "layout", "vlm"}
    /\ Raise(c)
    /\ UNCHANGED <<store, queue, events, env>>

-----------------------------------------------------------------------------
(* Mutant: a rejected terminal transition is counted too.                  *)
TransitionCountsRejected(c, target, from, ifOk, ifRejected) ==
    LET p == Page(c) IN
    /\ doneCount' = IF target \in TERMINAL_STATES THEN doneCount + 1 ELSE doneCount
    /\ IF pageState[p] \in from
       THEN pageState' = [pageState EXCEPT ![p] = target] /\ Proceed(c, ifOk)
       ELSE UNCHANGED pageState /\ Proceed(c, ifRejected)
    /\ UNCHANGED <<queue, events, env>>

(***************************************************************************)
(* PageStateStore.transition: the Lua compare-and-set.  A terminal target  *)
(* also increments done_count in the same script.                          *)
(***************************************************************************)
Transition(c, target, from, ifOk, ifRejected) ==
    LET p == Page(c) IN
    /\ IF pageState[p] \in from
       THEN /\ pageState' = [pageState EXCEPT ![p] = target]
            /\ doneCount' = IF target \in TERMINAL_STATES THEN doneCount + 1 ELSE doneCount
            /\ Proceed(c, ifOk)
       ELSE /\ UNCHANGED store
            /\ Proceed(c, ifRejected)
    /\ UNCHANGED <<queue, events, env>>

(* Mutants: the event is not gated on the transition; the completion test  *)
(* uses the counter before the increment.                                  *)
FinishUngated(c, target, from) ==
    Transition(c, target, from,
               Goto(c, IF doneCount + 1 >= Total THEN "emitLast" ELSE "emitFinal"),
               Goto(c, "emitFinal"))

FinishTestsTooEarly(c, target, from) ==
    Transition(c, target, from,
               Goto(c, IF doneCount >= Total THEN "emitLast" ELSE "emitFinal"),
               Goto(c, "ack"))

(* A terminal transition: its page.final, and job.complete if it is the    *)
(* transition that was told done_count >= total_pages.                     *)
Finish(c, target, from) ==
    Transition(c, target, from,
               Goto(c, IF doneCount + 1 >= Total THEN "emitLast" ELSE "emitFinal"),
               Goto(c, "ack"))

(* store.get_page, followed by the local decision k.                       *)
Observe(c, k) == Proceed(c, k) /\ UNCHANGED <<store, queue, events, env>>

(* The first stage process_page runs from checkpoint s.                    *)
Stage(s) == IF s = "PENDING" THEN "claimLayout" ELSE "claimVlm"

-----------------------------------------------------------------------------
(***************************************************************************)
(* pipeline.process_page                                                   *)
(***************************************************************************)

(* Mutant: a resumed task stands down before a *_RUNNING page as well.     *)
GetPageStandsDown(c) ==
    /\ At(c, "get") /\ co[c].ctx = "page"
    /\ LET s == pageState[Page(c)] IN
       Observe(c, IF s \in TERMINAL_STATES \cup RUNNING_STATES
                  THEN Goto(c, "ack") ELSE Goto(c, Stage(s)))

GetPage(c) ==
    /\ At(c, "get") /\ co[c].ctx = "page"
    /\ LET s == pageState[Page(c)] IN
       Observe(c, IF s \in TERMINAL_STATES THEN Goto(c, "ack")
                  ELSE IF s \notin RUNNING_STATES THEN Goto(c, Stage(s))
                  ELSE IF ~co[c].recovered THEN Goto(c, "ack")
                  ELSE [co[c] EXCEPT !.pc = "relGet", !.ret = "reget"])

(* release_claim: read the state, then roll exactly that state back.       *)
ReleaseGet(c) ==
    /\ At(c, "relGet")
    /\ LET s == pageState[Page(c)] IN
       Observe(c, IF s \in RUNNING_STATES
                  THEN [co[c] EXCEPT !.pc = "relCas", !.seen = s]
                  ELSE [co[c] EXCEPT !.pc = co[c].ret, !.ret = "idle"])

ReleaseCas(c) ==
    /\ At(c, "relCas")
    /\ LET back == [co[c] EXCEPT !.pc = co[c].ret, !.ret = "idle", !.seen = "PENDING"] IN
       Transition(c, RECLAIM_TARGET[co[c].seen], {co[c].seen}, back, back)

RegetPage(c) ==
    /\ At(c, "reget")
    /\ LET s == pageState[Page(c)] IN
       Observe(c, IF s \in TERMINAL_STATES \cup RUNNING_STATES
                  THEN Goto(c, "ack") ELSE Goto(c, Stage(s)))

ClaimLayout(c) ==
    /\ At(c, "claimLayout")
    /\ Transition(c, "LAYOUT_RUNNING", PREDECESSORS["LAYOUT_RUNNING"],
                  Goto(c, "layout"), Goto(c, "ack"))

(* Mutant: a saturated page is requeued without giving its claim back.     *)
SaturatedKeepsClaim(c) == Goto(c, IF co[c].final THEN "fail" ELSE "xadd")

(* RateLimitTimeout or CircuitOpen: give the claim back, then fail the     *)
(* page on its final attempt and requeue it otherwise.                     *)
Saturated(c) == [co[c] EXCEPT !.pc = "relGet",
                              !.ret = IF co[c].final THEN "fail" ELSE "xadd"]

CallLayout(c) ==
    /\ At(c, "layout")
    /\ \E k \in {Goto(c, "commitLayout"), Saturated(c), Goto(c, "fail")} :
          co' = [co EXCEPT ![c] = k]
    /\ UNCHANGED <<store, queue, events, env, batch, faults>>

(* Mutant: page.partial is not gated on the transition.                    *)
CommitLayoutUngated(c) ==
    /\ At(c, "commitLayout")
    /\ Transition(c, "LAYOUT_DONE", PREDECESSORS["LAYOUT_DONE"],
                  Goto(c, "emitPartial"), Goto(c, "emitPartial"))

(* Default predecessors, result not examined: a rejected commit still goes *)
(* on to the handoff or the VLM claim, without its page.partial.           *)
CommitLayout(c) ==
    /\ At(c, "commitLayout")
    /\ Transition(c, "LAYOUT_DONE", PREDECESSORS["LAYOUT_DONE"],
                  Goto(c, "emitPartial"), Goto(c, AfterLayout))

ClaimVlm(c) ==
    /\ At(c, "claimVlm")
    /\ Transition(c, "VLM_RUNNING", PREDECESSORS["VLM_RUNNING"],
                  Goto(c, "vlm"), Goto(c, "ack"))

(* Mutant: a failed VLM call fails the page instead of degrading it.       *)
CallVlmFailsPage(c) ==
    /\ At(c, "vlm")
    /\ \E k \in {Goto(c, "commitDone"), Goto(c, "fail"), Saturated(c)} :
          co' = [co EXCEPT ![c] = k]
    /\ UNCHANGED <<store, queue, events, env, batch, faults>>

(* A saturated VLM call is handed back unless this is the final attempt;   *)
(* every other failure degrades.                                           *)
CallVlm(c) ==
    /\ At(c, "vlm")
    /\ \E k \in {Goto(c, "commitDone"), Goto(c, "degrade")}
                \cup (IF co[c].final THEN {} ELSE {Saturated(c)}) :
          co' = [co EXCEPT ![c] = k]
    /\ UNCHANGED <<store, queue, events, env, batch, faults>>

CommitDone(c) == At(c, "commitDone") /\ Finish(c, "DONE", PREDECESSORS["DONE"])

Degrade(c) ==
    At(c, "degrade") /\ Finish(c, "FALLBACK_DONE", PREDECESSORS["FALLBACK_DONE"])

Fail(c) == At(c, "fail") /\ Finish(c, "FAILED", PREDECESSORS["FAILED"])

(* force_terminal: the state read selects the target, and the CAS accepts  *)
(* every predecessor of that target.                                       *)
ForceGet(c) ==
    /\ At(c, "ftGet")
    /\ LET s == pageState[Page(c)] IN
       Observe(c, IF s \in TERMINAL_STATES THEN Goto(c, "ack")
                  ELSE [co[c] EXCEPT !.pc = "ftCas", !.seen = s])

ForceCas(c) ==
    /\ At(c, "ftCas")
    /\ LET t == ForcedTarget(co[c].seen) IN Finish(c, t, PREDECESSORS[t])

(* _emit: publish after the commit, one XADD per event.                    *)
Publish(c, event, label) ==
    /\ events' = Append(events, event)
    /\ Proceed(c, Goto(c, label))
    /\ UNCHANGED <<store, queue, env>>

Partial(p) == [event |-> "page.partial", page |-> p]
Final(p) == [event |-> "page.final", page |-> p]
JobComplete == [event |-> "job.complete"]

EmitPartial(c) == At(c, "emitPartial") /\ Publish(c, Partial(Page(c)), AfterLayout)
EmitFinal(c) == At(c, "emitFinal") /\ Publish(c, Final(Page(c)), "ack")
EmitLast(c) == At(c, "emitLast") /\ Publish(c, Final(Page(c)), "emitComplete")
EmitComplete(c) == At(c, "emitComplete") /\ Publish(c, JobComplete, "ack")

-----------------------------------------------------------------------------
(***************************************************************************)
(* PageQueue: requeue adds the replacement first and settles the original  *)
(* afterwards, in two commands.  A stage handoff does not spend an attempt. *)
(***************************************************************************)

(* XADD of a task of page p.                                               *)
XAdd(p, a) ==
    \E n \in 1..MaxEntries :
        /\ owner[<<p, n>>] = Absent
        /\ \A m \in 1..(n-1) : owner[<<p, m>>] # Absent
        /\ owner' = [owner EXCEPT ![<<p, n>>] = New]
        /\ attempt' = [attempt EXCEPT ![<<p, n>>] = a]

(* Mutant: the original entry is not settled.                             *)
RequeueForgetsAck(c) ==
    /\ co[c].pc \in {"xadd", "handoff"}
    /\ XAdd(Page(c), attempt[co[c].entry] + (IF At(c, "xadd") THEN 1 ELSE 0))
    /\ Proceed(c, Idle)
    /\ UNCHANGED <<store, events, env>>

Requeue(c) ==
    /\ co[c].pc \in {"xadd", "handoff"}
    /\ XAdd(Page(c), attempt[co[c].entry] + (IF At(c, "xadd") THEN 1 ELSE 0))
    /\ Proceed(c, Goto(c, "ack"))
    /\ UNCHANGED <<store, events, env>>

(* XACK and XDEL are scoped to the group, not to the consumer: the entry is *)
(* gone whoever owns it by now.                                            *)
Ack(c) ==
    /\ At(c, "ack")
    /\ owner' = [owner EXCEPT ![co[c].entry] = Gone]
    /\ Proceed(c, Idle)
    /\ UNCHANGED <<store, attempt, events, env>>

-----------------------------------------------------------------------------
(***************************************************************************)
(* The worker process                                                      *)
(***************************************************************************)

(* Out of budget to hold out for full fidelity, as _handle_page decides it *)
(* when it starts a task.                                                  *)
FinalAttempt(e) == age[PageOf(e)] >= 1 \/ attempt[e] + 1 >= MaxRequeues

Task(e, own) == [Idle EXCEPT !.pc = "get", !.entry = e, !.final = FinalAttempt(e),
                             !.recovered = own]

(* Mutant: a read also returns, as if recovered, what another worker holds. *)
DeliverHeld(w, s, e) ==
    /\ up[w] /\ At(<<w, s>>, "idle") /\ owner[e] \in {New} \cup (Workers \ {w})
    /\ owner' = [owner EXCEPT ![e] = w]
    /\ co' = [co EXCEPT ![<<w, s>>] = Task(e, owner[e] # New)]
    /\ UNCHANGED <<store, attempt, events, env, batch, faults>>

(* XREADGROUP > hands an undelivered entry to a free slot.                 *)
Deliver(w, s, e) ==
    /\ up[w] /\ At(<<w, s>>, "idle") /\ owner[e] = New
    /\ owner' = [owner EXCEPT ![e] = w]
    /\ co' = [co EXCEPT ![<<w, s>>] = Task(e, FALSE)]
    /\ UNCHANGED <<store, attempt, events, env, batch, faults>>

(* SIGKILL, or any other end of the process.  Its PEL stays behind.        *)
Crash(w) ==
    /\ up[w] /\ crashes < MaxCrashes
    /\ up' = [up EXCEPT ![w] = FALSE]
    /\ crashes' = crashes + 1
    /\ co' = [c \in Coroutines |-> IF c[1] = w THEN Idle ELSE co[c]]
    /\ batch' = [batch EXCEPT ![w] = {}]
    /\ UNCHANGED <<store, queue, events, toEnqueue, age, faults>>

OwnPending(w) == {e \in Entries : owner[e] = w}

(* A restart under the same consumer name: read_own_pending, once, for as  *)
(* many entries as there are slots.                                        *)
Restart(w) ==
    /\ ~up[w]
    /\ up' = [up EXCEPT ![w] = TRUE]
    /\ \E f \in [Slots -> OwnPending(w) \cup {NoEntry}] :
        /\ \A s, t \in Slots : s # t /\ f[s] = f[t] => f[s] = NoEntry
        /\ \/ \A s \in Slots : f[s] # NoEntry
           \/ \A e \in OwnPending(w) : \E s \in Slots : f[s] = e
        /\ co' = [c \in Coroutines |->
                    IF c[1] = w /\ c[2] \in Slots /\ f[c[2]] # NoEntry
                    THEN Task(f[c[2]], TRUE) ELSE co[c]]
    /\ UNCHANGED <<store, queue, events, toEnqueue, age, crashes, batch, faults>>

-----------------------------------------------------------------------------
(***************************************************************************)
(* The maintenance coroutine: lease renewal and the reaper                 *)
(***************************************************************************)

Reaper(w) == <<w, Maintenance>>

(* The entries worker w is using: those its slots hold (and renew), and    *)
(* those its reaper claimed.                                               *)
Held(w) == {co[<<w, s>>].entry : s \in Slots} \ {NoEntry}
InUse(w) == Held(w) \cup {co[Reaper(w)].entry} \cup batch[w]

(* claim_orphans: never one's own entries; those of another consumer once  *)
(* they have been idle for reaper_min_idle_s.  Entries nobody uses become  *)
(* idle; entries in use do so only if a live lease may lapse.              *)
Orphans(w) ==
    {e \in Entries : /\ owner[e] \in Workers \ {w}
                     /\ LeaseMayLapse \/ e \notin InUse(owner[e])}

Scan(w) ==
    /\ up[w] /\ At(Reaper(w), "idle") /\ batch[w] = {}
    /\ \E S \in SUBSET Orphans(w) :
        /\ S # {} /\ Cardinality(S) <= ReaperBatch
        /\ owner' = [e \in Entries |-> IF e \in S THEN w ELSE owner[e]]
        /\ batch' = [batch EXCEPT ![w] = S]
    /\ UNCHANGED <<store, attempt, events, env, co, faults>>

(* The loop of Reaper.scan starts on the next claimed orphan.              *)
RecoverNext(w, e) ==
    /\ At(Reaper(w), "idle") /\ e \in batch[w]
    /\ batch' = [batch EXCEPT ![w] = @ \ {e}]
    /\ co' = [co EXCEPT ![Reaper(w)] = [Idle EXCEPT !.pc = "get", !.entry = e, !.ctx = "reap"]]
    /\ UNCHANGED <<store, queue, events, env, faults>>

Exhausted(e) == age[PageOf(e)] >= 2 \/ attempt[e] + 1 >= MaxRequeues

(* Mutant: the entry of a page found terminal is not settled.              *)
RecoverForgetsAck(c) ==
    /\ At(c, "get") /\ co[c].ctx = "reap"
    /\ Observe(c, IF pageState[Page(c)] \in TERMINAL_STATES THEN Idle
                  ELSE IF Exhausted(co[c].entry) THEN Goto(c, "ftGet")
                  ELSE [co[c] EXCEPT !.pc = "relGet", !.ret = "xadd"])

(* Reaper._recover up to its first decision.                               *)
Recover(c) ==
    /\ At(c, "get") /\ co[c].ctx = "reap"
    /\ Observe(c, IF pageState[Page(c)] \in TERMINAL_STATES THEN Goto(c, "ack")
                  ELSE IF Exhausted(co[c].entry) THEN Goto(c, "ftGet")
                  ELSE [co[c] EXCEPT !.pc = "relGet", !.ret = "xadd"])

(* renew_leases claims with a minimum idle time of 0: a worker takes back  *)
(* an entry that another reaper has claimed in the meantime.               *)
RenewLeases(w) ==
    /\ up[w] /\ At(Reaper(w), "idle") /\ batch[w] = {}
    /\ \E e \in Held(w) : owner[e] \in Workers \ {w}
    /\ owner' = [e \in Entries |->
                    IF e \in Held(w) /\ owner[e] \in Workers THEN w ELSE owner[e]]
    /\ UNCHANGED <<store, attempt, events, env, co, batch, faults>>

-----------------------------------------------------------------------------
(***************************************************************************)
(* The API side and time                                                   *)
(***************************************************************************)

(* One XADD of enqueue_pages; init_job has already written the page hashes. *)
EnqueuePage(p) ==
    /\ p \in toEnqueue
    /\ toEnqueue' = toEnqueue \ {p}
    /\ XAdd(p, 0)
    /\ UNCHANGED <<store, age, events, up, crashes, co, batch, faults>>

(* first_enqueued_at_ms is preserved by requeue, so age belongs to the page. *)
GrowOld(p) ==
    /\ \E a \in (age[p] + 1)..MaxAge : age' = [age EXCEPT ![p] = a]
    /\ UNCHANGED <<store, queue, toEnqueue, events, up, crashes, co, batch, faults>>

Init ==
    /\ pageState = [p \in Pages |-> "PENDING"]
    /\ doneCount = 0
    /\ owner = [e \in Entries |-> Absent]
    /\ attempt = [e \in Entries |-> 0]
    /\ toEnqueue = Pages
    /\ age = [p \in Pages |-> 0]
    /\ events = <<>>
    /\ up = [w \in Workers |-> TRUE]
    /\ co = [c \in Coroutines |-> Idle]
    /\ batch = [w \in Workers |-> {}]
    /\ crashes = 0
    /\ faults = 0

(* The next await of a page coroutine, or of a reaper recovering an entry. *)
Step(c) ==
    \/ GetPage(c) \/ ReleaseGet(c) \/ ReleaseCas(c) \/ RegetPage(c)
    \/ ClaimLayout(c) \/ CallLayout(c) \/ CommitLayout(c) \/ EmitPartial(c)
    \/ ClaimVlm(c) \/ CallVlm(c) \/ CommitDone(c) \/ Degrade(c) \/ Fail(c)
    \/ EmitFinal(c) \/ EmitLast(c) \/ EmitComplete(c)
    \/ ForceGet(c) \/ ForceCas(c) \/ Requeue(c) \/ Ack(c) \/ Recover(c)

Next ==
    \/ \E c \in Coroutines : Step(c) \/ RedisError(c)
    \/ \E w \in Workers :
        \/ \E e \in Entries : (\E s \in Slots : Deliver(w, s, e)) \/ RecoverNext(w, e)
        \/ Scan(w) \/ RenewLeases(w) \/ Crash(w) \/ Restart(w)
    \/ \E p \in Pages : EnqueuePage(p) \/ GrowOld(p)

Spec == Init /\ [][Next]_vars

-----------------------------------------------------------------------------
(***************************************************************************)
(* Properties                                                              *)
(***************************************************************************)

Terminal(p) == pageState[p] \in TERMINAL_STATES
InStream(e) == owner[e] \in Workers \cup {New}

(* Every field has its type: in particular the attempt an entry carries is *)
(* never negative, whichever path added the entry.                         *)
TypeOK ==
    /\ pageState \in [Pages -> PageState]
    /\ doneCount \in Nat
    /\ owner \in [Entries -> Workers \cup {New, Absent, Gone}]
    /\ attempt \in [Entries -> Nat]
    /\ toEnqueue \subseteq Pages
    /\ age \in [Pages -> 0..2]
    /\ events \in Seq([event : {"page.partial", "page.final"}, page : Pages] \cup {JobComplete})
    /\ up \in [Workers -> BOOLEAN]
    /\ co \in [Coroutines -> CoroutineState]
    /\ batch \in [Workers -> SUBSET Entries]
    /\ crashes \in 0..MaxCrashes
    /\ faults \in 0..MaxFaults

-----------------------------------------------------------------------------
(* Safety that holds whatever happens: crashes, lapsed leases, lost replies. *)

(* done_count, from which completion is decided, equals the number of      *)
(* terminal pages although any number of coroutines race to settle one.    *)
DoneCountExact == doneCount = Cardinality({p \in Pages : Terminal(p)})

(* "Exactly one worker can reach this" (_emit): a page.final is published  *)
(* at most once per page and job.complete at most once per job.            *)
AnnouncedOnce ==
    \A i, j \in DOMAIN events :
        events[i] = events[j] /\ events[i].event # "page.partial" => i = j

(* _emit publishes after the commit: no event announces a state that is    *)
(* not committed, and job.complete says that every page is terminal.       *)
EventsFollowCommits ==
    \A i \in DOMAIN events :
        LET ev == events[i] IN
        /\ ev.event = "job.complete" => \A p \in Pages : Terminal(p)
        /\ ev.event = "page.final" => Terminal(ev.page)
        /\ ev.event = "page.partial" => pageState[ev.page] \in LayoutCommitted \cup {"FAILED"}

(* No entry carries more attempts than effective_max_requeues allows, on   *)
(* whichever of the requeue paths (saturation, crash net, reaper) it was   *)
(* added: the budget that makes every page stop bouncing.                  *)
RequeueBudget == \A e \in Entries : attempt[e] < MaxRequeues

(* The job as its client sees it.                                          *)
OutcomeOf(s) ==
    CASE s \in {"PENDING", "LAYOUT_RUNNING"}  -> "none"
      [] s \in {"LAYOUT_DONE", "VLM_RUNNING"} -> "layout"
      [] s = "DONE"          -> "full"
      [] s = "FALLBACK_DONE" -> "degraded"
      [] s = "FAILED"        -> "failed"

Announced(ev) == \E i \in DOMAIN events : events[i] = ev

Job == INSTANCE JobContract
       WITH outcome   <- [p \in Pages |-> OutcomeOf(pageState[p])],
            count     <- doneCount,
            announced <- {p \in Pages : Announced(Final(p))},
            closed    <- Announced(JobComplete)

(* The orchestrator keeps the contract of a job: whatever is redelivered,  *)
(* rolled back or reclaimed underneath, the client sees pages that only    *)
(* move forward, settle once and are counted once.                         *)
JobSpec == Job!Spec

-----------------------------------------------------------------------------
(* Zero drop.                                                              *)

(* No enqueued page is both non-terminal and absent from the queue, as     *)
(* tests/test_reaper.py puts it; here at every await, not after a scan.    *)
NoStrandedPage ==
    \A p \in Pages \ toEnqueue :
        Terminal(p) \/ \E e \in Entries : PageOf(e) = p /\ InStream(e)

(* With crashes and restarts in any order, only a page one of whose tasks  *)
(* is on its final attempt can be lost that way: before it, every crash    *)
(* between two awaits leaves an entry from which somebody resumes.         *)
NoDropBeforeLastAttempt ==
    \A p \in Pages \ toEnqueue :
        \/ Terminal(p)
        \/ \E e \in Entries :
            /\ PageOf(e) = p
            /\ InStream(e) \/ (owner[e] # Absent /\ FinalAttempt(e))

(* The weaker promise that is left when a live worker's lease may lapse: a *)
(* page without a queue entry is at least still being worked on.           *)
NoAbandonedPage ==
    \A p \in Pages \ toEnqueue :
        \/ Terminal(p)
        \/ \E e \in Entries : PageOf(e) = p /\ InStream(e)
        \/ \E c \in Coroutines : co[c].pc \notin {"idle", "ack"} /\ Page(c) = p

-----------------------------------------------------------------------------
(* What the undisturbed system adds, without crashes, lapses and faults.   *)

Working(c) == co[c].pc \in {"layout", "commitLayout", "vlm", "commitDone", "degrade"}

(* "The state CAS admits exactly one claimant" (claim_orphans): two        *)
(* coroutines never run a stage of the same page at the same time.         *)
OneClaimant ==
    \A c, d \in Coroutines : Working(c) /\ Working(d) /\ Page(c) = Page(d) => c = d

Settling(e) == \E c \in Coroutines : At(c, "ack") /\ co[c].entry = e

(* A page has one task: an entry is added to replace one that is already   *)
(* being settled, so requeues and handoffs never multiply a page.          *)
OneLiveTask ==
    \A d, e \in Entries :
        /\ InStream(d) /\ InStream(e) /\ PageOf(d) = PageOf(e)
        /\ ~Settling(d) /\ ~Settling(e)
        => d = e

(* "A page emits exactly two events ... a requeue does not add more"       *)
(* (Settings.result_stream_maxlen): page.partial is not repeated.          *)
PartialOnce ==
    \A i, j \in DOMAIN events :
        events[i] = events[j] /\ events[i].event = "page.partial" => i = j

(* "What reaches here is a page with no committed layout result"           *)
(* (process_page): a page whose layout is committed degrades, never fails. *)
NoFailureAfterLayout ==
    [][\A p \in Pages : pageState[p] \in LayoutCommitted
            => pageState'[p] # "FAILED"]_pageState

(* job.complete closes the stream, so it "must be the LAST event"          *)
(* (tests/test_pipeline_events.py).                                        *)
CompleteLast == \A i \in DOMAIN events : events[i] = JobComplete => i = Len(events)

-----------------------------------------------------------------------------
(* Liveness.                                                               *)

(* Fairness of what the code keeps doing by itself: every coroutine's next *)
(* await completes, the dispatch loop reads while it has a free slot, the  *)
(* maintenance loop scans, enqueue_pages runs to its end.  Crashes,        *)
(* restarts, ageing and errors are never forced.                           *)
Fairness ==
    /\ \A c \in Coroutines : WF_vars(Step(c))
    /\ WF_vars(\E w \in Workers, s \in Slots, e \in Entries : Deliver(w, s, e))
    /\ \A w \in Workers : WF_vars(Scan(w)) /\ WF_vars(\E e \in Entries : RecoverNext(w, e))
    /\ \A p \in Pages : WF_vars(EnqueuePage(p))

LiveSpec == Spec /\ Fairness

(* Every admitted page reaches a terminal state, however often its calls   *)
(* saturate: the requeue budget ends in a degraded or failed page.         *)
EveryPageSettles == \A p \in Pages : <>Terminal(p)

(* The subscriber is told: job.complete is published.                      *)
JobIsAnnounced == <>Announced(JobComplete)

(* Whoever crashes and whoever restarts, the queue drains: every entry,    *)
(* those in a dead consumer's PEL included, is in the end acknowledged, by *)
(* its restarted owner or by another worker's reaper.                      *)
QueueDrains == <>[](\A e \in Entries : ~InStream(e))

=============================================================================

------------------------------ MODULE Dispatch -------------------------------
(***************************************************************************)
(* Bounded dispatch: the loop of Worker.run (app/worker/main.py) over the    *)
(* two lanes of PageQueue.read (app/queue/streams.py).  Entries of a lane    *)
(* are alike, so a lane is a count of undelivered entries and, per worker,  *)
(* a count of pending ones; which of them cannot be parsed shows when they  *)
(* are read.  What happens to a page that is being handled is the subject   *)
(* of PageLifecycle: here a handler ends with an acknowledgement, with a    *)
(* requeue, or with its worker.                                             *)
(***************************************************************************)
EXTENDS Integers, FiniteSets, FiniteSetsExt

CONSTANTS Workers,
          Settings,   \* the settings to explore
          MaxSent, MaxRequeues, MaxPoison, MaxCrashes   \* bounds

ASSUME DispatchAssumption ==
  /\ IsFiniteSet(Workers)
  /\ \A s \in Settings :
       /\ s.concurrency \in Nat \ {0} /\ s.prefetch \in Nat \ {0}
       /\ s.lead_reserve \in Nat /\ s.lead_poll \in BOOLEAN
  /\ {MaxRequeues, MaxPoison, MaxCrashes} \subseteq Nat

Lanes == {"lead", "main"}

VARIABLES
  settings,   \* worker_concurrency, _prefetch, _lead_reserve; is worker_lead_poll_ms set?
  backlog,    \* per lane: entries not delivered to any consumer
  pending,    \* per worker and lane: its pending entries
  running,    \* per worker and lane: entries a handler is working on (_held)
  slots,      \* per worker: size of _in_flight, finished tasks not yet reaped included
  loop,       \* per worker: where the loop is, and the budgets of this pass
  sent,       \* per lane: entries added by enqueue_pages
  readded,    \* entries added by a requeue
  gone,       \* entries acknowledged
  poison, crashes

shared == <<settings, sent, readded, poison, crashes>>
vars == <<settings, backlog, pending, running, slots, loop, sent, gone, readded, poison, crashes>>

At(pc) == [pc |-> pc, lead |-> 0, main |-> 0]

CONCURRENCY == settings.concurrency
PREFETCH == settings.prefetch
LEAD_RESERVE == settings.lead_reserve

Init ==
  /\ settings \in Settings
  /\ backlog = [l \in Lanes |-> 0] /\ sent = [l \in Lanes |-> 0]
  /\ pending = [w \in Workers |-> [l \in Lanes |-> 0]]
  /\ running = [w \in Workers |-> [l \in Lanes |-> 0]]
  /\ slots = [w \in Workers |-> 0]
  /\ loop = [w \in Workers |-> At("start")]
  /\ gone = 0 /\ readded = 0 /\ poison = 0 /\ crashes = 0

-----------------------------------------------------------------------------
Both(f) == f["lead"] + f["main"]

\* enqueue_pages: page 0 to the lead lane, the others to the main one.
Enqueue ==
  \E l \in Lanes :
    /\ sent[l] < MaxSent[l]
    /\ sent' = [sent EXCEPT ![l] = @ + 1] /\ backlog' = [backlog EXCEPT ![l] = @ + 1]
    /\ UNCHANGED <<settings, pending, running, slots, loop, gone, readded, poison, crashes>>

\* XREADGROUP of at most n[l] entries per lane, _flatten and _spawn.  Entries
\* that cannot be parsed are quarantined and acknowledged.  The loop goes on at
\* some when a page was spawned, else at none.
Take(w, n, some, none) ==
  LET k == [l \in Lanes |-> Min({n[l], backlog[l]})]
  IN  \E bad \in {b \in [Lanes -> 0..MaxPoison] :
                    Both(b) <= MaxPoison - poison /\ \A l \in Lanes : b[l] <= k[l]} :
        /\ backlog' = [l \in Lanes |-> backlog[l] - k[l]]
        /\ pending' = [pending EXCEPT ![w] = [l \in Lanes |-> @[l] + k[l] - bad[l]]]
        /\ running' = [running EXCEPT ![w] = [l \in Lanes |-> @[l] + k[l] - bad[l]]]
        /\ slots' = [slots EXCEPT ![w] = @ + Both(k) - Both(bad)]
        /\ gone' = gone + Both(bad) /\ poison' = poison + Both(bad)
        /\ loop' = [loop EXCEPT ![w] = IF Both(k) > Both(bad) THEN some ELSE none]
        /\ UNCHANGED <<settings, sent, readded, crashes>>

Only(l, n) == [x \in Lanes |-> IF x = l THEN n ELSE 0]

\* After a pass that read nothing: wait for a handler, or start over.
Idle(w) == At(IF slots[w] > 0 THEN "wait" ELSE "top")

-----------------------------------------------------------------------------
(* One pass of the loop.                                                   *)

\* read_own_pending, once, lead lane first, and the worker starts looping.
Resume(w) ==
  /\ loop[w].pc = "start"
  /\ LET lead == Min({CONCURRENCY, pending[w]["lead"]})
         main == Min({CONCURRENCY - lead, pending[w]["main"]})
     IN  /\ running' = [running EXCEPT ![w] = [lead |-> lead, main |-> main]]
         /\ slots' = [slots EXCEPT ![w] = lead + main]
  /\ loop' = [loop EXCEPT ![w] = At("top")]
  /\ UNCHANGED <<backlog, pending, gone, shared>>

Capacity(w) == CONCURRENCY - slots[w]
Reserve == Min({LEAD_RESERVE, CONCURRENCY - 1})
LeadBudget(w) == Max({0, Reserve - running[w]["lead"]})
MainBudget(w) == Max({0, Min({PREFETCH, Capacity(w) - LeadBudget(w)})})

\* The budgets: shared without a reservation, partitioned with one.
Plan(w) ==
  /\ loop[w].pc = "top"
  /\ loop' = [loop EXCEPT ![w] =
       CASE Capacity(w) <= 0 -> At("wait")
         [] Capacity(w) > 0 /\ Reserve = 0 ->
              LET n == Min({PREFETCH, Capacity(w)})
              IN  [pc |-> "lead", lead |-> n, main |-> n]
         [] Capacity(w) > 0 /\ Reserve > 0 ->
              [pc |-> "lead", lead |-> Min({LeadBudget(w), Capacity(w)}),
               main |-> MainBudget(w)]]
  /\ UNCHANGED <<backlog, pending, running, slots, gone, shared>>

\* The lead lane first, without blocking.  Entries found reduce a shared
\* budget, and end the wait that would follow.
ReadLead(w) ==
  /\ loop[w].pc = "lead"
  /\ LET taken == Min({loop[w].lead, backlog["lead"]})
         main  == IF Reserve = 0 THEN Min({loop[w].main, loop[w].lead - taken})
                  ELSE loop[w].main
         goto(pc) == [pc |-> pc, lead |-> loop[w].lead, main |-> main]
         some == IF main > 0 THEN goto("last") ELSE At("top")
         none == CASE main > 0 /\ taken = 0 -> goto("main")
                   [] main > 0 /\ taken > 0 -> goto("idle")
                   [] main <= 0 /\ taken = 0 /\ Reserve > 0 /\ settings.lead_poll -> goto("poll")
                   [] OTHER -> Idle(w)
     IN  Take(w, Only("lead", loop[w].lead), some, none)

\* The main lane, without blocking.  When the lead lane had entries the pass ends
\* here: "last" if some of them could be parsed, else "idle".
ReadMain(w) ==
  /\ loop[w].pc \in {"main", "last", "idle"}
  /\ LET found == Min({loop[w].main, backlog["main"]}) > 0
         none  == CASE loop[w].pc = "last" -> At("top")
                    [] loop[w].pc = "idle" \/ found -> Idle(w)
                    [] OTHER -> [loop[w] EXCEPT !.pc = "block"]
     IN  Take(w, Only("main", loop[w].main), At("top"), none)

\* Mutant: the whole budget as COUNT, which Redis applies per stream.
ShareWhole(main) == main

\* Both lanes were empty: one blocking read over both, COUNT per stream.
Share(main) == Max({1, main \div 2})

ReadBoth(w) ==
  /\ loop[w].pc = "block"
  /\ Take(w, [l \in Lanes |-> Share(loop[w].main)], At("top"), Idle(w))

\* The main lane is at its cap: a bounded wait on the lead lane alone.
PollLead(w) ==
  /\ loop[w].pc = "poll"
  /\ Take(w, Only("lead", loop[w].lead), At("top"), Idle(w))

\* asyncio.wait until a handler has ended, and _reap.
Wait(w) ==
  /\ loop[w].pc = "wait" /\ slots[w] > Both(running[w])
  /\ slots' = [slots EXCEPT ![w] = Both(running[w])]
  /\ loop' = [loop EXCEPT ![w] = At("top")]
  /\ UNCHANGED <<backlog, pending, running, gone, shared>>

\* SIGTERM: no new work, what is held is drained.  The pass under way ends first.
Stop(w) ==
  /\ loop[w].pc = "top"
  /\ loop' = [loop EXCEPT ![w] = At("drain")]
  /\ UNCHANGED <<backlog, pending, running, slots, gone, shared>>

Drained(w) ==
  /\ loop[w].pc = "drain" /\ Both(running[w]) = 0
  /\ slots' = [slots EXCEPT ![w] = 0] /\ loop' = [loop EXCEPT ![w] = At("stopped")]
  /\ UNCHANGED <<backlog, pending, running, gone, shared>>

-----------------------------------------------------------------------------
(* Handlers, crashes, and the reaper of some replica.                      *)

\* Mutant: the old entry is settled without a new one.
ReAddNothing == readded' = readded + 1 /\ UNCHANGED backlog

\* The first half of requeue: a copy in the main lane, whatever the lane was.
ReAdd ==
  /\ readded' = readded + 1
  /\ backlog' = [backlog EXCEPT !["main"] = @ + 1]

\* _handle: the entry is acknowledged, after a requeue of the page or without.
Handled(w, l) ==
  /\ running[w][l] > 0
  /\ running' = [running EXCEPT ![w][l] = @ - 1]
  /\ pending' = [pending EXCEPT ![w][l] = @ - 1]
  /\ gone' = gone + 1
  /\ \/ readded < MaxRequeues /\ ReAdd
     \/ UNCHANGED <<backlog, readded>>
  /\ UNCHANGED <<settings, slots, loop, sent, poison, crashes>>

\* The process dies, perhaps between the halves of a requeue, and restarts
\* under the same consumer name.
Crash(w) ==
  /\ loop[w].pc \notin {"start", "stopped"} /\ crashes < MaxCrashes
  /\ crashes' = crashes + 1
  /\ running' = [running EXCEPT ![w] = [l \in Lanes |-> 0]]
  /\ slots' = [slots EXCEPT ![w] = 0] /\ loop' = [loop EXCEPT ![w] = At("start")]
  /\ \/ Both(running[w]) > 0 /\ readded < MaxRequeues /\ ReAdd
     \/ UNCHANGED <<backlog, readded>>
  /\ UNCHANGED <<settings, pending, sent, gone, poison>>

\* Mutant: only the lead lane is scanned.
ReclaimLead(w, l) ==
  /\ l = "lead" /\ pending[w][l] > running[w][l]
  /\ pending' = [pending EXCEPT ![w][l] = @ - 1]
  /\ gone' = gone + 1 /\ ReAdd
  /\ UNCHANGED <<settings, running, slots, loop, sent, poison, crashes>>

\* A pending entry nobody works on goes idle and is reclaimed: its page is
\* requeued unless it is settled already, and the entry is acknowledged.
Reclaim(w, l) ==
  /\ pending[w][l] > running[w][l]
  /\ pending' = [pending EXCEPT ![w][l] = @ - 1]
  /\ gone' = gone + 1
  /\ ReAdd \/ UNCHANGED <<backlog, readded>>
  /\ UNCHANGED <<settings, running, slots, loop, sent, poison, crashes>>

Pass(w) ==
  \/ Resume(w) \/ Plan(w) \/ ReadLead(w) \/ ReadMain(w) \/ ReadBoth(w)
  \/ PollLead(w) \/ Wait(w) \/ Drained(w)

Next ==
  \/ Enqueue
  \/ \E w \in Workers :
       \/ Pass(w) \/ Stop(w) \/ Crash(w)
       \/ \E l \in Lanes : Handled(w, l) \/ Reclaim(w, l)

Spec == Init /\ [][Next]_vars

\* The loop of a worker goes on, handlers end, idle entries are reclaimed.
LiveSpec ==
  /\ Spec
  /\ \A w \in Workers : WF_vars(Pass(w))
  /\ \A w \in Workers, l \in Lanes : WF_vars(Handled(w, l)) /\ WF_vars(Reclaim(w, l))

-----------------------------------------------------------------------------
\* The pending entries of all workers, each as its worker and a number.
InPels(f) == UNION {{w} \X (1..Both(f[w])) : w \in Workers}

\* An entry is in exactly one place: undelivered, pending with one worker, or
\* acknowledged; none is lost on the way, whichever lane and read it took.
Conserved ==
  Both(sent) + readded = Both(backlog) + gone + Cardinality(InPels(pending))

\* The ceiling as documented: never more pages in a worker than worker_concurrency.
ResidentBounded ==
  \A w \in Workers : Both(running[w]) <= CONCURRENCY

\* The ceiling the reads do give: one more, from a blocking read over two lanes
\* with a budget of one.
ResidentNearlyBounded ==
  \A w \in Workers : Both(running[w]) <= CONCURRENCY + 1

\* As long as a worker is up, every entry is settled in the end, over crashes
\* and restarts.
EntriesSettle ==
  (Both(sent) + readded > gone) ~>
    (Both(sent) + readded = gone \/ \A w \in Workers : loop[w].pc \in {"drain", "stopped"})
=============================================================================

-------------------------- MODULE PageLifecycleTasks --------------------------
(***************************************************************************)
(* Type correctness of PageLifecycle; then who holds which task of a page, *)
(* and what follows from it: the theorems that need live leases to be      *)
(* renewed in time (~LeaseMayLapse) and Redis commands not to raise        *)
(* (MaxFaults = 0).                                                        *)
(***************************************************************************)
EXTENDS PageLifecycle, TLAPS

(* The provers a leaf that names none is given to, and in which order.     *)
USE SMT, ZenonT(30), SMTT(10), SMTT(20)

(***************************************************************************)
(* Typing.  A coroutine that is about to run a command has a task; inside  *)
(* release_claim it knows where to return and, before the CAS, a state that *)
(* can be rolled back; before the CAS of force_terminal it has seen a      *)
(* state that is not terminal.                                             *)
(***************************************************************************)
Coherent(k) ==
    /\ k \in CoroutineState
    /\ k.pc # "idle" => k.entry \in Entries
    /\ k.pc \in {"relGet", "relCas"} => k.ret # "idle"
    /\ k.pc = "relCas" => k.seen \in RUNNING_STATES
    /\ k.pc = "ftCas" => k.seen \notin TERMINAL_STATES

TypeInv == TypeOK /\ \A c \in Coroutines : Coherent(co[c])

(* The labels that Coherent says nothing special about.                    *)
Plain == Labels \ {"idle", "relGet", "relCas", "ftCas"}

(* The transition table, spelled out.                                      *)
LEMMA TableFacts ==
    /\ TERMINAL_STATES = {"DONE", "FALLBACK_DONE", "FAILED"}
    /\ RUNNING_STATES \subseteq PageState \ TERMINAL_STATES
    /\ RECLAIM_TARGET["LAYOUT_RUNNING"] = "PENDING"
    /\ RECLAIM_TARGET["VLM_RUNNING"] = "LAYOUT_DONE"
    /\ PREDECESSORS["LAYOUT_RUNNING"] = {"PENDING"}
    /\ PREDECESSORS["LAYOUT_DONE"] = {"LAYOUT_RUNNING", "VLM_RUNNING"}
    /\ PREDECESSORS["VLM_RUNNING"] = {"LAYOUT_DONE"}
    /\ PREDECESSORS["DONE"] = {"VLM_RUNNING"}
    /\ PREDECESSORS["FALLBACK_DONE"] = {"LAYOUT_DONE", "VLM_RUNNING"}
    /\ PREDECESSORS["FAILED"] = {"PENDING", "LAYOUT_RUNNING", "VLM_RUNNING"}
    /\ \A s \in PageState : ForcedTarget(s) \in {"FALLBACK_DONE", "FAILED"}
<1>1. \A s \in PageState : TRANSITIONS[s] =
        CASE s = "PENDING"        -> {"LAYOUT_RUNNING", "FAILED"}
          [] s = "LAYOUT_RUNNING" -> {"LAYOUT_DONE", "PENDING", "FAILED"}
          [] s = "LAYOUT_DONE"    -> {"VLM_RUNNING", "FALLBACK_DONE"}
          [] s = "VLM_RUNNING"    -> {"DONE", "LAYOUT_DONE", "FALLBACK_DONE", "FAILED"}
          [] OTHER                -> {}
  BY DEF TRANSITIONS
<1>2. /\ TRANSITIONS["PENDING"] = {"LAYOUT_RUNNING", "FAILED"}
      /\ TRANSITIONS["LAYOUT_RUNNING"] = {"LAYOUT_DONE", "PENDING", "FAILED"}
      /\ TRANSITIONS["LAYOUT_DONE"] = {"VLM_RUNNING", "FALLBACK_DONE"}
      /\ TRANSITIONS["VLM_RUNNING"] = {"DONE", "LAYOUT_DONE", "FALLBACK_DONE", "FAILED"}
      /\ TRANSITIONS["DONE"] = {}
      /\ TRANSITIONS["FALLBACK_DONE"] = {}
      /\ TRANSITIONS["FAILED"] = {}
  BY <1>1 DEF PageState
<1>3. TERMINAL_STATES = {"DONE", "FALLBACK_DONE", "FAILED"}
  BY <1>2 DEF TERMINAL_STATES, PageState
<1>4. RUNNING_STATES \subseteq PageState \ TERMINAL_STATES
  BY <1>3 DEF RUNNING_STATES, PageState
<1>5. /\ RECLAIM_TARGET["LAYOUT_RUNNING"] = "PENDING"
      /\ RECLAIM_TARGET["VLM_RUNNING"] = "LAYOUT_DONE"
  BY DEF RECLAIM_TARGET, RUNNING_STATES
<1>6. \A t \in PageState : PREDECESSORS[t] = {s \in PageState : t \in TRANSITIONS[s]}
  BY DEF PREDECESSORS
<1>7. /\ PREDECESSORS["LAYOUT_RUNNING"] = {"PENDING"}
      /\ PREDECESSORS["LAYOUT_DONE"] = {"LAYOUT_RUNNING", "VLM_RUNNING"}
      /\ PREDECESSORS["VLM_RUNNING"] = {"LAYOUT_DONE"}
      /\ PREDECESSORS["DONE"] = {"VLM_RUNNING"}
      /\ PREDECESSORS["FALLBACK_DONE"] = {"LAYOUT_DONE", "VLM_RUNNING"}
      /\ PREDECESSORS["FAILED"] = {"PENDING", "LAYOUT_RUNNING", "VLM_RUNNING"}
  BY <1>2, <1>6 DEF PageState
<1>8. \A s \in PageState : ForcedTarget(s) \in {"FALLBACK_DONE", "FAILED"}
  BY DEF ForcedTarget
<1> QED BY <1>3, <1>4, <1>5, <1>7, <1>8

(* What follows a command keeps a coroutine coherent: moving on to a plain *)
(* label, and every handler of a raised exception.                         *)
LEMMA GotoCoherent ==
    ASSUME NEW c \in Coroutines, Coherent(co[c]), co[c].pc # "idle",
           NEW l \in Plain
    PROVE  /\ Coherent(Goto(c, l))
           /\ Goto(c, l).pc = l
           /\ Goto(c, l).entry = co[c].entry
BY DEF Coherent, CoroutineState, Goto, Plain

LEMMA IdleCoherent == Coherent(Idle) /\ Idle.pc = "idle"
BY DEF Coherent, CoroutineState, Idle, Labels, PageState

LEMMA RaisedCoherent ==
    ASSUME NEW c \in Coroutines, Coherent(co[c]), co[c].pc # "idle"
    PROVE  Coherent(Raised(c))
<1>1. Coherent(Idle)
  BY IdleCoherent
<1>2. Goto(c, AfterLayout) = [co[c] EXCEPT !.pc = AfterLayout]
  BY DEF Goto
<1>3. AfterLayout \in Plain /\ "ack" \in Plain /\ "fail" \in Plain
  BY DEF AfterLayout, Plain, Labels
<1>4. /\ Coherent(Goto(c, AfterLayout))
      /\ Coherent(Goto(c, "ack"))
      /\ Coherent(Goto(c, "fail"))
  BY <1>3, GotoCoherent
<1>5. Coherent([co[c] EXCEPT !.ctx = "net", !.ret = "xadd",
                             !.pc = IF co[c].final THEN "ftGet" ELSE "relGet"])
  BY ZenonT(60) DEF Coherent, CoroutineState, Labels
<1> QED BY <1>1, <1>4, <1>5 DEF Raised

(* A command leaves its coroutine at k, or in the handler of an exception: *)
(* either way the change is confined to c, and is coherent if k is.        *)
LEMMA ProceedType ==
    ASSUME TypeInv, NEW c \in Coroutines, co[c].pc # "idle",
           NEW k, Coherent(k), Proceed(c, k)
    PROVE  /\ co' \in [Coroutines -> CoroutineState]
           /\ \A d \in Coroutines : Coherent(co'[d])
           /\ batch' \in [Workers -> SUBSET Entries]
           /\ faults' \in 0..MaxFaults
<1>1. Coherent(Raised(c))
  BY RaisedCoherent DEF TypeInv
<1>2. PICK r : Coherent(r) /\ co' = [co EXCEPT ![c] = r]
  BY <1>1 DEF Proceed, Raise
<1>3. \A d \in Coroutines : co'[d] = IF d = c THEN r ELSE co[d]
  BY <1>2 DEF TypeInv, TypeOK
<1>4. r \in CoroutineState
  BY <1>2 DEF Coherent
<1>5. co' \in [Coroutines -> CoroutineState]
  BY <1>2, <1>4 DEF TypeInv, TypeOK
<1>6. \A d \in Coroutines : Coherent(co'[d])
  BY <1>2, <1>3 DEF TypeInv
<1>7. batch' \in [Workers -> SUBSET Entries]
  BY DEF Proceed, Raise, TypeInv, TypeOK
<1>8. faults' \in 0..MaxFaults
  BY BoundsAssumption DEF Proceed, Raise, TypeInv, TypeOK
<1> QED BY <1>5, <1>6, <1>7, <1>8

(* The compare-and-set keeps types if its target and both continuations do. *)
LEMMA TransitionType ==
    ASSUME TypeInv, NEW c \in Coroutines, co[c].pc # "idle",
           NEW t \in PageState, NEW from, NEW j, Coherent(j), NEW k, Coherent(k),
           Transition(c, t, from, j, k)
    PROVE  TypeInv'
<1>1. Proceed(c, j) \/ Proceed(c, k)
  BY DEF Transition
<1>2. /\ co' \in [Coroutines -> CoroutineState]
      /\ \A d \in Coroutines : Coherent(co'[d])
      /\ batch' \in [Workers -> SUBSET Entries]
      /\ faults' \in 0..MaxFaults
  BY <1>1, ProceedType
<1>3. pageState' \in [Pages -> PageState] /\ doneCount' \in Nat
  <2>1. \/ /\ pageState' = [pageState EXCEPT ![Page(c)] = t]
           /\ doneCount' \in {doneCount, doneCount + 1}
        \/ UNCHANGED <<pageState, doneCount>>
    BY DEF Transition, store
  <2>2. pageState' \in [Pages -> PageState]
    BY <2>1 DEF TypeInv, TypeOK
  <2>3. doneCount' \in Nat
    BY <2>1 DEF TypeInv, TypeOK
  <2> QED BY <2>2, <2>3
<1>4. UNCHANGED <<owner, attempt, events, toEnqueue, age, up, crashes>>
  BY DEF Transition, queue, env
<1> QED BY <1>2, <1>3, <1>4 DEF TypeInv, TypeOK

LEMMA ObserveType ==
    ASSUME TypeInv, NEW c \in Coroutines, co[c].pc # "idle",
           NEW k, Coherent(k), Observe(c, k)
    PROVE  TypeInv'
<1>1. Proceed(c, k) /\ UNCHANGED <<pageState, doneCount, owner, attempt, events,
                                   toEnqueue, age, up, crashes>>
  BY DEF Observe, store, queue, env
<1> QED BY <1>1, ProceedType DEF TypeInv, TypeOK

LEMMA FinishType ==
    ASSUME TypeInv, NEW c \in Coroutines, co[c].pc # "idle",
           NEW t \in PageState, NEW from, Finish(c, t, from)
    PROVE  TypeInv'
<1>1. /\ Coherent(Goto(c, "ack"))
      /\ Coherent(Goto(c, IF doneCount + 1 >= Total THEN "emitLast" ELSE "emitFinal"))
  BY GotoCoherent DEF TypeInv, Plain, Labels
<1> QED BY <1>1, TransitionType DEF Finish

LEMMA XAddType ==
    ASSUME TypeInv, NEW p \in Pages, NEW a \in Nat, XAdd(p, a)
    PROVE  /\ owner' \in [Entries -> Workers \cup {New, Absent, Gone}]
           /\ attempt' \in [Entries -> Nat]
BY ZenonT(60) DEF XAdd, TypeInv, TypeOK

LEMMA PublishType ==
    ASSUME TypeInv, NEW c \in Coroutines, co[c].pc # "idle",
           NEW ev \in [event : {"page.partial", "page.final"}, page : Pages] \cup {JobComplete},
           NEW l \in Plain, Publish(c, ev, l)
    PROVE  TypeInv'
<1>1. Coherent(Goto(c, l)) /\ Proceed(c, Goto(c, l))
  BY GotoCoherent DEF Publish, TypeInv
<1>2. events' \in Seq([event : {"page.partial", "page.final"}, page : Pages] \cup {JobComplete})
  BY DEF Publish, TypeInv, TypeOK
<1>3. UNCHANGED <<pageState, doneCount, owner, attempt, toEnqueue, age, up, crashes>>
  BY DEF Publish, store, queue, env
<1> QED BY <1>1, <1>2, <1>3, ProceedType DEF TypeInv, TypeOK

LEMMA PageInPages ==
    ASSUME TypeInv, NEW c \in Coroutines, co[c].pc # "idle"
    PROVE  Page(c) \in Pages /\ co[c].entry \in Entries
BY DEF TypeInv, Coherent, Page, PageOf, Entries

(* Every command of a coroutine keeps the types.                           *)
LEMMA StepType ==
    ASSUME TypeInv, NEW c \in Coroutines, Step(c) \/ RedisError(c)
    PROVE  TypeInv'
<1> USE DEF At
<1>0. co[c].pc # "idle" /\ co[c] \in CoroutineState
  <2>1. co[c].pc # "idle"
    BY DEF Step, RedisError, GetPage, ReleaseGet, ReleaseCas, RegetPage, ClaimLayout,
           CallLayout, CommitLayout, EmitPartial, ClaimVlm, CallVlm, CommitDone, Degrade,
           Fail, EmitFinal, EmitLast, EmitComplete, ForceGet, ForceCas, Requeue, Ack, Recover
  <2> QED BY <2>1 DEF TypeInv, TypeOK
<1>1. Coherent(co[c]) /\ Page(c) \in Pages /\ co[c].entry \in Entries
  BY <1>0, PageInPages DEF TypeInv
<1>2. /\ pageState[Page(c)] \in PageState
      /\ \A l \in Plain : Coherent(Goto(c, l))
  BY <1>0, <1>1, GotoCoherent DEF TypeInv, TypeOK
<1>3. Labels \ {"idle", "relGet", "relCas", "ftCas"} = Plain
  BY DEF Plain
<1>4. /\ "claimLayout" \in Plain /\ "claimVlm" \in Plain /\ "ack" \in Plain
      /\ "layout" \in Plain /\ "vlm" \in Plain /\ "fail" \in Plain
      /\ "commitLayout" \in Plain /\ "commitDone" \in Plain /\ "degrade" \in Plain
      /\ "emitPartial" \in Plain /\ "emitComplete" \in Plain /\ "ftGet" \in Plain
      /\ AfterLayout \in Plain /\ \A s : Stage(s) \in Plain
  BY DEF Plain, Labels, AfterLayout, Stage
<1>5. \A r \in {"reget", "xadd", "fail"} :
        Coherent([co[c] EXCEPT !.pc = "relGet", !.ret = r])
  BY ZenonT(60), <1>1 DEF Coherent, CoroutineState, Labels
<1>6. Coherent(Saturated(c))
  BY ZenonT(60), <1>5 DEF Saturated
<1>7. CASE GetPage(c)
  <2>1. PICK k : Coherent(k) /\ Observe(c, k)
    BY <1>2, <1>4, <1>5, <1>7 DEF GetPage
  <2> QED BY <2>1, <1>0, ObserveType
<1>8. CASE ReleaseGet(c)
  <2>1. pageState[Page(c)] \in RUNNING_STATES =>
            Coherent([co[c] EXCEPT !.pc = "relCas", !.seen = pageState[Page(c)]])
    BY ZenonT(60), <1>1, <1>2, <1>8 DEF ReleaseGet, Coherent, CoroutineState, Labels
  <2>2. Coherent([co[c] EXCEPT !.pc = co[c].ret, !.ret = "idle"])
    BY ZenonT(60), <1>1, <1>8 DEF ReleaseGet, Coherent, CoroutineState, Labels
  <2>3. PICK k : Coherent(k) /\ Observe(c, k)
    BY <2>1, <2>2, <1>8 DEF ReleaseGet
  <2> QED BY ZenonT(60), <2>3, <1>0, ObserveType
<1>9. CASE ReleaseCas(c)
  <2>1. Coherent([co[c] EXCEPT !.pc = co[c].ret, !.ret = "idle", !.seen = "PENDING"])
    BY ZenonT(60), <1>1, <1>9 DEF ReleaseCas, Coherent, CoroutineState, Labels, PageState
  <2>2. co[c].seen \in {"LAYOUT_RUNNING", "VLM_RUNNING"}
    BY <1>1, <1>9 DEF ReleaseCas, Coherent, RUNNING_STATES
  <2>3. RECLAIM_TARGET[co[c].seen] \in PageState
    BY <2>2, TableFacts DEF PageState
  <2> QED BY <2>1, <2>3, <1>0, <1>9, TransitionType DEF ReleaseCas
<1>10. CASE RegetPage(c)
  <2>1. PICK k : Coherent(k) /\ Observe(c, k)
    BY <1>2, <1>4, <1>10 DEF RegetPage
  <2> QED BY ZenonT(60), <2>1, <1>0, ObserveType
<1>11. CASE ClaimLayout(c)
  BY <1>0, <1>2, <1>4, <1>11, TransitionType DEF ClaimLayout, PageState
<1>12. CASE CallLayout(c)
  <2>1. PICK k : Coherent(k) /\ co' = [co EXCEPT ![c] = k]
    BY ZenonT(60), <1>2, <1>4, <1>6, <1>12 DEF CallLayout
  <2>2. Proceed(c, k) /\ UNCHANGED <<store, queue, events, env>>
    BY <2>1, <1>12 DEF CallLayout, Proceed
  <2> QED BY <2>1, <2>2, <1>0, ObserveType DEF Observe
<1>13. CASE CommitLayout(c)
  BY <1>0, <1>2, <1>4, <1>13, TransitionType DEF CommitLayout, PageState
<1>14. CASE ClaimVlm(c)
  BY <1>0, <1>2, <1>4, <1>14, TransitionType DEF ClaimVlm, PageState
<1>15. CASE CallVlm(c)
  <2>1. PICK k : Coherent(k) /\ co' = [co EXCEPT ![c] = k]
    BY ZenonT(60), <1>2, <1>4, <1>6, <1>15 DEF CallVlm
  <2>2. Proceed(c, k) /\ UNCHANGED <<store, queue, events, env>>
    BY <2>1, <1>15 DEF CallVlm, Proceed
  <2> QED BY ZenonT(60), <2>1, <2>2, <1>0, ObserveType DEF Observe
<1>16. CASE CommitDone(c) \/ Degrade(c) \/ Fail(c) \/ ForceCas(c)
  <2>1. \A s \in PageState : ForcedTarget(s) \in PageState
    BY DEF ForcedTarget, PageState
  <2>2. \E t \in PageState : \E from : Finish(c, t, from)
    BY <2>1, <1>0, <1>16 DEF CommitDone, Degrade, Fail, ForceCas, CoroutineState, PageState
  <2> QED BY <2>2, <1>0, FinishType
<1>17. CASE EmitPartial(c) \/ EmitFinal(c) \/ EmitLast(c) \/ EmitComplete(c)
  <2>1. /\ Partial(Page(c)) \in [event : {"page.partial", "page.final"}, page : Pages]
        /\ Final(Page(c)) \in [event : {"page.partial", "page.final"}, page : Pages]
    BY <1>1 DEF Partial, Final
  <2> QED BY <2>1, <1>0, <1>4, <1>17, PublishType
          DEF EmitPartial, EmitFinal, EmitLast, EmitComplete
<1>18. CASE ForceGet(c)
  <2>1. pageState[Page(c)] \notin TERMINAL_STATES =>
            Coherent([co[c] EXCEPT !.pc = "ftCas", !.seen = pageState[Page(c)]])
    BY ZenonT(60), <1>1, <1>2, <1>18 DEF ForceGet, Coherent, CoroutineState, Labels
  <2>2. PICK k : Coherent(k) /\ Observe(c, k)
    BY <2>1, <1>2, <1>4, <1>18 DEF ForceGet
  <2> QED BY ZenonT(60), <2>2, <1>0, ObserveType
<1>19. CASE Requeue(c)
  <2>1. attempt[co[c].entry] + (IF At(c, "xadd") THEN 1 ELSE 0) \in Nat
    BY <1>1 DEF TypeInv, TypeOK
  <2>2. /\ owner' \in [Entries -> Workers \cup {New, Absent, Gone}]
        /\ attempt' \in [Entries -> Nat]
    BY <2>1, <1>1, <1>19, XAddType DEF Requeue
  <2>3. /\ Proceed(c, Goto(c, "ack")) /\ Coherent(Goto(c, "ack"))
        /\ UNCHANGED <<pageState, doneCount, events, toEnqueue, age, up, crashes>>
    BY <1>2, <1>4, <1>19 DEF Requeue, store, env
  <2> QED BY <2>2, <2>3, <1>0, ProceedType DEF TypeInv, TypeOK
<1>20. CASE Ack(c)
  <2>1. /\ Proceed(c, Idle) /\ Coherent(Idle)
        /\ UNCHANGED <<pageState, doneCount, attempt, events, toEnqueue, age, up, crashes>>
    BY <1>20, IdleCoherent DEF Ack, store, env
  <2>2. owner' \in [Entries -> Workers \cup {New, Absent, Gone}]
    BY ZenonT(60), <1>20 DEF Ack, TypeInv, TypeOK
  <2> QED BY <2>1, <2>2, <1>0, ProceedType DEF TypeInv, TypeOK
<1>21. CASE Recover(c)
  <2>1. PICK k : Coherent(k) /\ Observe(c, k)
    BY <1>2, <1>4, <1>5, <1>21 DEF Recover
  <2> QED BY ZenonT(60), <2>1, <1>0, ObserveType
<1>22. CASE RedisError(c)
  <2>1. Observe(c, Idle)
    BY <1>22 DEF RedisError, Observe, Proceed
  <2> QED BY <2>1, <1>0, ObserveType, IdleCoherent
<1> QED BY <1>7, <1>8, <1>9, <1>10, <1>11, <1>12, <1>13, <1>14, <1>15, <1>16, <1>17,
           <1>18, <1>19, <1>20, <1>21, <1>22 DEF Step

(* The steps of the worker process, of its maintenance coroutine, of the   *)
(* API and of time.                                                        *)
Outside ==
    \/ \E w \in Workers :
        \/ \E e \in Entries : (\E s \in Slots : Deliver(w, s, e)) \/ RecoverNext(w, e)
        \/ Scan(w) \/ RenewLeases(w) \/ Crash(w) \/ Restart(w)
    \/ \E p \in Pages : EnqueuePage(p) \/ GrowOld(p)

LEMMA TaskCoherent ==
    ASSUME NEW e \in Entries, NEW own \in BOOLEAN
    PROVE  Coherent(Task(e, own)) /\ Task(e, own).pc = "get"
<1>1. FinalAttempt(e) \in BOOLEAN
  BY DEF FinalAttempt
<1> QED BY ZenonT(60), <1>1 DEF Coherent, CoroutineState, Task, Idle, Labels, PageState

(* They start tasks and drop coroutines; they never move one in between,   *)
(* and they touch neither the page states nor the events.                  *)
LEMMA OutsideEffect ==
    ASSUME TypeInv, Outside
    PROVE  /\ UNCHANGED <<pageState, doneCount, events>>
           /\ DOMAIN co' = Coroutines
           /\ \A c \in Coroutines :
                \/ co'[c] = co[c]
                \/ Coherent(co'[c]) /\ co'[c].pc \in {"idle", "get"}
           /\ co' \in [Coroutines -> CoroutineState]
<1>1. UNCHANGED <<pageState, doneCount, events>>
  BY ZenonT(60) DEF Outside, Deliver, RecoverNext, Scan, RenewLeases, Crash, Restart, EnqueuePage,
         GrowOld, store
<1> DEFINE Changed(r) == Coherent(r) /\ r.pc \in {"idle", "get"}
<1>2. ASSUME NEW w \in Workers, NEW s \in Slots, NEW e \in Entries, Deliver(w, s, e)
      PROVE  \E c \in Coroutines : \E r : Changed(r) /\ co' = [co EXCEPT ![c] = r]
  BY ZenonT(60), <1>2, TaskCoherent DEF Deliver, Coroutines
<1>3. ASSUME NEW w \in Workers, NEW e \in Entries, RecoverNext(w, e)
      PROVE  \E c \in Coroutines : \E r : Changed(r) /\ co' = [co EXCEPT ![c] = r]
  <2>1. Changed([Idle EXCEPT !.pc = "get", !.entry = e, !.ctx = "reap"])
    BY ZenonT(60) DEF Coherent, CoroutineState, Idle, Labels, PageState
  <2>2. Reaper(w) \in Coroutines
    BY DEF Reaper, Coroutines
  <2> QED BY ZenonT(60), <2>1, <2>2, <1>3 DEF RecoverNext
<1>4. ASSUME NEW w \in Workers, Crash(w) \/ Restart(w)
      PROVE  /\ DOMAIN co' = Coroutines
             /\ co' = [c \in Coroutines |-> co'[c]]
             /\ \A c \in Coroutines : co'[c] = co[c] \/ Changed(co'[c])
  <2>1. CASE Crash(w)
    BY <2>1, IdleCoherent DEF Crash
  <2>2. CASE Restart(w)
    <3>1. PICK f \in [Slots -> OwnPending(w) \cup {NoEntry}] :
            co' = [c \in Coroutines |->
                    IF c[1] = w /\ c[2] \in Slots /\ f[c[2]] # NoEntry
                    THEN Task(f[c[2]], TRUE) ELSE co[c]]
      BY ZenonT(60), <2>2 DEF Restart
    <3>2. \A s \in Slots : f[s] # NoEntry => f[s] \in Entries
      BY <3>1 DEF OwnPending
    <3>3. \A s \in Slots : f[s] # NoEntry => Changed(Task(f[s], TRUE))
      BY ZenonT(60), <3>2, TaskCoherent
    <3>4. \A c \in Coroutines : co'[c] = co[c] \/ Changed(co'[c])
      BY ZenonT(60), <3>1, <3>3
    <3> QED BY ZenonT(60), <3>1, <3>4
  <2> QED BY <1>4, <2>1, <2>2
<1>5. \/ UNCHANGED co
      \/ \E c \in Coroutines : \E r : Changed(r) /\ co' = [co EXCEPT ![c] = r]
      \/ \E w \in Workers : Crash(w) \/ Restart(w)
  <2>1. ASSUME NEW w \in Workers, Scan(w) \/ RenewLeases(w)
        PROVE  UNCHANGED co
    BY <2>1 DEF Scan, RenewLeases
  <2>2. ASSUME NEW p \in Pages, EnqueuePage(p) \/ GrowOld(p)
        PROVE  UNCHANGED co
    BY <2>2 DEF EnqueuePage, GrowOld
  <2> QED BY <2>1, <2>2, <1>2, <1>3 DEF Outside
<1>6. /\ DOMAIN co' = Coroutines
      /\ co' = [c \in Coroutines |-> co'[c]]
      /\ \A c \in Coroutines : co'[c] = co[c] \/ Changed(co'[c])
  BY <1>4, <1>5 DEF TypeInv, TypeOK
<1>7. \A c \in Coroutines : co'[c] \in CoroutineState
  BY <1>6 DEF TypeInv, Coherent
<1>8. co' \in [Coroutines -> CoroutineState]
  BY <1>6, <1>7
<1> QED BY <1>1, <1>6, <1>8

LEMMA OutsideType == TypeInv /\ Outside => TypeInv'
<1> SUFFICES ASSUME TypeInv, Outside PROVE TypeInv'
  OBVIOUS
<1>1. /\ UNCHANGED <<pageState, doneCount, events>>
      /\ co' \in [Coroutines -> CoroutineState]
      /\ \A c \in Coroutines : Coherent(co'[c])
  BY OutsideEffect DEF TypeInv
<1>2. /\ owner' \in [Entries -> Workers \cup {New, Absent, Gone}]
      /\ attempt' \in [Entries -> Nat]
  <2>1. ASSUME NEW p \in Pages, EnqueuePage(p)
        PROVE  /\ owner' \in [Entries -> Workers \cup {New, Absent, Gone}]
               /\ attempt' \in [Entries -> Nat]
    BY <2>1, XAddType DEF EnqueuePage
  <2>2. ASSUME ~\E p \in Pages : EnqueuePage(p)
        PROVE  UNCHANGED attempt
    BY ZenonT(60), <2>2 DEF Outside, Deliver, RecoverNext, Scan, RenewLeases, Crash, Restart, GrowOld, queue
  <2>3. ASSUME NEW w \in Workers, Scan(w) \/ RenewLeases(w)
        PROVE  owner' \in [Entries -> Workers \cup {New, Absent, Gone}]
    <3>1. owner' = [e \in Entries |-> owner'[e]]
      BY <2>3 DEF Scan, RenewLeases
    <3>2. \A e \in Entries : owner'[e] = w \/ owner'[e] = owner[e]
      BY <2>3 DEF Scan, RenewLeases
    <3> QED BY ZenonT(60), <3>1, <3>2 DEF TypeInv, TypeOK
  <2>4. ASSUME NEW w \in Workers, NEW s \in Slots, NEW e \in Entries, Deliver(w, s, e)
        PROVE  owner' \in [Entries -> Workers \cup {New, Absent, Gone}]
    BY <2>4 DEF Deliver, TypeInv, TypeOK
  <2>5. \/ UNCHANGED owner
        \/ \E p \in Pages : EnqueuePage(p)
        \/ \E w \in Workers : Scan(w) \/ RenewLeases(w)
        \/ \E w \in Workers, s \in Slots, e \in Entries : Deliver(w, s, e)
    BY ZenonT(60) DEF Outside, RecoverNext, Crash, Restart, GrowOld, queue
  <2> QED BY <2>1, <2>2, <2>3, <2>4, <2>5 DEF TypeInv, TypeOK
<1>3. toEnqueue' \subseteq Pages
  BY ZenonT(60) DEF Outside, Deliver, RecoverNext, Scan, RenewLeases, Crash, Restart, EnqueuePage,
         GrowOld, env, TypeInv, TypeOK
<1>4. age' \in [Pages -> 0..2]
  <2>1. UNCHANGED age \/ \E p \in Pages : GrowOld(p)
    BY ZenonT(60) DEF Outside, Deliver, RecoverNext, Scan, RenewLeases, Crash, Restart, EnqueuePage, env
  <2>2. ASSUME NEW p \in Pages, GrowOld(p)
        PROVE  \E a \in 0..2 : age' = [age EXCEPT ![p] = a]
    <3>1. age[p] \in 0..2
      BY DEF TypeInv, TypeOK
    <3>2. \A a \in (age[p] + 1)..MaxAge : a \in 0..2
      BY <3>1, BoundsAssumption
    <3> QED BY ZenonT(60), <2>2, <3>2 DEF GrowOld
  <2> QED BY ZenonT(60), <2>1, <2>2 DEF TypeInv, TypeOK
<1>5. up' \in [Workers -> BOOLEAN] /\ crashes' \in 0..MaxCrashes
  <2>1. \/ UNCHANGED <<up, crashes>>
        \/ \E w \in Workers : Crash(w) \/ Restart(w)
    BY ZenonT(60) DEF Outside, Deliver, RecoverNext, Scan, RenewLeases, EnqueuePage, GrowOld, env
  <2>2. ASSUME NEW w \in Workers, Crash(w) \/ Restart(w)
        PROVE  /\ \E b \in BOOLEAN : up' = [up EXCEPT ![w] = b]
               /\ crashes' = crashes \/ (crashes < MaxCrashes /\ crashes' = crashes + 1)
    BY ZenonT(60), <2>2 DEF Crash, Restart
  <2>3. up' \in [Workers -> BOOLEAN]
    BY <2>1, <2>2 DEF TypeInv, TypeOK
  <2>4. crashes' \in 0..MaxCrashes
    BY <2>1, <2>2, BoundsAssumption DEF TypeInv, TypeOK
  <2> QED BY <2>3, <2>4
<1>6. batch' \in [Workers -> SUBSET Entries]
  <2>1. \/ UNCHANGED batch
        \/ \E w \in Workers, S \in SUBSET Entries : batch' = [batch EXCEPT ![w] = S]
    <3>1. ASSUME NEW w \in Workers, Scan(w) \/ Crash(w)
          PROVE  \E S \in SUBSET Entries : batch' = [batch EXCEPT ![w] = S]
      BY <3>1 DEF Scan, Crash, Orphans
    <3>2. ASSUME NEW w \in Workers, NEW e \in Entries, RecoverNext(w, e)
          PROVE  \E S \in SUBSET Entries : batch' = [batch EXCEPT ![w] = S]
      BY ZenonT(60), <3>2 DEF RecoverNext, TypeInv, TypeOK
    <3> QED BY ZenonT(60), <3>1, <3>2 DEF Outside, Deliver, RenewLeases, Restart, EnqueuePage, GrowOld
  <2> QED BY ZenonT(60), <2>1 DEF TypeInv, TypeOK
<1>7. UNCHANGED faults
  BY ZenonT(60) DEF Outside, Deliver, RecoverNext, Scan, RenewLeases, Crash, Restart, EnqueuePage, GrowOld
<1> QED BY <1>1, <1>2, <1>3, <1>4, <1>5, <1>6, <1>7 DEF TypeInv, TypeOK

LEMMA NextCases == Next => Outside \/ \E c \in Coroutines : Step(c) \/ RedisError(c)
BY DEF Next, Outside

LEMMA TypeInvariant == Spec => []TypeInv
<1>1. Init => TypeInv
  <2> SUFFICES ASSUME Init PROVE TypeInv
    OBVIOUS
  <2>1. \A c \in Coroutines : Coherent(co[c])
    BY IdleCoherent DEF Init
  <2>2. co \in [Coroutines -> CoroutineState]
    BY IdleCoherent DEF Init, Coherent
  <2> QED BY <2>1, <2>2, BoundsAssumption DEF Init, TypeInv, TypeOK, PageState
<1>2. TypeInv /\ [Next]_vars => TypeInv'
  <2> SUFFICES ASSUME TypeInv, [Next]_vars PROVE TypeInv'
    OBVIOUS
  <2>1. CASE UNCHANGED vars
    BY <2>1 DEF vars, TypeInv, TypeOK
  <2> QED BY <2>1, NextCases, StepType, OutsideType
<1> QED BY <1>1, <1>2, PTL DEF Spec

(* Every variable keeps its type and every bound holds: in particular no   *)
(* coroutine runs a command of process_page, release_claim, force_terminal *)
(* or _recover without the task and the state it needs.                    *)
THEOREM TypeCorrect == Spec => []TypeOK
BY TypeInvariant, PTL DEF TypeInv

-----------------------------------------------------------------------------
(* The events, and what an XADD to the result stream announces.            *)
LEMMA EventNames ==
    /\ \A p, q : Final(p) = Final(q) => p = q
    /\ \A p, q : Partial(p) = Partial(q) => p = q
    /\ \A p, q : Partial(p) # Final(q)
    /\ \A p : Final(p) # JobComplete /\ Partial(p) # JobComplete
    /\ \A p : /\ Final(p).event = "page.final" /\ Final(p).page = p
              /\ Partial(p).event = "page.partial" /\ Partial(p).page = p
    /\ JobComplete.event = "job.complete"
<1>1. \A p : /\ Final(p).event = "page.final" /\ Final(p).page = p
             /\ Partial(p).event = "page.partial" /\ Partial(p).page = p
  BY DEF Final, Partial
<1>2. JobComplete.event = "job.complete"
  BY DEF JobComplete
<1> QED BY <1>1, <1>2

LEMMA AppendAnnounced ==
    ASSUME TypeInv, NEW x, events' = Append(events, x)
    PROVE  \A ev : Announced(ev)' <=> Announced(ev) \/ ev = x
<1>1. /\ DOMAIN events = 1..Len(events) /\ Len(events) \in Nat
      /\ DOMAIN events' = 1..(Len(events) + 1)
      /\ \A i \in 1..Len(events) : events'[i] = events[i]
      /\ events'[Len(events) + 1] = x
  BY DEF TypeInv, TypeOK
<1>2. \A i : i \in DOMAIN events' <=> i \in DOMAIN events \/ i = Len(events) + 1
  BY <1>1
<1> QED BY <1>1, <1>2 DEF Announced

-----------------------------------------------------------------------------
(* Who holds a task.                                                       *)

Busy(c) == co[c].pc # "idle"
Holds(c, e) == Busy(c) /\ co[c].entry = e

(* A task is in one pair of hands: a coroutine uses entries of its own     *)
(* worker's PEL, no two coroutines use the same one, a reaper's batch is   *)
(* not in use yet, and a worker that is down uses none.  Before its        *)
(* enqueue a page has no entry and no progress.                            *)
HoldInv ==
    /\ \A c \in Coroutines : Busy(c) => owner[co[c].entry] = c[1] /\ up[c[1]]
    /\ \A c \in Coroutines : ~Busy(c) => co[c].entry = NoEntry
    /\ \A c, d \in Coroutines :
            Busy(c) /\ Busy(d) /\ co[c].entry = co[d].entry => c = d
    /\ \A w \in Workers : \A e \in batch[w] :
            owner[e] = w /\ up[w] /\ \A c \in Coroutines : ~Holds(c, e)
    /\ \A p \in toEnqueue : /\ pageState[p] = "PENDING"
                            /\ \A e \in Entries : PageOf(e) = p => owner[e] = Absent
    /\ faults = 0

(* A coroutine whose next command finds the page as it expects it.         *)
Ready(k, s) ==
    \/ k.pc = "get" /\ (k.recovered \/ k.ctx = "reap" \/ s \notin RUNNING_STATES)
    \/ k.pc = "relGet"
    \/ k.pc = "relCas" /\ (k.seen = s \/ s \notin RUNNING_STATES)
    \/ k.pc \in {"reget", "handoff", "xadd"} /\ s \notin RUNNING_STATES
    \/ k.pc = "claimLayout" /\ s = "PENDING"
    \/ k.pc = "layout" /\ s = "LAYOUT_RUNNING"
    \/ k.pc = "commitLayout" /\ s \in RUNNING_STATES
    \/ k.pc \in {"emitPartial", "claimVlm"} /\ s = "LAYOUT_DONE"
    \/ k.pc \in {"vlm", "commitDone", "degrade"} /\ s = "VLM_RUNNING"
    \/ k.pc = "fail" /\ s \in PREDECESSORS["FAILED"]
    \/ k.pc = "ftGet"
    \/ k.pc = "ftCas" /\ k.seen = s

(* The entry that answers for its page: whoever takes the next step with   *)
(* it brings the page forward, or leaves another entry that does.          *)
Answers(e) ==
    LET s == pageState[PageOf(e)] IN
    \/ owner[e] = New /\ s \notin RUNNING_STATES
    \/ owner[e] \in Workers /\ \A c \in Coroutines : ~Holds(c, e)
    \/ \E c \in Coroutines : Holds(c, e) /\ Ready(co[c], s)

LastAttempt(p) ==
    \E e \in Entries : PageOf(e) = p /\ owner[e] # Absent /\ FinalAttempt(e)

(* The budget a coroutine was started with is still the one it has.        *)
Budgeted(k) ==
    k.pc # "idle" =>
        /\ k.ctx \in {"page", "reap"}
        /\ k.final => FinalAttempt(k.entry)
        /\ k.pc \in {"relGet", "relCas"} /\ k.ret = "fail" => k.final

DropInv ==
    /\ \A c \in Coroutines : Budgeted(co[c])
    /\ \A p \in Pages \ toEnqueue :
        Terminal(p) \/ LastAttempt(p) \/ \E e \in Entries : PageOf(e) = p /\ Answers(e)

(* Without crashes nothing is left behind to reclaim, and a page has one   *)
(* task that is not being settled.                                         *)
CalmInv ==
    /\ \A w \in Workers : up[w] /\ batch[w] = {}
    /\ \A c \in Coroutines :
        /\ co[c].ctx = "page" /\ co[c].pc \notin {"ftGet", "ftCas"}
        /\ c[2] = Maintenance => ~Busy(c)
    /\ \A e \in Entries : owner[e] \in Workers => \E c \in Coroutines : Holds(c, e)
    /\ OneLiveTask

(* What the single task of a page in state s knows of it.                  *)
Knows(k, s) ==
    /\ k.pc \in {"layout", "commitLayout"} => s = "LAYOUT_RUNNING"
    /\ k.pc = "emitPartial" => s = "LAYOUT_DONE"
    /\ k.pc = "fail" => s \in {"PENDING", "LAYOUT_RUNNING"}
    /\ k.pc \in {"relGet", "relCas"} /\ k.ret = "fail" => s = "LAYOUT_RUNNING"
    /\ k.pc = "relCas" => k.seen = s

PartialInv ==
    /\ \A c \in Coroutines : Knows(co[c], pageState[Page(c)])
    /\ \A c \in Coroutines : At(c, "emitPartial") => ~Announced(Partial(Page(c)))
    /\ \A p \in Pages :
        pageState[p] \in {"PENDING", "LAYOUT_RUNNING"} => ~Announced(Partial(p))
    /\ PartialOnce

-----------------------------------------------------------------------------
(***************************************************************************)
(* One fault-free command of a coroutine: from record k to l, its page     *)
(* from state s to t.                                                      *)
(***************************************************************************)
Local(k, s, l, t) ==
    /\ l.entry = k.entry /\ l.ctx = k.ctx /\ l.final = k.final
    /\ \/ /\ k.pc = "get" /\ k.ctx = "page" /\ t = s
          /\ \/ s \in TERMINAL_STATES /\ l.pc = "ack"
             \/ s \in RUNNING_STATES /\ ~k.recovered /\ l.pc = "ack"
             \/ s \in RUNNING_STATES /\ l.pc = "relGet" /\ l.ret = "reget"
             \/ s = "PENDING" /\ l.pc = "claimLayout"
             \/ s = "LAYOUT_DONE" /\ l.pc = "claimVlm"
       \/ /\ k.pc = "get" /\ k.ctx = "reap" /\ t = s
          /\ \/ s \in TERMINAL_STATES /\ l.pc = "ack"
             \/ l.pc = "ftGet"
             \/ l.pc = "relGet" /\ l.ret = "xadd"
       \/ /\ k.pc = "relGet" /\ t = s
          /\ \/ s \in RUNNING_STATES /\ l.pc = "relCas" /\ l.ret = k.ret /\ l.seen = s
             \/ s \notin RUNNING_STATES /\ l.pc = k.ret
       \/ /\ k.pc = "relCas" /\ l.pc = k.ret
          /\ IF s = k.seen THEN t = RECLAIM_TARGET[s] ELSE t = s
       \/ /\ k.pc = "reget" /\ t = s
          /\ \/ s \in TERMINAL_STATES \cup RUNNING_STATES /\ l.pc = "ack"
             \/ s = "PENDING" /\ l.pc = "claimLayout"
             \/ s = "LAYOUT_DONE" /\ l.pc = "claimVlm"
       \/ /\ k.pc = "claimLayout"
          /\ IF s = "PENDING" THEN t = "LAYOUT_RUNNING" /\ l.pc = "layout"
             ELSE t = s /\ l.pc = "ack"
       \/ /\ k.pc = "layout" /\ t = s
          /\ \/ l.pc \in {"commitLayout", "fail"}
             \/ l.pc = "relGet" /\ l.ret = (IF k.final THEN "fail" ELSE "xadd")
       \/ /\ k.pc = "commitLayout"
          /\ IF s \in RUNNING_STATES THEN t = "LAYOUT_DONE" /\ l.pc = "emitPartial"
             ELSE t = s /\ l.pc = AfterLayout
       \/ k.pc = "emitPartial" /\ t = s /\ l.pc = AfterLayout
       \/ /\ k.pc = "claimVlm"
          /\ IF s = "LAYOUT_DONE" THEN t = "VLM_RUNNING" /\ l.pc = "vlm"
             ELSE t = s /\ l.pc = "ack"
       \/ /\ k.pc = "vlm" /\ t = s
          /\ \/ l.pc \in {"commitDone", "degrade"}
             \/ ~k.final /\ l.pc = "relGet" /\ l.ret = "xadd"
       \/ /\ k.pc \in {"commitDone", "degrade", "fail", "ftCas"}
          /\ \E target \in TERMINAL_STATES :
                /\ k.pc = "commitDone" => target = "DONE"
                /\ k.pc = "degrade" => target = "FALLBACK_DONE"
                /\ k.pc = "fail" => target = "FAILED"
                /\ k.pc = "ftCas" => target = ForcedTarget(k.seen)
                /\ IF s \in PREDECESSORS[target]
                   THEN t = target /\ l.pc \in {"emitFinal", "emitLast"}
                   ELSE t = s /\ l.pc = "ack"
       \/ k.pc \in {"emitFinal", "emitLast"} /\ t = s /\ l.pc \in {"emitComplete", "ack"}
       \/ k.pc = "emitComplete" /\ t = s /\ l.pc = "ack"
       \/ /\ k.pc = "ftGet" /\ t = s
          /\ \/ s \in TERMINAL_STATES /\ l.pc = "ack"
             \/ s \notin TERMINAL_STATES /\ l.pc = "ftCas" /\ l.seen = s
       \/ k.pc \in {"xadd", "handoff"} /\ t = s /\ l.pc = "ack"

(* What such a command leaves alone.                                       *)
Moves(c, l, t) ==
    /\ co' = [co EXCEPT ![c] = l]
    /\ pageState' = [pageState EXCEPT ![Page(c)] = t]
    /\ Local(co[c], pageState[Page(c)], l, t)
    /\ l.pc # "idle"
    /\ UNCHANGED <<toEnqueue, age, up, batch, faults>>

LEMMA NoRaise ==
    ASSUME MaxFaults = 0, faults = 0, NEW c
    PROVE  ~Raise(c)
BY DEF Raise

LEMMA TransitionMoves ==
    ASSUME MaxFaults = 0, TypeInv, faults = 0, NEW c \in Coroutines, co[c].pc # "idle",
           NEW t, NEW from, NEW j, NEW k, Transition(c, t, from, j, k)
    PROVE  /\ UNCHANGED <<owner, attempt, events, toEnqueue, age, up, batch, faults>>
           /\ IF pageState[Page(c)] \in from
              THEN /\ pageState' = [pageState EXCEPT ![Page(c)] = t]
                   /\ co' = [co EXCEPT ![c] = j]
              ELSE /\ pageState' = [pageState EXCEPT ![Page(c)] = pageState[Page(c)]]
                   /\ co' = [co EXCEPT ![c] = k]
<1>1. ~Raise(c)
  BY NoRaise
<1>2. pageState = [pageState EXCEPT ![Page(c)] = pageState[Page(c)]]
  BY DEF TypeInv, TypeOK
<1> QED BY <1>1, <1>2 DEF Transition, Proceed, queue, env, store

LEMMA ObserveMoves ==
    ASSUME MaxFaults = 0, TypeInv, faults = 0, NEW c \in Coroutines, co[c].pc # "idle",
           NEW k, Observe(c, k)
    PROVE  /\ UNCHANGED <<owner, attempt, events, toEnqueue, age, up, batch, faults>>
           /\ pageState' = [pageState EXCEPT ![Page(c)] = pageState[Page(c)]]
           /\ co' = [co EXCEPT ![c] = k]
<1>1. ~Raise(c)
  BY NoRaise
<1>2. pageState = [pageState EXCEPT ![Page(c)] = pageState[Page(c)]]
  BY DEF TypeInv, TypeOK
<1> QED BY <1>1, <1>2 DEF Observe, Proceed, queue, env, store

LEMMA StepMoves ==
    ASSUME MaxFaults = 0, TypeInv, faults = 0, NEW c \in Coroutines,
           Step(c) \/ RedisError(c), ~Ack(c)
    PROVE  /\ \E l, t : Moves(c, l, t)
           /\ UNCHANGED <<owner, attempt>> \/ Requeue(c)
<1> USE DEF At
<1>0. co[c].pc # "idle" /\ Step(c)
  <2>1. ~RedisError(c)
    BY NoRaise DEF RedisError
  <2>2. co[c].pc # "idle"
    BY <2>1 DEF Step, GetPage, ReleaseGet, ReleaseCas, RegetPage, ClaimLayout,
           CallLayout, CommitLayout, EmitPartial, ClaimVlm, CallVlm, CommitDone, Degrade,
           Fail, EmitFinal, EmitLast, EmitComplete, ForceGet, ForceCas, Requeue, Ack, Recover
  <2> QED BY <2>1, <2>2
<1> DEFINE k == co[c]
           p == Page(c)
           s == pageState[p]
<1>1. /\ k \in CoroutineState /\ Coherent(k) /\ p \in Pages /\ s \in PageState
      /\ pageState = [pageState EXCEPT ![p] = s]
  BY <1>0, PageInPages DEF TypeInv, TypeOK
<1>2. \A l : Goto(c, l) = [k EXCEPT !.pc = l]
  BY DEF Goto
<1>3. s \in TERMINAL_STATES \cup RUNNING_STATES \cup {"PENDING", "LAYOUT_DONE"}
  BY <1>1, TableFacts DEF PageState, RUNNING_STATES
<1> HIDE DEF k, p, s
<1>4. ASSUME NEW l, Observe(c, l), Local(k, s, l, s), l.pc # "idle"
      PROVE  /\ \E m, t : Moves(c, m, t)
             /\ UNCHANGED <<owner, attempt>>
  BY <1>4, <1>0, ObserveMoves DEF Moves, k, p, s
<1>5. ASSUME NEW t, NEW from, NEW l, NEW m, Transition(c, t, from, l, m),
             IF s \in from THEN Local(k, s, l, t) /\ l.pc # "idle"
                           ELSE Local(k, s, m, s) /\ m.pc # "idle"
      PROVE  /\ \E n, u : Moves(c, n, u)
             /\ UNCHANGED <<owner, attempt>>
  BY <1>5, <1>0, TransitionMoves DEF Moves, k, p, s
<1>6. CASE GetPage(c)
  <2> DEFINE l == IF s \in TERMINAL_STATES THEN Goto(c, "ack")
                  ELSE IF s \notin RUNNING_STATES THEN Goto(c, Stage(s))
                  ELSE IF ~k.recovered THEN Goto(c, "ack")
                  ELSE [k EXCEPT !.pc = "relGet", !.ret = "reget"]
  <2>1. Observe(c, l) /\ k.pc = "get" /\ k.ctx = "page"
    BY <1>6 DEF GetPage, k, p, s
  <2>2. Local(k, s, l, s) /\ l.pc # "idle"
    BY <2>1, <1>1, <1>2, <1>3 DEF Local, CoroutineState, Stage
  <2> QED BY ZenonT(60), <2>1, <2>2, <1>4
<1>7. CASE Recover(c)
  <2> DEFINE l == IF s \in TERMINAL_STATES THEN Goto(c, "ack")
                  ELSE IF Exhausted(k.entry) THEN Goto(c, "ftGet")
                  ELSE [k EXCEPT !.pc = "relGet", !.ret = "xadd"]
  <2>1. Observe(c, l) /\ k.pc = "get" /\ k.ctx = "reap"
    BY <1>7 DEF Recover, k, p, s
  <2>2. Local(k, s, l, s) /\ l.pc # "idle"
    BY <2>1, <1>1, <1>2, <1>3 DEF Local, CoroutineState
  <2> QED BY ZenonT(60), <2>1, <2>2, <1>4
<1>8. CASE ReleaseGet(c)
  <2> DEFINE l == IF s \in RUNNING_STATES THEN [k EXCEPT !.pc = "relCas", !.seen = s]
                  ELSE [k EXCEPT !.pc = k.ret, !.ret = "idle"]
  <2>1. Observe(c, l) /\ k.pc = "relGet"
    BY <1>8 DEF ReleaseGet, k, p, s
  <2>2. Local(k, s, l, s) /\ l.pc # "idle"
    BY <2>1, <1>1 DEF Local, CoroutineState, Coherent
  <2> QED BY ZenonT(60), <2>1, <2>2, <1>4
<1>9. CASE ReleaseCas(c)
  <2> DEFINE l == [k EXCEPT !.pc = k.ret, !.ret = "idle", !.seen = "PENDING"]
  <2>1. Transition(c, RECLAIM_TARGET[k.seen], {k.seen}, l, l) /\ k.pc = "relCas"
    BY <1>9 DEF ReleaseCas, k
  <2>2. /\ l.pc = k.ret /\ l.pc # "idle" /\ l.entry = k.entry /\ l.ctx = k.ctx
        /\ l.final = k.final
    BY <2>1, <1>1 DEF CoroutineState, Coherent
  <2> HIDE DEF l
  <2>3. IF s \in {k.seen} THEN Local(k, s, l, RECLAIM_TARGET[k.seen]) ELSE Local(k, s, l, s)
    BY ZenonT(60), <2>1, <2>2 DEF Local
  <2> QED BY <2>1, <2>2, <2>3, <1>5
<1>10. CASE RegetPage(c)
  <2> DEFINE l == IF s \in TERMINAL_STATES \cup RUNNING_STATES
                  THEN Goto(c, "ack") ELSE Goto(c, Stage(s))
  <2>1. Observe(c, l) /\ k.pc = "reget"
    BY <1>10 DEF RegetPage, k, p, s
  <2>2. Local(k, s, l, s) /\ l.pc # "idle"
    BY <2>1, <1>1, <1>2, <1>3 DEF Local, CoroutineState, Stage
  <2> QED BY <2>1, <2>2, <1>4
<1>11. CASE ClaimLayout(c)
  <2>1. /\ Transition(c, "LAYOUT_RUNNING", {"PENDING"}, Goto(c, "layout"), Goto(c, "ack"))
        /\ k.pc = "claimLayout"
    BY <1>11, TableFacts DEF ClaimLayout, k
  <2>2. IF s \in {"PENDING"}
        THEN Local(k, s, Goto(c, "layout"), "LAYOUT_RUNNING") /\ Goto(c, "layout").pc # "idle"
        ELSE Local(k, s, Goto(c, "ack"), s) /\ Goto(c, "ack").pc # "idle"
    BY <2>1, <1>1, <1>2 DEF Local, CoroutineState
  <2> QED BY <2>1, <2>2, <1>5
<1>12. CASE CommitLayout(c)
  <2>1. /\ Transition(c, "LAYOUT_DONE", {"LAYOUT_RUNNING", "VLM_RUNNING"},
                      Goto(c, "emitPartial"), Goto(c, AfterLayout))
        /\ k.pc = "commitLayout"
    BY <1>12, TableFacts DEF CommitLayout, k
  <2>2. AfterLayout # "idle"
    BY DEF AfterLayout
  <2>3. IF s \in {"LAYOUT_RUNNING", "VLM_RUNNING"}
        THEN Local(k, s, Goto(c, "emitPartial"), "LAYOUT_DONE") /\ Goto(c, "emitPartial").pc # "idle"
        ELSE Local(k, s, Goto(c, AfterLayout), s) /\ Goto(c, AfterLayout).pc # "idle"
    BY <2>1, <2>2, <1>1, <1>2 DEF Local, CoroutineState, RUNNING_STATES
  <2> QED BY <2>1, <2>3, <1>5
<1>13. CASE ClaimVlm(c)
  <2>1. /\ Transition(c, "VLM_RUNNING", {"LAYOUT_DONE"}, Goto(c, "vlm"), Goto(c, "ack"))
        /\ k.pc = "claimVlm"
    BY <1>13, TableFacts DEF ClaimVlm, k
  <2>2. IF s \in {"LAYOUT_DONE"}
        THEN Local(k, s, Goto(c, "vlm"), "VLM_RUNNING") /\ Goto(c, "vlm").pc # "idle"
        ELSE Local(k, s, Goto(c, "ack"), s) /\ Goto(c, "ack").pc # "idle"
    BY <2>1, <1>1, <1>2 DEF Local, CoroutineState
  <2> QED BY <2>1, <2>2, <1>5
<1>14. CASE CallLayout(c) \/ CallVlm(c)
  <2>1. PICK l : /\ co' = [co EXCEPT ![c] = l]
                 /\ \/ k.pc = "layout" /\ l \in {Goto(c, "commitLayout"), Saturated(c), Goto(c, "fail")}
                    \/ k.pc = "vlm" /\ l \in {Goto(c, "commitDone"), Goto(c, "degrade")}
                    \/ k.pc = "vlm" /\ ~k.final /\ l = Saturated(c)
    BY <1>14 DEF CallLayout, CallVlm, k
  <2>2. UNCHANGED <<pageState, owner, attempt, toEnqueue, age, up, batch, faults>>
    BY <1>14 DEF CallLayout, CallVlm, store, queue, env
  <2>3. /\ Saturated(c).pc = "relGet" /\ Saturated(c).entry = k.entry
        /\ Saturated(c).ret = (IF k.final THEN "fail" ELSE "xadd")
        /\ Saturated(c).ctx = k.ctx /\ Saturated(c).final = k.final
    BY <1>1 DEF Saturated, k, CoroutineState
  <2>4. Local(k, s, l, s) /\ l.pc # "idle"
    <3>1. CASE l = Saturated(c)
      <4>1. k.pc = "layout" \/ (k.pc = "vlm" /\ ~k.final)
        BY <3>1, <2>1, <2>3, <1>1, <1>2 DEF CoroutineState
      <4>2. l.pc = "relGet" /\ l.ret = (IF k.final THEN "fail" ELSE "xadd")
        BY <3>1, <2>3
      <4>3. l.entry = k.entry /\ l.ctx = k.ctx /\ l.final = k.final
        BY <3>1, <2>3
      <4> QED BY <4>1, <4>2, <4>3 DEF Local
    <3>2. CASE l # Saturated(c)
      BY <3>2, <2>1, <1>1, <1>2 DEF Local, CoroutineState
    <3> QED BY ZenonT(60), <3>1, <3>2
  <2> QED BY ZenonT(60), <2>1, <2>2, <2>4, <1>1 DEF Moves, k, p, s
<1>15. CASE CommitDone(c) \/ Degrade(c) \/ Fail(c) \/ ForceCas(c)
  <2>1. PICK t \in TERMINAL_STATES :
            /\ k.pc \in {"commitDone", "degrade", "fail", "ftCas"}
            /\ k.pc = "commitDone" => t = "DONE"
            /\ k.pc = "degrade" => t = "FALLBACK_DONE"
            /\ k.pc = "fail" => t = "FAILED"
            /\ k.pc = "ftCas" => t = ForcedTarget(k.seen)
            /\ Finish(c, t, PREDECESSORS[t])
    <3>1. k.pc = "ftCas" => ForcedTarget(k.seen) \in TERMINAL_STATES
      BY <1>1, TableFacts DEF CoroutineState
    <3> QED BY ZenonT(60), <3>1, <1>15, TableFacts DEF CommitDone, Degrade, Fail, ForceCas, k
  <2> DEFINE f == IF doneCount + 1 >= Total THEN "emitLast" ELSE "emitFinal"
  <2>2. Transition(c, t, PREDECESSORS[t], Goto(c, f), Goto(c, "ack"))
    BY <2>1 DEF Finish
  <2>3. f \in {"emitFinal", "emitLast"}
    OBVIOUS
  <2> HIDE DEF f
  <2>4. IF s \in PREDECESSORS[t]
        THEN Local(k, s, Goto(c, f), t) /\ Goto(c, f).pc # "idle"
        ELSE Local(k, s, Goto(c, "ack"), s) /\ Goto(c, "ack").pc # "idle"
    BY <2>1, <2>3, <1>1, <1>2 DEF Local, CoroutineState
  <2> QED BY ZenonT(60), <2>2, <2>4, <1>5
<1>16. CASE EmitPartial(c) \/ EmitFinal(c) \/ EmitLast(c) \/ EmitComplete(c)
  <2>1. PICK ev, label :
            /\ Publish(c, ev, label)
            /\ \/ k.pc = "emitPartial" /\ label = AfterLayout
               \/ k.pc \in {"emitFinal", "emitLast"} /\ label \in {"ack", "emitComplete"}
               \/ k.pc = "emitComplete" /\ label = "ack"
    BY <1>16 DEF EmitPartial, EmitFinal, EmitLast, EmitComplete, k
  <2>2. /\ co' = [co EXCEPT ![c] = Goto(c, label)]
        /\ UNCHANGED <<pageState, owner, attempt, toEnqueue, age, up, batch, faults>>
    BY <2>1, NoRaise DEF Publish, Proceed, store, queue, env
  <2>3. label # "idle"
    BY <2>1 DEF AfterLayout
  <2>4. Local(k, s, Goto(c, label), s) /\ Goto(c, label).pc # "idle"
    BY <2>1, <2>3, <1>1, <1>2 DEF Local, CoroutineState
  <2> QED BY ZenonT(60), <2>2, <2>4, <1>1 DEF Moves, k, p, s
<1>17. CASE ForceGet(c)
  <2> DEFINE l == IF s \in TERMINAL_STATES THEN Goto(c, "ack")
                  ELSE [k EXCEPT !.pc = "ftCas", !.seen = s]
  <2>1. Observe(c, l) /\ k.pc = "ftGet"
    BY <1>17 DEF ForceGet, k, p, s
  <2>2. Local(k, s, l, s) /\ l.pc # "idle"
    BY <2>1, <1>1, <1>2 DEF Local, CoroutineState
  <2> QED BY ZenonT(60), <2>1, <2>2, <1>4
<1>18. CASE Requeue(c)
  <2>1. /\ co' = [co EXCEPT ![c] = Goto(c, "ack")]
        /\ UNCHANGED <<pageState, toEnqueue, age, up, batch, faults>>
        /\ k.pc \in {"xadd", "handoff"}
    BY <1>18, NoRaise DEF Requeue, Proceed, store, env, k
  <2>2. Local(k, s, Goto(c, "ack"), s) /\ Goto(c, "ack").pc # "idle"
    BY <2>1, <1>1, <1>2 DEF Local, CoroutineState
  <2> QED BY ZenonT(60), <2>1, <2>2, <1>1, <1>18 DEF Moves, k, p, s
<1> QED BY ZenonT(60), <1>0, <1>6, <1>7, <1>8, <1>9, <1>10, <1>11, <1>12, <1>13, <1>14, <1>15, <1>16,
           <1>17, <1>18 DEF Step

-----------------------------------------------------------------------------
(***************************************************************************)
(* A task is in one pair of hands.                                         *)
(***************************************************************************)

(* No step takes an entry out of the hands of a coroutine that goes on.    *)
LEMMA XAddAbsent ==
    ASSUME TypeInv, NEW p \in Pages, NEW a, XAdd(p, a)
    PROVE  \E x \in Entries : /\ owner[x] = Absent /\ PageOf(x) = p
                              /\ owner' = [owner EXCEPT ![x] = New]
                              /\ attempt' = [attempt EXCEPT ![x] = a]
BY ZenonT(60) DEF XAdd, Entries, PageOf

LEMMA PageEnqueued ==
    ASSUME TypeInv, HoldInv, NEW c \in Coroutines, Busy(c)
    PROVE  /\ Page(c) \in Pages \ toEnqueue /\ co[c].entry \in Entries /\ c[1] \in Workers
           /\ owner[co[c].entry] = c[1]
<1>1. Page(c) \in Pages /\ co[c].entry \in Entries /\ c[1] \in Workers
  BY PageInPages DEF Busy, Coroutines
<1>2. owner[co[c].entry] = c[1]
  BY ZenonT(60) DEF HoldInv
<1> QED BY <1>1, <1>2, NamesAssumption DEF HoldInv, Page

LEMMA BatchFacts ==
    ASSUME TypeInv, HoldInv
    PROVE  \A w \in Workers : \A e \in batch[w] :
             e \in Entries /\ owner[e] = w /\ up[w] /\ \A d \in Coroutines : ~Holds(d, e)
BY ZenonT(60) DEF HoldInv, TypeInv, TypeOK

LEMMA HoldMoves ==
    ASSUME MaxFaults = 0, TypeInv, HoldInv, NEW c \in Coroutines, Busy(c), NEW l, NEW t,
           Moves(c, l, t), UNCHANGED <<owner, attempt>> \/ Requeue(c)
    PROVE  HoldInv'
<1>1. /\ Page(c) \in Pages \ toEnqueue /\ co[c].entry \in Entries /\ c[1] \in Workers
      /\ owner[co[c].entry] = c[1]
  BY PageEnqueued
<1>2. \A e \in Entries : \/ owner'[e] = owner[e]
                         \/ owner[e] = Absent /\ PageOf(e) = Page(c)
  <2>1. CASE Requeue(c)
    <3>1. PICK a : XAdd(Page(c), a)
      BY ZenonT(60), <2>1 DEF Requeue
    <3> QED BY <3>1, <1>1, XAddAbsent DEF TypeInv, TypeOK
  <2>2. CASE UNCHANGED <<owner, attempt>>
    BY <2>2
  <2> QED BY <2>1, <2>2
<1>3. /\ \A d \in Coroutines : co'[d] = IF d = c THEN l ELSE co[d]
      /\ l.pc # "idle" /\ l.entry = co[c].entry
  BY ZenonT(60) DEF Moves, Local, TypeInv, TypeOK
<1>4. \A d \in Coroutines : co'[d].entry = co[d].entry /\ (Busy(d)' <=> Busy(d))
  BY <1>3 DEF Busy
<1>5. UNCHANGED <<toEnqueue, up, batch, faults>>
  BY DEF Moves
<1>6. \A d \in Coroutines : Busy(d) => owner'[co[d].entry] = d[1] /\ up[d[1]]
  <2>1. \A d \in Coroutines : Busy(d) =>
            co[d].entry \in Entries /\ d[1] \in Workers /\ owner[co[d].entry] = d[1] /\ up[d[1]]
    BY ZenonT(60), PageEnqueued DEF HoldInv
  <2> QED BY ZenonT(60), <2>1, <1>2, NamesAssumption
<1>7. \A w \in Workers : \A e \in batch[w] :
            owner'[e] = w /\ up[w] /\ \A d \in Coroutines : ~Holds(d, e)'
  <2>1. \A w \in Workers : \A e \in batch[w] :
            e \in Entries /\ owner[e] = w /\ up[w] /\ \A d \in Coroutines : ~Holds(d, e)
    BY ZenonT(60), BatchFacts
  <2> QED BY <2>1, <1>2, <1>4, NamesAssumption DEF Holds
<1>8. \A p \in toEnqueue : /\ pageState'[p] = "PENDING"
                           /\ \A e \in Entries : PageOf(e) = p => owner'[e] = Absent
  <2>1. \A p \in toEnqueue : pageState'[p] = pageState[p]
    BY ZenonT(60), <1>1 DEF Moves, TypeInv, TypeOK
  <2> QED BY <2>1, <1>1, <1>2 DEF HoldInv
<1> QED BY ZenonT(60), <1>4, <1>5, <1>6, <1>7, <1>8 DEF HoldInv

LEMMA HoldAck ==
    ASSUME MaxFaults = 0, TypeInv, HoldInv, NEW c \in Coroutines, Ack(c)
    PROVE  HoldInv'
<1>1. Busy(c) /\ Idle.pc = "idle" /\ Idle.entry = NoEntry
  BY ZenonT(60) DEF Ack, At, Busy, Idle
<1>2. /\ Page(c) \in Pages \ toEnqueue /\ co[c].entry \in Entries /\ c[1] \in Workers
      /\ owner[co[c].entry] = c[1]
  BY ZenonT(60), <1>1, PageEnqueued
<1>3. /\ owner' = [owner EXCEPT ![co[c].entry] = Gone]
      /\ co' = [co EXCEPT ![c] = Idle]
      /\ UNCHANGED <<toEnqueue, up, batch, faults, pageState>>
  BY ZenonT(60), NoRaise DEF Ack, Proceed, HoldInv, store, env
<1>4. /\ \A d \in Coroutines : co'[d] = IF d = c THEN Idle ELSE co[d]
      /\ \A e \in Entries : owner'[e] = IF e = co[c].entry THEN Gone ELSE owner[e]
  BY <1>2, <1>3 DEF TypeInv, TypeOK
<1>5. \A d \in Coroutines : Busy(d)' => Busy(d) /\ d # c /\ co'[d] = co[d]
  BY <1>1, <1>4 DEF Busy
<1>6. \A d \in Coroutines : Busy(d)' => owner'[co'[d].entry] = d[1] /\ up[d[1]]
  <2>1. \A d \in Coroutines : Busy(d) =>
            co[d].entry \in Entries /\ owner[co[d].entry] = d[1] /\ up[d[1]]
    BY PageEnqueued DEF HoldInv
  <2>2. \A d \in Coroutines : Busy(d) /\ d # c => co[d].entry # co[c].entry
    BY ZenonT(60), <1>1 DEF HoldInv
  <2>3. ASSUME NEW d \in Coroutines, Busy(d)'
        PROVE  owner'[co'[d].entry] = d[1] /\ up[d[1]]
    <3>1. Busy(d) /\ d # c /\ co'[d] = co[d]
      BY ZenonT(60), <1>5, <2>3
    <3>2. /\ co[d].entry \in Entries /\ owner[co[d].entry] = d[1] /\ up[d[1]]
          /\ co[d].entry # co[c].entry
      BY ZenonT(60), <2>1, <2>2, <3>1
    <3> QED BY ZenonT(60), <1>4, <3>1, <3>2
  <2> QED BY ZenonT(60), <2>3
<1>7. \A d \in Coroutines : ~Busy(d)' => co'[d].entry = NoEntry
  BY <1>1, <1>4 DEF Busy, HoldInv
<1>8. \A d, f \in Coroutines : Busy(d)' /\ Busy(f)' /\ co'[d].entry = co'[f].entry => d = f
  BY <1>5 DEF HoldInv
<1>9. \A w \in Workers : \A e \in batch[w] :
            owner'[e] = w /\ up[w] /\ \A d \in Coroutines : ~Holds(d, e)'
  <2>1. \A w \in Workers : \A e \in batch[w] :
            e \in Entries /\ owner[e] = w /\ up[w] /\ \A d \in Coroutines : ~Holds(d, e)
    BY ZenonT(60), BatchFacts
  <2> QED BY <2>1, <1>1, <1>4, <1>5 DEF Holds
<1>10. \A p \in toEnqueue : /\ pageState[p] = "PENDING"
                            /\ \A e \in Entries : PageOf(e) = p => owner'[e] = Absent
  BY <1>2, <1>4 DEF HoldInv, Page
<1> QED BY ZenonT(60), <1>3, <1>6, <1>7, <1>8, <1>9, <1>10 DEF HoldInv

(* A coroutine that starts on an entry of its worker that nobody uses.     *)
LEMMA HoldStart ==
    ASSUME TypeInv, HoldInv, NEW c \in Coroutines, ~Busy(c), up[c[1]],
           NEW k, NEW e \in Entries, k.pc # "idle", k.entry = e,
           co' = [co EXCEPT ![c] = k],
           \A d \in Coroutines : ~Holds(d, e),
           owner[e] \in {New, c[1]},
           owner' = [owner EXCEPT ![e] = c[1]],
           \A w \in Workers : batch'[w] \subseteq batch[w] /\ e \notin batch'[w],
           UNCHANGED <<toEnqueue, up, faults, pageState>>
    PROVE  HoldInv'
<1>1. /\ \A d \in Coroutines : co'[d] = IF d = c THEN k ELSE co[d]
      /\ \A x \in Entries : owner'[x] = IF x = e THEN c[1] ELSE owner[x]
      /\ c[1] \in Workers
  BY ZenonT(60) DEF TypeInv, TypeOK, Coroutines
<1>2. \A d \in Coroutines : Busy(d) => co[d].entry \in Entries \ {e} /\ owner[co[d].entry] = d[1] /\ up[d[1]]
  BY PageEnqueued DEF HoldInv, Holds
<1>3. \A d \in Coroutines : /\ d # c => (Busy(d)' <=> Busy(d)) /\ co'[d] = co[d]
                            /\ d = c => Busy(d)' /\ co'[d].entry = e
  BY ZenonT(60), <1>1 DEF Busy
<1>4. ASSUME NEW d \in Coroutines, Busy(d)'
      PROVE  owner'[co'[d].entry] = d[1] /\ up[d[1]]
  <2>1. CASE d = c
    <3>1. co'[d].entry = e /\ d[1] = c[1]
      BY ZenonT(60), <1>3, <2>1
    <3>2. owner'[e] = c[1]
      BY ZenonT(60), <1>1
    <3> QED BY <3>1, <3>2
  <2>2. CASE d # c
    <3>1. Busy(d) /\ co'[d] = co[d]
      BY ZenonT(60), <1>3, <1>4, <2>2
    <3>2. co[d].entry \in Entries /\ co[d].entry # e /\ owner[co[d].entry] = d[1] /\ up[d[1]]
      BY ZenonT(60), <1>2, <3>1
    <3> QED BY ZenonT(60), <1>1, <3>1, <3>2
  <2> QED BY ZenonT(60), <2>1, <2>2
<1>5. /\ \A d \in Coroutines : ~Busy(d) => co[d].entry = NoEntry
      /\ \A d, f \in Coroutines : Busy(d) /\ Busy(f) /\ co[d].entry = co[f].entry => d = f
  BY ZenonT(60) DEF HoldInv
<1>6. /\ \A d \in Coroutines : ~Busy(d)' => co'[d].entry = NoEntry
      /\ \A d, f \in Coroutines : Busy(d)' /\ Busy(f)' /\ co'[d].entry = co'[f].entry => d = f
  <2>1. ASSUME NEW d \in Coroutines, ~Busy(d)'
        PROVE  co'[d].entry = NoEntry
    BY <1>3, <1>5, <2>1
  <2>2. ASSUME NEW d \in Coroutines, NEW f \in Coroutines, Busy(d)', Busy(f)',
               co'[d].entry = co'[f].entry
        PROVE  d = f
    <3>1. \A g \in Coroutines : g # c /\ Busy(g)' => co'[g].entry # e
      BY ZenonT(60), <1>2, <1>3
    <3>2. CASE d = c \/ f = c
      <4>1. co'[d].entry = e /\ co'[f].entry = e
        BY <1>3, <2>2, <3>2
      <4> QED BY <2>2, <3>1, <3>2, <4>1
    <3>3. CASE d # c /\ f # c
      <4>1. Busy(d) /\ Busy(f) /\ co'[d] = co[d] /\ co'[f] = co[f]
        BY ZenonT(60), <1>3, <2>2, <3>3
      <4>2. co[d].entry = co[f].entry
        BY <2>2, <4>1
      <4> QED BY ZenonT(60), <1>5, <4>1, <4>2
    <3> QED BY ZenonT(60), <3>2, <3>3
  <2> QED BY ZenonT(60), <2>1, <2>2
<1>7. \A w \in Workers : \A x \in batch'[w] :
            owner'[x] = w /\ up[w] /\ \A d \in Coroutines : ~Holds(d, x)'
  <2>1. \A w \in Workers : \A x \in batch'[w] :
            /\ x \in Entries /\ x # e /\ owner[x] = w /\ up[w]
            /\ \A d \in Coroutines : ~Holds(d, x)
    <3>1. \A w \in Workers : \A x \in batch'[w] : x \in batch[w] /\ x # e
      OBVIOUS
    <3> QED BY ZenonT(60), BatchFacts, <3>1
  <2>2. \A x : \A d \in Coroutines : x # e /\ ~Holds(d, x) => ~Holds(d, x)'
    BY ZenonT(60), <1>3 DEF Holds
  <2> QED BY <2>1, <2>2, <1>1
<1>8. \A p \in toEnqueue : /\ pageState[p] = "PENDING"
                           /\ \A x \in Entries : PageOf(x) = p => owner'[x] = Absent
  BY <1>1, NamesAssumption DEF HoldInv
<1> QED BY ZenonT(60), <1>4, <1>6, <1>7, <1>8 DEF HoldInv

(* While leases are renewed, what a reaper may claim is used by nobody.    *)
LEMMA OrphansUnused ==
    ASSUME ~LeaseMayLapse, TypeInv, HoldInv, NEW w \in Workers, NEW e \in Orphans(w)
    PROVE  /\ e \in Entries /\ owner[e] \in Workers \ {w}
           /\ \A c \in Coroutines : ~Holds(c, e)
           /\ \A v \in Workers : e \notin batch[v]
<1>1. e \in Entries /\ owner[e] \in Workers \ {w} /\ e \notin InUse(owner[e])
  BY DEF Orphans
<1>2. ASSUME NEW c \in Coroutines, Holds(c, e)
      PROVE  FALSE
  <2>1. Busy(c) /\ co[c].entry = e /\ owner[e] = c[1]
    BY <1>2, PageEnqueued DEF Holds
  <2>2. PICK v \in Workers, s \in Slots \cup {Maintenance} : c = <<v, s>>
    BY DEF Coroutines
  <2>3. owner[e] = v /\ e # NoEntry
    <3>1. e # NoEntry
      BY <1>1, NamesAssumption DEF Entries
    <3> QED BY ZenonT(60), <2>1, <2>2, <3>1
  <2>4. CASE s \in Slots
    BY ZenonT(60), <2>1, <2>2, <2>3, <2>4, <1>1 DEF InUse, Held
  <2>5. CASE s = Maintenance
    BY ZenonT(60), <2>1, <2>2, <2>3, <2>5, <1>1 DEF InUse, Reaper
  <2> QED BY <2>4, <2>5
<1>3. \A v \in Workers : e \notin batch[v]
  BY <1>1 DEF InUse, HoldInv
<1> QED BY <1>1, <1>2, <1>3

(* and there is never an entry to take back.                               *)
LEMMA NothingToRenew ==
    ASSUME TypeInv, HoldInv, NEW w \in Workers
    PROVE  ~RenewLeases(w)
<1> SUFFICES ASSUME NEW s \in Slots, co[<<w, s>>].entry # NoEntry,
                    owner[co[<<w, s>>].entry] \in Workers \ {w}
             PROVE  FALSE
  BY ZenonT(60) DEF RenewLeases, Held
<1>1. <<w, s>> \in Coroutines /\ <<w, s>>[1] = w
  BY ZenonT(60) DEF Coroutines
<1> QED BY <1>1 DEF HoldInv

LEMMA HoldScan ==
    ASSUME ~LeaseMayLapse, TypeInv, HoldInv, NEW w \in Workers, Scan(w)
    PROVE  HoldInv'
<1>1. PICK S \in SUBSET Orphans(w) :
            /\ owner' = [e \in Entries |-> IF e \in S THEN w ELSE owner[e]]
            /\ batch' = [batch EXCEPT ![w] = S]
  BY ZenonT(60) DEF Scan
<1>2. /\ UNCHANGED <<pageState, toEnqueue, up, faults, co>> /\ up[w] /\ batch[w] = {}
  BY DEF Scan, store, env
<1>3. \A e \in S : /\ e \in Entries /\ owner[e] \in Workers
                   /\ \A c \in Coroutines : ~Holds(c, e)
                   /\ \A v \in Workers : e \notin batch[v]
  BY OrphansUnused
<1>4. \A v \in Workers : batch'[v] = IF v = w THEN S ELSE batch[v]
  BY <1>1 DEF TypeInv, TypeOK
<1>5. \A c \in Coroutines : Busy(c) => co[c].entry \in Entries \ S
  BY ZenonT(60), <1>3, PageEnqueued DEF Holds
<1>6. \A c \in Coroutines : Busy(c) => owner'[co[c].entry] = c[1] /\ up[c[1]]
  BY ZenonT(60), <1>1, <1>5 DEF HoldInv
<1>7. \A v \in Workers : \A e \in batch'[v] :
            owner'[e] = v /\ up[v] /\ \A c \in Coroutines : ~Holds(c, e)
  <2>1. \A v \in Workers : \A e \in batch[v] :
            /\ e \in Entries /\ owner[e] = v /\ up[v]
            /\ \A d \in Coroutines : ~Holds(d, e)
    BY ZenonT(60), BatchFacts
  <2> QED BY <2>1, <1>1, <1>2, <1>3, <1>4
<1>8. \A p \in toEnqueue : /\ pageState[p] = "PENDING"
                           /\ \A e \in Entries : PageOf(e) = p => owner'[e] = Absent
  BY ZenonT(60), <1>1, <1>3, NamesAssumption DEF HoldInv
<1> QED BY <1>2, <1>6, <1>7, <1>8 DEF HoldInv, Busy, Holds

LEMMA HoldCrash ==
    ASSUME TypeInv, HoldInv, NEW w \in Workers, Crash(w)
    PROVE  HoldInv'
<1>1. /\ \A c \in Coroutines : co'[c] = IF c[1] = w THEN Idle ELSE co[c]
      /\ \A v \in Workers : v # w /\ up[v] => up'[v]
      /\ \A v \in Workers : batch'[v] = IF v = w THEN {} ELSE batch[v]
      /\ UNCHANGED <<pageState, owner, toEnqueue, faults>>
  BY DEF Crash, store, queue, TypeInv, TypeOK
<1>2. Idle.pc = "idle" /\ Idle.entry = NoEntry
  BY ZenonT(60) DEF Idle
<1>3. \A c \in Coroutines : /\ c[1] \in Workers
                            /\ Busy(c)' => Busy(c) /\ c[1] # w /\ co'[c] = co[c]
                            /\ ~Busy(c)' => co'[c].entry = NoEntry
  BY <1>1, <1>2 DEF Busy, HoldInv, Coroutines
<1>4. \A c \in Coroutines : Busy(c)' => owner'[co'[c].entry] = c[1] /\ up'[c[1]]
  BY ZenonT(60), <1>1, <1>3 DEF HoldInv
<1>5. \A c, d \in Coroutines : Busy(c)' /\ Busy(d)' /\ co'[c].entry = co'[d].entry => c = d
  BY <1>3 DEF HoldInv
<1>6. \A v \in Workers : \A e \in batch'[v] :
            owner'[e] = v /\ up'[v] /\ \A c \in Coroutines : ~Holds(c, e)'
  <2>1. \A v \in Workers : \A e \in batch'[v] :
            v # w /\ owner[e] = v /\ up[v] /\ \A c \in Coroutines : ~Holds(c, e)
    BY <1>1 DEF HoldInv
  <2> QED BY <2>1, <1>1, <1>3 DEF Holds
<1>7. \A c \in Coroutines : ~Busy(c)' => co'[c].entry = NoEntry
  BY ZenonT(60), <1>3
<1>8. /\ \A p \in toEnqueue' : /\ pageState'[p] = "PENDING"
                             /\ \A e \in Entries : PageOf(e) = p => owner'[e] = Absent
      /\ faults' = 0
  BY ZenonT(60), <1>1 DEF HoldInv
<1> QED BY ZenonT(60), <1>4, <1>5, <1>6, <1>7, <1>8 DEF HoldInv

(* A restarted worker finds its PEL unused: it has no coroutines.          *)
LEMMA RestartTasks ==
    ASSUME TypeInv, HoldInv, NEW w \in Workers, Restart(w)
    PROVE  /\ \A c \in Coroutines : c[1] = w => ~Busy(c)
           /\ \A c \in Coroutines :
                \/ co'[c] = co[c]
                \/ /\ c[1] = w /\ Busy(c)' /\ co'[c].entry \in OwnPending(w)
                   /\ co'[c] = Task(co'[c].entry, TRUE)
           /\ \A c, d \in Coroutines :
                c[1] = w /\ d[1] = w /\ Busy(c)' /\ Busy(d)' /\ co'[c].entry = co'[d].entry
                    => c = d
           /\ UNCHANGED <<pageState, owner, attempt, age, toEnqueue, faults, batch>>
           /\ up' = [up EXCEPT ![w] = TRUE]
<1>1. PICK f \in [Slots -> OwnPending(w) \cup {NoEntry}] :
        /\ \A s, t \in Slots : s # t /\ f[s] = f[t] => f[s] = NoEntry
        /\ co' = [c \in Coroutines |->
                    IF c[1] = w /\ c[2] \in Slots /\ f[c[2]] # NoEntry
                    THEN Task(f[c[2]], TRUE) ELSE co[c]]
  BY ZenonT(60) DEF Restart
<1>2. \A c \in Coroutines : c[1] = w => ~Busy(c)
  BY DEF Restart, HoldInv
<1>3. \A e : Task(e, TRUE).entry = e /\ Task(e, TRUE).pc = "get"
  BY DEF Task, Idle
<1>4. ASSUME NEW c \in Coroutines
      PROVE  \/ co'[c] = co[c]
             \/ /\ c[1] = w /\ c[2] \in Slots /\ co'[c].entry = f[c[2]] /\ f[c[2]] # NoEntry
                /\ co'[c].entry \in OwnPending(w)
                /\ co'[c].pc = "get" /\ co'[c] = Task(co'[c].entry, TRUE)
  <2>1. CASE c[1] = w /\ c[2] \in Slots /\ f[c[2]] # NoEntry
    <3>1. co'[c] = Task(f[c[2]], TRUE)
      BY ZenonT(60), <1>1, <2>1
    <3>2. f[c[2]] \in OwnPending(w)
      BY <1>1, <2>1
    <3> QED BY ZenonT(60), <3>1, <3>2, <2>1, <1>3
  <2>2. CASE ~(c[1] = w /\ c[2] \in Slots /\ f[c[2]] # NoEntry)
    BY ZenonT(60), <1>1, <2>2
  <2> QED BY ZenonT(60), <2>1, <2>2
<1>5. ASSUME NEW c \in Coroutines, NEW d \in Coroutines, c[1] = w, d[1] = w,
             Busy(c)', Busy(d)', co'[c].entry = co'[d].entry
      PROVE  c = d
  <2>1. /\ c[2] \in Slots /\ co'[c].entry = f[c[2]] /\ f[c[2]] # NoEntry
        /\ d[2] \in Slots /\ co'[d].entry = f[d[2]] /\ f[d[2]] # NoEntry
    BY ZenonT(60), <1>2, <1>4, <1>5 DEF Busy
  <2>2. c[2] = d[2]
    BY ZenonT(60), <2>1, <1>1, <1>5
  <2> QED BY <2>2, <1>5 DEF Coroutines
<1>6. /\ UNCHANGED <<pageState, owner, attempt, age, toEnqueue, faults, batch>>
      /\ up' = [up EXCEPT ![w] = TRUE]
  BY ZenonT(60) DEF Restart, store, queue
<1> QED BY ZenonT(60), <1>2, <1>4, <1>5, <1>6 DEF Busy

LEMMA HoldRestart ==
    ASSUME TypeInv, HoldInv, NEW w \in Workers, Restart(w)
    PROVE  HoldInv'
<1>1. /\ \A c \in Coroutines : c[1] = w => ~Busy(c)
      /\ \A c \in Coroutines :
            \/ co'[c] = co[c]
            \/ c[1] = w /\ Busy(c)' /\ co'[c].entry \in OwnPending(w)
      /\ \A c, d \in Coroutines :
            c[1] = w /\ d[1] = w /\ Busy(c)' /\ Busy(d)' /\ co'[c].entry = co'[d].entry
                => c = d
      /\ UNCHANGED <<pageState, owner, toEnqueue, faults, batch>>
      /\ up' = [up EXCEPT ![w] = TRUE]
  BY ZenonT(60), RestartTasks
<1>2. ~up[w]
  BY ZenonT(60) DEF Restart
<1>3. \A v \in Workers : v = w \/ up[v] => up'[v]
  BY ZenonT(60), <1>1 DEF TypeInv, TypeOK
<1>4. ASSUME NEW c \in Coroutines
      PROVE  /\ c[1] \in Workers
             /\ c[1] # w => co'[c] = co[c] /\ (Busy(c)' <=> Busy(c))
             /\ c[1] = w /\ Busy(c)' => co'[c].entry \in Entries /\ owner[co'[c].entry] = w
             /\ ~Busy(c)' => co'[c] = co[c] /\ ~Busy(c)
  BY ZenonT(60), <1>1 DEF Busy, OwnPending, Coroutines
<1>5. \A c \in Coroutines : Busy(c)' => owner'[co'[c].entry] = c[1] /\ up'[c[1]]
  BY <1>1, <1>3, <1>4 DEF HoldInv
<1>6. \A c, d \in Coroutines : Busy(c)' /\ Busy(d)' /\ co'[c].entry = co'[d].entry => c = d
  <2>1. \A c \in Coroutines : Busy(c)' => owner[co'[c].entry] = c[1]
    BY ZenonT(60), <1>1, <1>5
  <2>2. ASSUME NEW c \in Coroutines, NEW d \in Coroutines, Busy(c)', Busy(d)',
               co'[c].entry = co'[d].entry
        PROVE  c = d
    <3>1. c[1] = d[1]
      <4>1. owner[co'[c].entry] = c[1] /\ owner[co'[d].entry] = d[1]
        BY ZenonT(60), <2>1, <2>2
      <4> QED BY <2>2, <4>1
    <3>2. CASE c[1] = w
      BY ZenonT(60), <1>1, <2>2, <3>1, <3>2
    <3>3. CASE c[1] # w
      <4>1. Busy(c) /\ Busy(d) /\ co[c].entry = co[d].entry
        BY ZenonT(60), <1>4, <2>2, <3>1, <3>3
      <4> QED BY ZenonT(60), <4>1 DEF HoldInv
    <3> QED BY ZenonT(60), <3>2, <3>3
  <2> QED BY ZenonT(60), <2>2
<1>7. \A v \in Workers : \A e \in batch[v] :
            owner[e] = v /\ up'[v] /\ \A c \in Coroutines : ~Holds(c, e)'
  <2>1. \A v \in Workers : \A e \in batch[v] :
            v # w /\ owner[e] = v /\ up[v] /\ \A c \in Coroutines : ~Holds(c, e)
    BY ZenonT(60), <1>2 DEF HoldInv
  <2>2. ASSUME NEW v \in Workers, NEW e \in batch[v], NEW c \in Coroutines, Holds(c, e)'
        PROVE  FALSE
    <3>1. owner[e] = v /\ v # w /\ ~Holds(c, e)
      BY <2>1, <2>2
    <3>2. Busy(c)' /\ co'[c].entry = e
      BY ZenonT(60), <2>2 DEF Holds
    <3> QED BY ZenonT(60), <3>1, <3>2, <1>4 DEF Holds
  <2> QED BY ZenonT(60), <2>1, <2>2, <1>3
<1>8. \A v \in Workers : \A e \in batch'[v] :
            owner'[e] = v /\ up'[v] /\ \A c \in Coroutines : ~Holds(c, e)'
  BY ZenonT(60), <1>1, <1>7
<1>9. \A c \in Coroutines : ~Busy(c)' => co'[c].entry = NoEntry
  BY ZenonT(60), <1>4 DEF HoldInv
<1>10. /\ \A p \in toEnqueue' : /\ pageState'[p] = "PENDING"
                              /\ \A e \in Entries : PageOf(e) = p => owner'[e] = Absent
       /\ faults' = 0
  BY ZenonT(60), <1>1 DEF HoldInv
<1> QED BY ZenonT(60), <1>5, <1>6, <1>8, <1>9, <1>10 DEF HoldInv

LEMMA HoldEnqueue ==
    ASSUME TypeInv, HoldInv, NEW p \in Pages, EnqueuePage(p)
    PROVE  HoldInv'
<1>1. PICK x \in Entries : /\ owner[x] = Absent /\ PageOf(x) = p
                           /\ owner' = [owner EXCEPT ![x] = New]
  BY XAddAbsent DEF EnqueuePage
<1>2. UNCHANGED <<pageState, up, co, batch, faults>> /\ toEnqueue' = toEnqueue \ {p}
  BY DEF EnqueuePage, store
<1>3. \A e \in Entries : owner'[e] = IF e = x THEN New ELSE owner[e]
  BY <1>1 DEF TypeInv, TypeOK
<1>4. \A c \in Coroutines : Busy(c) => owner'[co[c].entry] = c[1] /\ up[c[1]]
  <2>1. \A c \in Coroutines : Busy(c) =>
            co[c].entry \in Entries /\ c[1] \in Workers /\ owner[co[c].entry] = c[1] /\ up[c[1]]
    BY ZenonT(60), PageEnqueued DEF HoldInv
  <2> QED BY ZenonT(60), <2>1, <1>1, <1>3, NamesAssumption
<1>5. \A w \in Workers : \A e \in batch[w] :
            owner'[e] = w /\ up[w] /\ \A c \in Coroutines : ~Holds(c, e)
  <2>1. \A w \in Workers : \A e \in batch[w] :
            e \in Entries /\ owner[e] = w /\ up[w] /\ \A d \in Coroutines : ~Holds(d, e)
    BY ZenonT(60), BatchFacts
  <2> QED BY <2>1, <1>1, <1>3, NamesAssumption
<1>6. \A q \in toEnqueue \ {p} : /\ pageState[q] = "PENDING"
                                 /\ \A e \in Entries : PageOf(e) = q => owner'[e] = Absent
  BY <1>1, <1>3 DEF HoldInv
<1> QED BY ZenonT(60), <1>2, <1>4, <1>5, <1>6 DEF HoldInv, Busy, Holds

LEMMA HoldOutside ==
    ASSUME ~LeaseMayLapse, TypeInv, HoldInv, Outside
    PROVE  HoldInv'
<1>1. ASSUME NEW w \in Workers, NEW s \in Slots, NEW e \in Entries, Deliver(w, s, e)
      PROVE  HoldInv'
  <2>1. /\ <<w, s>> \in Coroutines /\ <<w, s>>[1] = w /\ ~Busy(<<w, s>>) /\ up[w]
        /\ owner[e] = New /\ owner' = [owner EXCEPT ![e] = w]
        /\ co' = [co EXCEPT ![<<w, s>>] = Task(e, FALSE)]
        /\ UNCHANGED <<pageState, toEnqueue, up, faults, batch>>
    BY <1>1 DEF Deliver, At, Busy, Coroutines, store, env
  <2>2. Task(e, FALSE).pc # "idle" /\ Task(e, FALSE).entry = e
    BY ZenonT(60) DEF Task, Idle
  <2>3. \A c \in Coroutines : ~Holds(c, e)
    BY ZenonT(60), <2>1, PageEnqueued, NamesAssumption DEF Holds
  <2>4. \A v \in Workers : batch'[v] \subseteq batch[v] /\ e \notin batch'[v]
    BY <2>1, NamesAssumption DEF HoldInv
  <2> QED BY ZenonT(60), <2>1, <2>2, <2>3, <2>4, HoldStart
<1>2. ASSUME NEW w \in Workers, NEW e \in Entries, RecoverNext(w, e)
      PROVE  HoldInv'
  <2> DEFINE k == [Idle EXCEPT !.pc = "get", !.entry = e, !.ctx = "reap"]
  <2>1. /\ Reaper(w) \in Coroutines /\ Reaper(w)[1] = w /\ ~Busy(Reaper(w))
        /\ e \in batch[w] /\ batch' = [batch EXCEPT ![w] = @ \ {e}]
        /\ co' = [co EXCEPT ![Reaper(w)] = k]
        /\ UNCHANGED <<pageState, owner, toEnqueue, up, faults>>
    BY <1>2 DEF RecoverNext, Reaper, At, Busy, Coroutines, store, env, queue
  <2>2. k.pc # "idle" /\ k.entry = e
    BY DEF Idle
  <2> HIDE DEF k
  <2>3. up[w] /\ owner[e] = w /\ \A c \in Coroutines : ~Holds(c, e)
    BY ZenonT(60), <2>1 DEF HoldInv
  <2>4. owner' = [owner EXCEPT ![e] = w]
    BY ZenonT(60), <2>1, <2>3 DEF TypeInv, TypeOK
  <2>5. \A v \in Workers : batch'[v] \subseteq batch[v] /\ e \notin batch'[v]
    BY <2>1, <2>3 DEF HoldInv, TypeInv, TypeOK
  <2>6. PICK r \in Coroutines : r = Reaper(w)
    BY <2>1
  <2>10. PICK l : l = k
    OBVIOUS
  <2>7. /\ ~Busy(r) /\ up[r[1]] /\ l.pc # "idle" /\ l.entry = e
        /\ co' = [co EXCEPT ![r] = l]
    BY <2>1, <2>2, <2>3, <2>6, <2>10
  <2>8. owner[e] \in {New, r[1]} /\ owner' = [owner EXCEPT ![e] = r[1]]
    BY ZenonT(60), <2>1, <2>3, <2>4, <2>6, <2>10
  <2>9. UNCHANGED <<toEnqueue, up, faults, pageState>>
    BY ZenonT(60), <2>1
  <2> QED BY ZenonT(60), <2>3, <2>5, <2>7, <2>8, <2>9, HoldStart
<1>3. ASSUME NEW p \in Pages, GrowOld(p)
      PROVE  HoldInv'
  BY <1>3 DEF GrowOld, store, queue, HoldInv, Busy, Holds
<1> QED BY <1>1, <1>2, <1>3, HoldScan, NothingToRenew, HoldCrash, HoldRestart, HoldEnqueue
        DEF Outside

(* While leases are renewed in time and no command raises, every entry in  *)
(* use is in the PEL of the worker that uses it, and in no other hands.    *)
LEMMA HoldInvariant ==
    ASSUME ~LeaseMayLapse, MaxFaults = 0
    PROVE  Spec => []HoldInv
<1>1. Init => HoldInv
  BY DEF Init, HoldInv, Busy, Idle
<1>2. TypeInv /\ HoldInv /\ [Next]_vars => HoldInv'
  <2> SUFFICES ASSUME TypeInv, HoldInv, [Next]_vars PROVE HoldInv'
    OBVIOUS
  <2>1. CASE UNCHANGED vars
    BY ZenonT(60), <2>1 DEF vars, HoldInv, Busy, Holds
  <2>2. ASSUME NEW c \in Coroutines, Step(c) \/ RedisError(c), ~Ack(c)
        PROVE  HoldInv'
    <3>1. Busy(c)
      BY ZenonT(60), <2>2 DEF Step, RedisError, GetPage, ReleaseGet, ReleaseCas, RegetPage, ClaimLayout,
           CallLayout, CommitLayout, EmitPartial, ClaimVlm, CallVlm, CommitDone, Degrade,
           Fail, EmitFinal, EmitLast, EmitComplete, ForceGet, ForceCas, Requeue, Recover,
           At, Busy
    <3>2. faults = 0
      BY DEF HoldInv
    <3> QED BY <2>2, <3>1, <3>2, StepMoves, HoldMoves
  <2> QED BY <2>1, <2>2, NextCases, HoldAck, HoldOutside
<1> QED BY <1>1, <1>2, TypeInvariant, PTL DEF Spec

-----------------------------------------------------------------------------
(***************************************************************************)
(* Every unfinished page keeps an entry that answers for it.               *)
(***************************************************************************)

LEMMA RequeueOnly ==
    ASSUME MaxFaults = 0, faults = 0, NEW c \in Coroutines, Step(c) \/ RedisError(c),
           co[c].pc \in {"xadd", "handoff"}
    PROVE  Requeue(c)
<1>1. ~RedisError(c)
  BY NoRaise DEF RedisError
<1> QED BY <1>1 DEF Step, GetPage, ReleaseGet, ReleaseCas, RegetPage, ClaimLayout,
         CallLayout, CommitLayout, EmitPartial, ClaimVlm, CallVlm, CommitDone, Degrade,
         Fail, EmitFinal, EmitLast, EmitComplete, ForceGet, ForceCas, Ack, Recover, At

(* A command that moves the page leaves its coroutine where it knows it.   *)
LEMMA MoverReady ==
    ASSUME NEW k \in CoroutineState, Coherent(k), NEW s \in PageState, NEW l, NEW t,
           Local(k, s, l, t), t # s, ~(k.pc \in {"relGet", "relCas"} /\ k.ret = "fail")
    PROVE  t \in TERMINAL_STATES \/ Ready(l, t)
<1>1. CASE k.pc = "relCas"
  <2>1. s = k.seen /\ t = RECLAIM_TARGET[s] /\ l.pc = k.ret /\ s \in RUNNING_STATES
    BY <1>1 DEF Local, Coherent
  <2>2. t \notin RUNNING_STATES
    BY ZenonT(60), <2>1, TableFacts DEF RUNNING_STATES
  <2>3. l.pc \in {"reget", "xadd"}
    BY <1>1, <2>1 DEF Coherent, CoroutineState
  <2> QED BY ZenonT(60), <2>2, <2>3 DEF Ready
<1>2. CASE k.pc \in {"commitDone", "degrade", "fail", "ftCas"}
  BY ZenonT(60), <1>2 DEF Local
<1>3. CASE k.pc \notin {"relCas", "commitDone", "degrade", "fail", "ftCas"}
  BY ZenonT(60), <1>3 DEF Local, Ready, RUNNING_STATES
<1> QED BY ZenonT(60), <1>1, <1>2, <1>3

(* A command that leaves it alone, of a coroutine that found it as         *)
(* expected, keeps the coroutine ready, or replaces its entry.             *)
LEMMA ObserverReady ==
    ASSUME NEW k \in CoroutineState, Coherent(k), NEW s \in PageState \ TERMINAL_STATES,
           NEW l, Local(k, s, l, s), Ready(k, s),
           ~(k.pc \in {"relGet", "relCas"} /\ k.ret = "fail")
    PROVE  Ready(l, s) \/ (k.pc \in {"xadd", "handoff"} /\ s \notin RUNNING_STATES)
<1>1. CASE k.pc = "relCas"
  <2>1. s # k.seen /\ l.pc = k.ret
    BY ZenonT(60), <1>1, TableFacts DEF Local, Coherent, RUNNING_STATES
  <2>2. s \notin RUNNING_STATES
    BY <1>1, <2>1 DEF Ready
  <2>3. l.pc \in {"reget", "xadd"}
    BY <1>1, <2>1 DEF Coherent, CoroutineState
  <2> QED BY ZenonT(60), <2>2, <2>3 DEF Ready
<1>2. CASE k.pc = "relGet"
  <2>1. s \notin RUNNING_STATES /\ l.pc = k.ret => l.pc \in {"reget", "xadd"}
    BY <1>2 DEF Coherent, CoroutineState
  <2> QED BY ZenonT(60), <2>1, <1>2 DEF Local, Ready
<1>3. CASE k.pc \in {"commitDone", "degrade", "fail", "ftCas"}
  <2>1. PICK target \in TERMINAL_STATES :
            /\ k.pc = "commitDone" => target = "DONE"
            /\ k.pc = "degrade" => target = "FALLBACK_DONE"
            /\ k.pc = "fail" => target = "FAILED"
            /\ k.pc = "ftCas" => target = ForcedTarget(k.seen)
            /\ IF s \in PREDECESSORS[target]
               THEN s = target /\ l.pc \in {"emitFinal", "emitLast"}
               ELSE s = s /\ l.pc = "ack"
    BY ZenonT(60), <1>3 DEF Local
  <2>2. s \in PREDECESSORS[target]
    <3>1. CASE k.pc = "ftCas"
      <4>1. target = ForcedTarget(s)
        BY <2>1, <3>1 DEF Ready
      <4>2. s \in {"PENDING", "LAYOUT_RUNNING", "LAYOUT_DONE", "VLM_RUNNING"}
        BY TableFacts DEF PageState
      <4>3. /\ TRANSITIONS["PENDING"] = {"LAYOUT_RUNNING", "FAILED"}
            /\ TRANSITIONS["LAYOUT_RUNNING"] = {"LAYOUT_DONE", "PENDING", "FAILED"}
            /\ TRANSITIONS["LAYOUT_DONE"] = {"VLM_RUNNING", "FALLBACK_DONE"}
            /\ TRANSITIONS["VLM_RUNNING"] = {"DONE", "LAYOUT_DONE", "FALLBACK_DONE", "FAILED"}
        BY ZenonT(60) DEF TRANSITIONS, PageState
      <4> QED BY ZenonT(60), <4>1, <4>2, <4>3, TableFacts DEF ForcedTarget
    <3>2. CASE k.pc # "ftCas"
      BY <1>3, <2>1, <3>2, TableFacts DEF Ready
    <3> QED BY ZenonT(60), <3>1, <3>2
  <2> QED BY <2>1, <2>2
<1>4. CASE k.pc \in {"layout", "vlm"}
  BY ZenonT(60), <1>4, TableFacts DEF Local, Ready, RUNNING_STATES
<1>5. CASE k.pc \in {"emitPartial"}
  BY ZenonT(60), <1>5 DEF Local, Ready, RUNNING_STATES, AfterLayout
<1>6. CASE k.pc \notin {"relCas", "relGet", "commitDone", "degrade", "fail", "ftCas", "layout",
                        "vlm", "emitPartial"}
  BY ZenonT(60), <1>6 DEF Local, Ready, RUNNING_STATES
<1> QED BY ZenonT(60), <1>1, <1>2, <1>3, <1>4, <1>5, <1>6

(* A settled page stays settled.                                           *)
LEMMA TerminalStays ==
    ASSUME NEW k \in CoroutineState, Coherent(k), NEW s \in TERMINAL_STATES,
           NEW l, NEW t, Local(k, s, l, t)
    PROVE  t = s
<1>1. s \notin RUNNING_STATES /\ s # "PENDING" /\ s # "LAYOUT_DONE"
  BY TableFacts
<1>2. CASE k.pc \in {"commitDone", "degrade", "fail", "ftCas"}
  <2>1. PICK target \in TERMINAL_STATES :
            IF s \in PREDECESSORS[target] THEN TRUE ELSE t = s
    BY ZenonT(60), <1>2 DEF Local
  <2>2. s \notin PREDECESSORS[target]
    BY <1>1, <2>1, TableFacts
  <2> QED BY <2>1, <2>2
<1>3. CASE k.pc \notin {"commitDone", "degrade", "fail", "ftCas"}
  BY ZenonT(60), <1>1, <1>3 DEF Local, Coherent
<1> QED BY ZenonT(60), <1>2, <1>3

(* Entries are never unadded, and a final attempt stays final.             *)
Grows ==
    \A e \in Entries :
        owner[e] # Absent => owner'[e] # Absent /\ (FinalAttempt(e) => FinalAttempt(e)')

LEMMA GrowsWhen ==
    ASSUME TypeInv,
           UNCHANGED attempt \/ \E x \in Entries : \E a :
                /\ owner[x] = Absent /\ attempt' = [attempt EXCEPT ![x] = a],
           UNCHANGED age \/ \E p \in Pages : GrowOld(p),
           \A e \in Entries : owner[e] # Absent => owner'[e] # Absent
    PROVE  Grows
<1>1. \A e \in Entries : owner[e] # Absent => attempt'[e] = attempt[e]
  BY ZenonT(60) DEF TypeInv, TypeOK
<1>2. \A p \in Pages : age[p] \in 0..2 /\ age'[p] \in Int /\ age'[p] >= age[p]
  <2>1. \A p \in Pages : age[p] \in 0..2
    BY DEF TypeInv, TypeOK
  <2>2. ASSUME NEW q \in Pages, GrowOld(q)
        PROVE  \A p \in Pages : age'[p] \in Int /\ age'[p] >= age[p]
    <3>1. PICK a \in (age[q] + 1)..MaxAge : age' = [age EXCEPT ![q] = a]
      BY ZenonT(60), <2>2 DEF GrowOld
    <3>2. a \in Int /\ a >= age[q]
      BY <2>1, <3>1, BoundsAssumption
    <3>3. \A p \in Pages : age'[p] = IF p = q THEN a ELSE age[p]
      BY <3>1 DEF TypeInv, TypeOK
    <3> QED BY <2>1, <3>2, <3>3
  <2> QED BY <2>1, <2>2
<1>3. \A e \in Entries : PageOf(e) \in Pages
  BY DEF Entries, PageOf
<1> QED BY <1>1, <1>2, <1>3 DEF Grows, FinalAttempt

LEMMA StepGrows ==
    ASSUME MaxFaults = 0, TypeInv, HoldInv, NEW c \in Coroutines, Step(c) \/ RedisError(c)
    PROVE  Grows
<1>1. CASE Ack(c)
  <2>1. /\ UNCHANGED <<attempt, age>>
        /\ \A e \in Entries : owner'[e] \in {owner[e], Gone}
    BY <1>1 DEF Ack, env, TypeInv, TypeOK
  <2> QED BY <2>1, GrowsWhen, NamesAssumption
<1>2. CASE ~Ack(c)
  <2>1. UNCHANGED age /\ (UNCHANGED <<owner, attempt>> \/ Requeue(c))
    BY ZenonT(60), <1>2, StepMoves DEF Moves, HoldInv
  <2>2. CASE Requeue(c)
    <3>1. Page(c) \in Pages /\ \E a : XAdd(Page(c), a)
      BY ZenonT(60), <2>2, PageInPages DEF Requeue
    <3>2. PICK x \in Entries : \E a :
            /\ owner[x] = Absent
            /\ owner' = [owner EXCEPT ![x] = New]
            /\ attempt' = [attempt EXCEPT ![x] = a]
      BY <3>1, XAddAbsent
    <3>3. \A e \in Entries : owner'[e] \in {owner[e], New}
      BY <3>2 DEF TypeInv, TypeOK
    <3> QED BY ZenonT(60), <2>1, <3>2, <3>3, GrowsWhen, NamesAssumption
  <2> QED BY <2>1, <2>2, GrowsWhen
<1> QED BY <1>1, <1>2

LEMMA OutsideGrows ==
    ASSUME TypeInv, Outside
    PROVE  Grows
<1>1. ASSUME NEW p \in Pages, EnqueuePage(p)
      PROVE  Grows
  <2>1. PICK x \in Entries : /\ owner[x] = Absent
                             /\ owner' = [owner EXCEPT ![x] = New]
                             /\ attempt' = [attempt EXCEPT ![x] = 0]
    BY <1>1, XAddAbsent DEF EnqueuePage
  <2>2. \A e \in Entries : owner'[e] \in {owner[e], New}
    BY <2>1 DEF TypeInv, TypeOK
  <2>3. UNCHANGED age
    BY <1>1 DEF EnqueuePage
  <2> QED BY ZenonT(60), <2>1, <2>2, <2>3, GrowsWhen, NamesAssumption
<1>2. ASSUME NEW p \in Pages, GrowOld(p)
      PROVE  Grows
  <2>1. UNCHANGED <<attempt, owner>>
    BY <1>2 DEF GrowOld, queue
  <2> QED BY <2>1, <1>2, GrowsWhen
<1>3. ASSUME NEW w \in Workers,
             \/ \E e \in Entries : (\E s \in Slots : Deliver(w, s, e)) \/ RecoverNext(w, e)
             \/ Scan(w) \/ RenewLeases(w) \/ Crash(w) \/ Restart(w)
      PROVE  Grows
  <2>1. UNCHANGED <<attempt, age>>
    BY ZenonT(60), <1>3 DEF Deliver, RecoverNext, Scan, RenewLeases, Crash, Restart, queue, env
  <2>2. \A e \in Entries : owner'[e] \in {owner[e], w}
    <3>1. ASSUME NEW x \in Entries, NEW s \in Slots, Deliver(w, s, x)
          PROVE  \A e \in Entries : owner'[e] \in {owner[e], w}
      BY ZenonT(60), <3>1 DEF Deliver, TypeInv, TypeOK
    <3>2. ASSUME Scan(w) \/ RenewLeases(w)
          PROVE  \A e \in Entries : owner'[e] \in {owner[e], w}
      BY <3>2 DEF Scan, RenewLeases
    <3>3. ASSUME \/ \E e \in Entries : RecoverNext(w, e)
                 \/ Crash(w) \/ Restart(w)
          PROVE  UNCHANGED owner
      BY ZenonT(60), <3>3 DEF RecoverNext, Crash, Restart, queue
    <3> QED BY ZenonT(60), <1>3, <3>1, <3>2, <3>3
  <2> QED BY <2>1, <2>2, GrowsWhen, NamesAssumption
<1> QED BY <1>1, <1>2, <1>3 DEF Outside

LEMMA LastGrows ==
    ASSUME Grows, NEW p, LastAttempt(p)
    PROVE  LastAttempt(p)'
BY DEF Grows, LastAttempt

(* An entry that no step touches goes on answering for its page.           *)
LEMMA AnswersFrame ==
    ASSUME NEW e \in Entries, Answers(e),
           pageState'[PageOf(e)] = pageState[PageOf(e)],
           owner'[e] = owner[e] \/ {owner[e], owner'[e]} \subseteq Workers,
           \A d \in Coroutines : /\ Holds(d, e) <=> Holds(d, e)'
                                 /\ Holds(d, e) => co'[d] = co[d]
    PROVE  Answers(e)'
<1>1. CASE owner[e] = New /\ pageState[PageOf(e)] \notin RUNNING_STATES
  BY ZenonT(60), <1>1, NamesAssumption DEF Answers
<1>2. CASE owner[e] \in Workers /\ \A c \in Coroutines : ~Holds(c, e)
  <2>1. owner'[e] \in Workers /\ \A c \in Coroutines : ~Holds(c, e)'
    BY ZenonT(60), <1>2
  <2> QED BY ZenonT(60), <2>1 DEF Answers
<1>3. CASE \E c \in Coroutines : Holds(c, e) /\ Ready(co[c], pageState[PageOf(e)])
  <2>1. PICK c \in Coroutines : Holds(c, e) /\ Ready(co[c], pageState[PageOf(e)])
    BY ZenonT(60), <1>3
  <2>2. Holds(c, e)' /\ Ready(co'[c], pageState'[PageOf(e)])
    BY ZenonT(60), <2>1
  <2> QED BY <2>2 DEF Answers
<1> QED BY ZenonT(60), <1>1, <1>2, <1>3 DEF Answers

Covered(p) ==
    Terminal(p) \/ LastAttempt(p) \/ \E e \in Entries : PageOf(e) = p /\ Answers(e)

LEMMA AnswerAdded ==
    ASSUME NEW e, Answers(e), TypeInv, HoldInv
    PROVE  owner[e] # Absent
<1>1. ASSUME NEW c \in Coroutines, Holds(c, e)
      PROVE  owner[e] \in Workers
  BY <1>1, PageEnqueued DEF Holds
<1> QED BY <1>1, NamesAssumption DEF Answers

LEMMA CoveredMoves ==
    ASSUME MaxFaults = 0, TypeInv, HoldInv, DropInv, NEW c \in Coroutines,
           Step(c) \/ RedisError(c), ~Ack(c), Busy(c), NEW p \in Pages \ toEnqueue
    PROVE  Covered(p)'
<1>1. PICK l, t : Moves(c, l, t)
  BY ZenonT(60), StepMoves DEF HoldInv
<1>2. UNCHANGED <<owner, attempt>> \/ Requeue(c)
  BY ZenonT(60), StepMoves DEF HoldInv
<1>3. /\ Page(c) \in Pages \ toEnqueue /\ co[c].entry \in Entries /\ c[1] \in Workers
      /\ owner[co[c].entry] = c[1]
  BY ZenonT(60), PageEnqueued
<1> DEFINE k == co[c]
           s == pageState[Page(c)]
<1>4. /\ \A d \in Coroutines : co'[d] = IF d = c THEN l ELSE co[d]
      /\ \A q \in Pages : pageState'[q] = IF q = Page(c) THEN t ELSE pageState[q]
      /\ l.pc # "idle" /\ l.entry = k.entry /\ Local(k, s, l, t)
  BY ZenonT(60), <1>1, <1>3 DEF Moves, Local, TypeInv, TypeOK
<1>5. /\ k \in CoroutineState /\ Coherent(k) /\ s \in PageState /\ Budgeted(k)
      /\ k.pc # "idle"
  BY <1>3 DEF TypeInv, TypeOK, DropInv, Busy
<1>6. \A d \in Coroutines : \A e \in Entries : Holds(d, e) <=> Holds(d, e)'
  BY ZenonT(60), <1>4, <1>5 DEF Holds, Busy
<1>7. \A e \in Entries : owner[e] # Absent => owner'[e] = owner[e]
  <2>1. CASE Requeue(c)
    <3>1. PICK a : XAdd(Page(c), a)
      BY ZenonT(60), <2>1 DEF Requeue
    <3> QED BY <3>1, <1>3, XAddAbsent DEF TypeInv, TypeOK
  <2> QED BY ZenonT(60), <2>1, <1>2
<1>8. Grows
  BY ZenonT(60), StepGrows
<1> HIDE DEF k, s
<1>9. ASSUME NEW e \in Entries, PageOf(e) = p, Answers(e), e # k.entry,
             pageState'[p] = pageState[p]
      PROVE  Covered(p)'
  <2>1. owner'[e] = owner[e]
    BY ZenonT(60), <1>7, <1>9, AnswerAdded
  <2>2. \A d \in Coroutines : Holds(d, e) => co'[d] = co[d]
    BY ZenonT(60), <1>4, <1>9 DEF Holds, k
  <2>3. Answers(e)'
    BY ZenonT(60), <2>1, <2>2, <1>6, <1>9, AnswersFrame
  <2> QED BY ZenonT(60), <2>3, <1>9 DEF Covered
<1>10. Covered(p)
  BY DEF DropInv, Covered
<1>11. CASE LastAttempt(p)
  BY <1>8, <1>11, LastGrows DEF Covered
<1>12. CASE p # Page(c) /\ ~LastAttempt(p)
  <2>1. pageState'[p] = pageState[p]
    BY ZenonT(60), <1>4, <1>12
  <2>2. CASE Terminal(p)
    BY ZenonT(60), <2>1, <2>2 DEF Covered, Terminal
  <2>3. CASE ~Terminal(p)
    <3>1. PICK e \in Entries : PageOf(e) = p /\ Answers(e)
      BY <1>10, <1>12, <2>3 DEF Covered
    <3>2. e # k.entry
      BY <3>1, <1>12 DEF Page, k
    <3> QED BY <3>1, <3>2, <2>1, <1>9
  <2> QED BY ZenonT(60), <2>2, <2>3
<1>13. CASE p = Page(c) /\ ~LastAttempt(p)
  <2>1. ~(k.pc \in {"relGet", "relCas"} /\ k.ret = "fail")
    <3>1. k.final => FinalAttempt(k.entry)
      BY ZenonT(60), <1>5 DEF Budgeted
    <3>2. k.final => LastAttempt(p)
      BY ZenonT(60), <3>1, <1>3, <1>13, NamesAssumption DEF LastAttempt, Page, k
    <3> QED BY <3>2, <1>5, <1>13 DEF Budgeted
  <2>2. pageState'[p] = t /\ pageState[p] = s /\ PageOf(k.entry) = p
    BY ZenonT(60), <1>4, <1>13 DEF s, k, Page
  <2>3. PICK x \in Entries : x = k.entry
    BY ZenonT(60), <1>3 DEF k
  <2>4. Ready(l, t) => Covered(p)'
    <3>1. co'[c] = l /\ co'[c].pc # "idle" /\ co'[c].entry = x
      BY <1>4, <2>3
    <3>2. Holds(c, x)'
      BY <3>1 DEF Holds, Busy
    <3>3. Ready(l, t) => Answers(x)'
      BY ZenonT(60), <3>1, <3>2, <2>2, <2>3 DEF Answers
    <3> QED BY ZenonT(60), <3>3, <2>2, <2>3 DEF Covered
  <2>5. CASE s \in TERMINAL_STATES
    BY ZenonT(60), <2>2, <2>5, <1>4, <1>5, TerminalStays DEF Covered, Terminal
  <2>6. CASE t # s
    BY ZenonT(60), <2>1, <2>2, <2>4, <2>6, <1>4, <1>5, MoverReady DEF Covered, Terminal
  <2>7. CASE t = s /\ s \notin TERMINAL_STATES
    <3>1. PICK e \in Entries : PageOf(e) = p /\ Answers(e)
      BY ZenonT(60), <1>10, <1>13, <2>2, <2>7 DEF Covered, Terminal
    <3>2. CASE e # k.entry
      BY ZenonT(60), <3>1, <3>2, <2>2, <2>7, <1>9
    <3>3. CASE e = k.entry
      <4>1. Holds(c, e) /\ owner[e] # New
        BY <3>3, <1>3, <1>5, NamesAssumption DEF Holds, Busy, k
      <4>2. PICK d \in Coroutines : Holds(d, e) /\ Ready(co[d], s)
        BY ZenonT(60), <3>1, <4>1, <2>2 DEF Answers
      <4>3. d = c
        BY ZenonT(60), <4>1, <4>2 DEF HoldInv, Holds
      <4>4. Ready(k, s)
        BY <4>2, <4>3 DEF k
      <4>5. Ready(l, s) \/ (k.pc \in {"xadd", "handoff"} /\ s \notin RUNNING_STATES)
        BY ZenonT(60), <4>4, <2>1, <2>7, <1>4, <1>5, ObserverReady
      <4>6. CASE Ready(l, s)
        BY <4>6, <2>4, <2>7
      <4>7. CASE k.pc \in {"xadd", "handoff"} /\ s \notin RUNNING_STATES
        <5>1. Requeue(c)
          BY ZenonT(60), <4>7, RequeueOnly DEF k, HoldInv
        <5>2. PICK a : XAdd(Page(c), a)
          BY ZenonT(60), <5>1 DEF Requeue
        <5>3. PICK y \in Entries : PageOf(y) = Page(c) /\ owner' = [owner EXCEPT ![y] = New]
          BY ZenonT(60), <5>2, <1>3, XAddAbsent
        <5>4. owner'[y] = New /\ PageOf(y) = p
          BY ZenonT(60), <5>3, <1>13 DEF TypeInv, TypeOK
        <5>5. Answers(y)'
          BY ZenonT(60), <5>4, <4>7, <2>2, <2>7 DEF Answers
        <5> QED BY <5>4, <5>5 DEF Covered
      <4> QED BY ZenonT(60), <4>5, <4>6, <4>7
    <3> QED BY <3>2, <3>3
  <2> QED BY ZenonT(60), <2>5, <2>6, <2>7
<1> QED BY <1>11, <1>12, <1>13

LEMMA CoveredAck ==
    ASSUME MaxFaults = 0, TypeInv, HoldInv, DropInv, NEW c \in Coroutines, Ack(c),
           NEW p \in Pages \ toEnqueue
    PROVE  Covered(p)'
<1>1. Busy(c) /\ Idle.pc = "idle" /\ co[c].pc = "ack"
  BY ZenonT(60) DEF Ack, At, Busy, Idle
<1>2. co[c].entry \in Entries /\ owner[co[c].entry] = c[1] /\ c[1] \in Workers
  BY ZenonT(60), <1>1, PageEnqueued
<1>3. /\ owner' = [owner EXCEPT ![co[c].entry] = Gone]
      /\ co' = [co EXCEPT ![c] = Idle]
      /\ UNCHANGED pageState
  BY ZenonT(60), NoRaise DEF Ack, Proceed, HoldInv, store
<1>4. /\ \A d \in Coroutines : co'[d] = IF d = c THEN Idle ELSE co[d]
      /\ \A e \in Entries : owner'[e] = IF e = co[c].entry THEN Gone ELSE owner[e]
  BY ZenonT(60), <1>2, <1>3 DEF TypeInv, TypeOK
<1>5. Covered(p)
  BY DEF DropInv, Covered
<1>6. Grows
  BY StepGrows DEF Step
<1>7. CASE LastAttempt(p)
  BY <1>6, <1>7, LastGrows DEF Covered
<1>8. CASE Terminal(p)
  BY <1>3, <1>8 DEF Covered, Terminal
<1>9. CASE ~LastAttempt(p) /\ ~Terminal(p)
  <2>1. PICK e \in Entries : PageOf(e) = p /\ Answers(e)
    BY <1>5, <1>9 DEF Covered
  <2>2. e # co[c].entry
    <3> SUFFICES ASSUME e = co[c].entry PROVE FALSE
      OBVIOUS
    <3>1. Holds(c, e) /\ owner[e] # New
      BY ZenonT(60), <1>1, <1>2, NamesAssumption DEF Holds
    <3>2. PICK d \in Coroutines : Holds(d, e) /\ Ready(co[d], pageState[PageOf(e)])
      BY <2>1, <3>1 DEF Answers
    <3>3. d = c
      BY ZenonT(60), <3>1, <3>2 DEF HoldInv, Holds
    <3> QED BY ZenonT(60), <3>2, <3>3, <1>1 DEF Ready
  <2>3. \A d \in Coroutines : /\ Holds(d, e) <=> Holds(d, e)'
                              /\ Holds(d, e) => co'[d] = co[d]
    BY ZenonT(60), <2>2, <1>1, <1>4 DEF Holds, Busy
  <2>4. Answers(e)'
    BY <2>1, <2>2, <2>3, <1>3, <1>4, AnswersFrame
  <2> QED BY <2>1, <2>4 DEF Covered
<1> QED BY <1>7, <1>8, <1>9

(* Deliveries, scans, crashes and restarts pass the answer on.             *)
LEMMA OutsideAnswers ==
    ASSUME ~LeaseMayLapse, TypeInv, HoldInv, Outside, NEW e \in Entries, Answers(e)
    PROVE  Answers(e)'
<1>1. UNCHANGED pageState
  BY ZenonT(60), OutsideEffect
<1>2. \A c \in Coroutines : Holds(c, e) => owner[e] = c[1] /\ c[1] \in Workers /\ owner[e] # New
  BY PageEnqueued, NamesAssumption DEF Holds
<1>3. ASSUME NEW c \in Coroutines, Holds(c, e)', Ready(co'[c], pageState[PageOf(e)])
      PROVE  Answers(e)'
  BY ZenonT(60), <1>1, <1>3 DEF Answers
<1>4. ASSUME NEW w \in Workers, NEW z \in Slots, NEW x \in Entries, Deliver(w, z, x)
      PROVE  Answers(e)'
  <2>1. /\ <<w, z>> \in Coroutines /\ ~Busy(<<w, z>>) /\ owner[x] = New
        /\ owner' = [owner EXCEPT ![x] = w]
        /\ co' = [co EXCEPT ![<<w, z>>] = Task(x, FALSE)]
    BY <1>4 DEF Deliver, At, Busy, Coroutines
  <2>2. /\ \A d \in Coroutines : co'[d] = IF d = <<w, z>> THEN Task(x, FALSE) ELSE co[d]
        /\ \A y \in Entries : owner'[y] = IF y = x THEN w ELSE owner[y]
    BY <2>1 DEF TypeInv, TypeOK
  <2>3. Task(x, FALSE).pc = "get" /\ Task(x, FALSE).entry = x
    BY DEF Task, Idle
  <2>4. CASE e = x
    <3>1. pageState[PageOf(e)] \notin RUNNING_STATES
      BY <2>1, <2>4, <1>2, NamesAssumption DEF Answers
    <3>2. Holds(<<w, z>>, e)' /\ Ready(co'[<<w, z>>], pageState[PageOf(e)])
      BY ZenonT(60), <3>1, <2>1, <2>2, <2>3, <2>4 DEF Holds, Busy, Ready
    <3> QED BY ZenonT(60), <3>2, <2>1, <1>3
  <2>5. CASE e # x
    <3>1. \A d \in Coroutines : /\ Holds(d, e) <=> Holds(d, e)'
                                /\ Holds(d, e) => co'[d] = co[d]
      BY ZenonT(60), <2>1, <2>2, <2>3, <2>5 DEF Holds, Busy
    <3> QED BY ZenonT(60), <3>1, <2>2, <2>5, <1>1, AnswersFrame
  <2> QED BY <2>4, <2>5
<1>5. ASSUME NEW w \in Workers, NEW x \in Entries, RecoverNext(w, x)
      PROVE  Answers(e)'
  <2> DEFINE k == [Idle EXCEPT !.pc = "get", !.entry = x, !.ctx = "reap"]
  <2>1. /\ Reaper(w) \in Coroutines /\ ~Busy(Reaper(w))
        /\ co' = [co EXCEPT ![Reaper(w)] = k] /\ UNCHANGED owner
    BY <1>5 DEF RecoverNext, Reaper, At, Busy, Coroutines, queue
  <2>2. k.pc = "get" /\ k.entry = x /\ k.ctx = "reap"
    BY DEF Idle
  <2> HIDE DEF k
  <2>3. \A d \in Coroutines : co'[d] = IF d = Reaper(w) THEN k ELSE co[d]
    BY <2>1 DEF TypeInv, TypeOK
  <2>4. PICK r \in Coroutines : r = Reaper(w)
    BY <2>1
  <2>5. CASE e = x
    <3>1. co'[r] = k
      BY ZenonT(60), <2>3, <2>4
    <3>2. Holds(r, e)' /\ Ready(co'[r], pageState[PageOf(e)])
      BY <3>1, <2>2, <2>5 DEF Holds, Busy, Ready
    <3> QED BY <3>2, <1>3
  <2>6. CASE e # x
    <3>1. \A d \in Coroutines : /\ Holds(d, e) <=> Holds(d, e)'
                                /\ Holds(d, e) => co'[d] = co[d]
      BY <2>1, <2>2, <2>3, <2>6 DEF Holds, Busy
    <3> QED BY <3>1, <2>1, <1>1, AnswersFrame
  <2> QED BY <2>5, <2>6
<1>6. ASSUME NEW w \in Workers, Scan(w)
      PROVE  Answers(e)'
  <2>1. PICK S \in SUBSET Orphans(w) :
            owner' = [y \in Entries |-> IF y \in S THEN w ELSE owner[y]]
    BY ZenonT(60), <1>6 DEF Scan
  <2>2. UNCHANGED co
    BY ZenonT(60), <1>6 DEF Scan
  <2>3. owner'[e] = owner[e] \/ {owner[e], owner'[e]} \subseteq Workers
    BY <2>1, OrphansUnused
  <2> QED BY ZenonT(60), <2>2, <2>3, <1>1, AnswersFrame DEF Holds, Busy
<1>7. ASSUME NEW w \in Workers, Crash(w)
      PROVE  Answers(e)'
  <2>1. /\ \A c \in Coroutines : co'[c] = IF c[1] = w THEN Idle ELSE co[c]
        /\ UNCHANGED owner
    BY <1>7 DEF Crash, queue
  <2>2. Idle.pc = "idle"
    BY DEF Idle
  <2>3. CASE \E c \in Coroutines : c[1] = w /\ Holds(c, e)
    <3>1. owner[e] = w /\ \A d \in Coroutines : Holds(d, e) => d[1] = w
      BY <2>3, <1>2
    <3>2. \A d \in Coroutines : ~Holds(d, e)'
      BY <3>1, <2>1, <2>2 DEF Holds, Busy
    <3> QED BY ZenonT(60), <3>1, <3>2, <2>1 DEF Answers
  <2>4. CASE ~\E c \in Coroutines : c[1] = w /\ Holds(c, e)
    <3>1. \A d \in Coroutines : /\ Holds(d, e) <=> Holds(d, e)'
                                /\ Holds(d, e) => co'[d] = co[d]
      BY <2>1, <2>2, <2>4 DEF Holds, Busy
    <3> QED BY ZenonT(60), <3>1, <2>1, <1>1, AnswersFrame
  <2> QED BY <2>3, <2>4
<1>8. ASSUME NEW w \in Workers, Restart(w)
      PROVE  Answers(e)'
  <2>1. /\ \A c \in Coroutines : c[1] = w => ~Busy(c)
        /\ \A c \in Coroutines :
            \/ co'[c] = co[c]
            \/ /\ c[1] = w /\ Busy(c)' /\ co'[c].entry \in OwnPending(w)
               /\ co'[c] = Task(co'[c].entry, TRUE)
        /\ UNCHANGED owner
    BY ZenonT(60), <1>8, RestartTasks
  <2>2. CASE \E c \in Coroutines : c[1] = w /\ Holds(c, e)'
    <3>1. PICK c \in Coroutines : c[1] = w /\ Holds(c, e)'
      BY <2>2
    <3>2. Busy(c)' /\ co'[c].entry = e
      BY <3>1 DEF Holds
    <3>3. co'[c] = Task(e, TRUE)
      BY ZenonT(60), <3>1, <3>2, <2>1 DEF Busy
    <3>4. Ready(co'[c], pageState[PageOf(e)])
      BY <3>3 DEF Ready, Task, Idle
    <3> QED BY <3>1, <3>4, <1>3
  <2>3. CASE ~\E c \in Coroutines : c[1] = w /\ Holds(c, e)'
    <3>1. ASSUME NEW d \in Coroutines
          PROVE  /\ Holds(d, e) <=> Holds(d, e)'
                 /\ Holds(d, e) => co'[d] = co[d]
      BY ZenonT(60), <2>1, <2>3 DEF Holds, Busy
    <3> QED BY ZenonT(60), <3>1, <2>1, <1>1, AnswersFrame
  <2> QED BY <2>2, <2>3
<1>9. ASSUME NEW p \in Pages, EnqueuePage(p)
      PROVE  Answers(e)'
  <2>1. PICK x \in Entries : owner[x] = Absent /\ owner' = [owner EXCEPT ![x] = New]
    BY <1>9, XAddAbsent DEF EnqueuePage
  <2>2. owner'[e] = owner[e]
    BY ZenonT(60), <2>1, AnswerAdded DEF TypeInv, TypeOK
  <2>3. UNCHANGED co
    BY <1>9 DEF EnqueuePage
  <2> QED BY ZenonT(60), <2>2, <2>3, <1>1, AnswersFrame DEF Holds, Busy
<1>10. ASSUME NEW p \in Pages, GrowOld(p)
       PROVE  Answers(e)'
  <2>1. UNCHANGED <<owner, co>>
    BY ZenonT(60), <1>10 DEF GrowOld, queue
  <2> QED BY ZenonT(60), <2>1, <1>1, AnswersFrame DEF Holds, Busy
<1> QED BY <1>4, <1>5, <1>6, <1>7, <1>8, <1>9, <1>10, NothingToRenew DEF Outside

LEMMA BudgetedStep ==
    ASSUME MaxFaults = 0, TypeInv, HoldInv, DropInv, NEW c \in Coroutines,
           Step(c) \/ RedisError(c), NEW d \in Coroutines
    PROVE  Budgeted(co[d])'
<1>1. Grows
  BY ZenonT(60), StepGrows
<1>2. Busy(d) => co[d].entry \in Entries /\ owner[co[d].entry] # Absent
  BY ZenonT(60), PageEnqueued, NamesAssumption
<1>3. Busy(d) /\ FinalAttempt(co[d].entry) => age'[PageOf(co[d].entry)] >= 1 \/ attempt'[co[d].entry] + 1 >= MaxRequeues
  BY ZenonT(60), <1>1, <1>2 DEF Grows, FinalAttempt
<1>4. /\ Busy(d) => co[d].ctx \in {"page", "reap"} /\ (co[d].final => FinalAttempt(co[d].entry))
      /\ co[d].pc \in {"relGet", "relCas"} /\ co[d].ret = "fail" => co[d].final
  BY DEF DropInv, Budgeted, Busy
<1>5. CASE co'[d] = co[d]
  BY ZenonT(60), <1>3, <1>4, <1>5 DEF Budgeted, Busy, FinalAttempt
<1>6. CASE co'[d].pc = "idle"
  BY <1>6 DEF Budgeted
<1>7. CASE \E l, t : Moves(d, l, t)
  <2>1. PICK l, t : co'[d] = l /\ Local(co[d], pageState[Page(d)], l, t)
    BY <1>7 DEF Moves, TypeInv, TypeOK
  <2>2. l.ctx = co[d].ctx /\ l.final = co[d].final /\ l.entry = co[d].entry
    BY ZenonT(60), <2>1 DEF Local
  <2>3. co[d].pc # "idle"
    BY ZenonT(60), <2>1 DEF Local
  <2>4. l.pc \in {"relGet", "relCas"} /\ l.ret = "fail" => co[d].final
    <3>1. CASE co[d].pc \in {"relGet", "relCas"}
      <4>1. co[d].ret \in {"reget", "xadd", "fail"}
        BY ZenonT(60), <3>1 DEF TypeInv, Coherent, CoroutineState
      <4> QED BY ZenonT(60), <2>1, <3>1, <4>1, <1>4 DEF Local
    <3>2. CASE co[d].pc \notin {"relGet", "relCas"}
      BY ZenonT(60), <2>1, <3>2 DEF Local, AfterLayout
    <3> QED BY <3>1, <3>2
  <2> QED BY ZenonT(60), <2>1, <2>2, <2>3, <2>4, <1>3, <1>4 DEF Budgeted, Busy, FinalAttempt
<1>8. d # c => co'[d] = co[d]
  <2>1. CASE Ack(c)
    BY ZenonT(60), <2>1, NoRaise DEF Ack, Proceed, HoldInv, TypeInv, TypeOK
  <2>2. CASE ~Ack(c)
    BY <2>2, StepMoves DEF Moves, HoldInv, TypeInv, TypeOK
  <2> QED BY <2>1, <2>2
<1>9. d = c => co'[d].pc = "idle" \/ \E l, t : Moves(d, l, t)
  <2>1. CASE Ack(c)
    BY <2>1, NoRaise DEF Ack, Proceed, HoldInv, TypeInv, TypeOK, Idle
  <2>2. CASE ~Ack(c)
    BY ZenonT(60), <2>2, StepMoves DEF HoldInv
  <2> QED BY ZenonT(60), <2>1, <2>2
<1> QED BY <1>5, <1>6, <1>7, <1>8, <1>9

LEMMA BudgetedOutside ==
    ASSUME ~LeaseMayLapse, TypeInv, HoldInv, DropInv, Outside, NEW d \in Coroutines
    PROVE  Budgeted(co[d])'
<1>1. Grows
  BY OutsideGrows
<1>2. \A e \in Entries : owner[e] # Absent /\ FinalAttempt(e) => age'[PageOf(e)] >= 1 \/ attempt'[e] + 1 >= MaxRequeues
  BY <1>1 DEF Grows, FinalAttempt
<1>3. CASE co'[d] = co[d]
  <2>1. Busy(d) => co[d].entry \in Entries /\ owner[co[d].entry] # Absent
    BY PageEnqueued, NamesAssumption
  <2>2. /\ Busy(d) => co[d].ctx \in {"page", "reap"} /\ (co[d].final => FinalAttempt(co[d].entry))
        /\ co[d].pc \in {"relGet", "relCas"} /\ co[d].ret = "fail" => co[d].final
    BY ZenonT(60) DEF DropInv, Budgeted, Busy
  <2> QED BY ZenonT(60), <2>1, <2>2, <1>2, <1>3 DEF Budgeted, Busy, FinalAttempt
<1>4. CASE co'[d].pc = "idle"
  BY <1>4 DEF Budgeted
<1>5. CASE \E e \in Entries, own \in BOOLEAN : owner[e] # Absent /\ co'[d] = Task(e, own)
  <2>1. PICK e \in Entries, own \in BOOLEAN : owner[e] # Absent /\ co'[d] = Task(e, own)
    BY <1>5
  <2>2. /\ co'[d].pc = "get" /\ co'[d].entry = e /\ co'[d].ctx = "page"
        /\ co'[d].final = FinalAttempt(e)
    BY <2>1 DEF Task, Idle
  <2> QED BY ZenonT(60), <2>1, <2>2, <1>2 DEF Budgeted, FinalAttempt
<1>6. CASE co'[d].pc = "get" /\ co'[d].ctx = "reap" /\ ~co'[d].final
  BY <1>6 DEF Budgeted
<1>7. ASSUME NEW w \in Workers, NEW z \in Slots, NEW x \in Entries, Deliver(w, z, x)
      PROVE  co'[d] = co[d] \/ (owner[x] # Absent /\ co'[d] = Task(x, FALSE))
  BY ZenonT(60), <1>7, NamesAssumption DEF Deliver, TypeInv, TypeOK
<1>8. ASSUME NEW w \in Workers, NEW x \in Entries, RecoverNext(w, x)
      PROVE  co'[d] = co[d] \/ (co'[d].pc = "get" /\ co'[d].ctx = "reap" /\ ~co'[d].final)
  <2> DEFINE k == [Idle EXCEPT !.pc = "get", !.entry = x, !.ctx = "reap"]
  <2>1. k.pc = "get" /\ k.ctx = "reap" /\ ~k.final
    BY DEF Idle
  <2>2. co' = [co EXCEPT ![Reaper(w)] = k]
    BY <1>8 DEF RecoverNext
  <2> HIDE DEF k
  <2>3. co'[d] = co[d] \/ co'[d] = k
    BY <2>2 DEF TypeInv, TypeOK
  <2> QED BY <2>1, <2>3
<1>9. ASSUME NEW w \in Workers, Restart(w)
      PROVE  co'[d] = co[d] \/ \E e \in Entries, own \in BOOLEAN : owner[e] # Absent /\ co'[d] = Task(e, own)
  <2>1. \/ co'[d] = co[d]
        \/ co'[d].entry \in OwnPending(w) /\ co'[d] = Task(co'[d].entry, TRUE)
    BY ZenonT(60), <1>9, RestartTasks
  <2> QED BY ZenonT(60), <2>1, NamesAssumption DEF OwnPending
<1>10. ASSUME NEW w \in Workers, Crash(w)
       PROVE  co'[d] = co[d] \/ co'[d].pc = "idle"
  BY <1>10 DEF Crash, Idle
<1>11. \/ \E w \in Workers, z \in Slots, x \in Entries : Deliver(w, z, x)
       \/ \E w \in Workers, x \in Entries : RecoverNext(w, x)
       \/ \E w \in Workers : Restart(w) \/ Crash(w)
       \/ UNCHANGED co
  BY ZenonT(60) DEF Outside, Scan, RenewLeases, EnqueuePage, GrowOld
<1> QED BY ZenonT(60), <1>3, <1>4, <1>5, <1>6, <1>7, <1>8, <1>9, <1>10, <1>11

LEMMA CoveredOutside ==
    ASSUME ~LeaseMayLapse, TypeInv, HoldInv, DropInv, Outside,
           NEW p \in Pages \ toEnqueue'
    PROVE  Covered(p)'
<1>1. UNCHANGED pageState /\ Grows
  BY OutsideEffect, OutsideGrows
<1>2. CASE p \notin toEnqueue
  <2>1. Covered(p)
    BY <1>2 DEF DropInv, Covered
  <2>2. CASE Terminal(p)
    BY <2>2, <1>1 DEF Covered, Terminal
  <2>3. CASE LastAttempt(p)
    BY <2>3, <1>1, LastGrows DEF Covered
  <2>4. CASE \E e \in Entries : PageOf(e) = p /\ Answers(e)
    BY <2>4, OutsideAnswers DEF Covered
  <2> QED BY <2>1, <2>2, <2>3, <2>4 DEF Covered
<1>3. CASE p \in toEnqueue
  <2>1. EnqueuePage(p)
    <3>1. ASSUME NEW q \in Pages, EnqueuePage(q)
          PROVE  q = p
      BY <1>3, <3>1 DEF EnqueuePage
    <3>2. UNCHANGED toEnqueue \/ \E q \in Pages : EnqueuePage(q)
      BY ZenonT(60) DEF Outside, Deliver, RecoverNext, Scan, RenewLeases, Crash, Restart, GrowOld, env
    <3> QED BY <1>3, <3>1, <3>2
  <2>2. PICK x \in Entries : PageOf(x) = p /\ owner' = [owner EXCEPT ![x] = New]
    BY ZenonT(60), <2>1, XAddAbsent DEF EnqueuePage
  <2>3. owner'[x] = New /\ pageState'[p] = "PENDING"
    BY ZenonT(60), <2>2, <1>1, <1>3 DEF TypeInv, TypeOK, HoldInv
  <2>4. Answers(x)'
    BY <2>2, <2>3 DEF Answers, RUNNING_STATES
  <2> QED BY <2>2, <2>4 DEF Covered
<1> QED BY <1>2, <1>3

LEMMA DropInvariant ==
    ASSUME ~LeaseMayLapse, MaxFaults = 0
    PROVE  Spec => []DropInv
<1>1. Init => DropInv
  BY DEF Init, DropInv, Budgeted, Idle
<1>2. TypeInv /\ HoldInv /\ DropInv /\ [Next]_vars => DropInv'
  <2> SUFFICES ASSUME TypeInv, HoldInv, DropInv, [Next]_vars PROVE DropInv'
    BY ZenonT(60)
  <2>1. CASE UNCHANGED vars
    <3>1. UNCHANGED <<pageState, attempt, age, owner, co, toEnqueue>>
      BY ZenonT(60), <2>1 DEF vars
    <3>2. \A e : FinalAttempt(e)' <=> FinalAttempt(e)
      BY <3>1 DEF FinalAttempt
    <3>3. \A c \in Coroutines : Budgeted(co[c])'
      BY ZenonT(60), <3>1, <3>2 DEF DropInv, Budgeted
    <3>4. \A e \in Entries : Answers(e)' <=> Answers(e)
      BY <3>1 DEF Answers, Holds, Busy
    <3>5. \A p \in Pages : Terminal(p)' <=> Terminal(p)
      BY <3>1 DEF Terminal
    <3> QED BY ZenonT(60), <3>1, <3>2, <3>3, <3>4, <3>5 DEF DropInv, LastAttempt
  <2>2. ASSUME NEW c \in Coroutines, Step(c) \/ RedisError(c)
        PROVE  DropInv'
    <3>1. Busy(c)
      BY <2>2 DEF Step, RedisError, GetPage, ReleaseGet, ReleaseCas, RegetPage, ClaimLayout,
           CallLayout, CommitLayout, EmitPartial, ClaimVlm, CallVlm, CommitDone, Degrade,
           Fail, EmitFinal, EmitLast, EmitComplete, ForceGet, ForceCas, Requeue, Ack, Recover,
           At, Busy
    <3>2. UNCHANGED toEnqueue
      <4>1. CASE Ack(c)
        BY <4>1 DEF Ack, env
      <4>2. CASE ~Ack(c)
        BY ZenonT(60), <4>2, <2>2, StepMoves DEF Moves, HoldInv
      <4> QED BY <4>1, <4>2
    <3>3. \A p \in Pages \ toEnqueue : Covered(p)'
      BY <2>2, <3>1, CoveredMoves, CoveredAck
    <3>4. \A d \in Coroutines : Budgeted(co[d])'
      BY ZenonT(60), <2>2, BudgetedStep
    <3> QED BY ZenonT(60), <3>2, <3>3, <3>4 DEF DropInv, Covered
  <2>3. CASE Outside
    <3>1. \A p \in Pages \ toEnqueue' : Covered(p)'
      BY <2>3, CoveredOutside
    <3>2. \A d \in Coroutines : Budgeted(co[d])'
      BY <2>3, BudgetedOutside
    <3> QED BY ZenonT(60), <3>1, <3>2 DEF DropInv, Covered
  <2> QED BY <2>1, <2>2, <2>3, NextCases
<1> QED BY <1>1, <1>2, TypeInvariant, HoldInvariant, PTL DEF Spec

(* Zero drop, for any number of pages, workers, crashes and restarts in    *)
(* any order, as long as live leases are renewed in time and no Redis      *)
(* command raises: a page whose tasks all have attempts to spare is        *)
(* terminal or has an entry in the stream, at every await of every         *)
(* coroutine of the worker and of the reaper.                              *)
THEOREM NothingDropped ==
    ASSUME ~LeaseMayLapse, MaxFaults = 0
    PROVE  Spec => []NoDropBeforeLastAttempt
<1>1. TypeInv /\ HoldInv /\ DropInv => NoDropBeforeLastAttempt
  <2> SUFFICES ASSUME TypeInv, HoldInv, DropInv, NEW p \in Pages \ toEnqueue,
                      ~Terminal(p), ~LastAttempt(p)
               PROVE  \E e \in Entries : PageOf(e) = p /\ InStream(e)
    BY DEF NoDropBeforeLastAttempt, LastAttempt
  <2>1. PICK e \in Entries : PageOf(e) = p /\ Answers(e)
    BY ZenonT(60) DEF DropInv
  <2>2. \A c \in Coroutines : Holds(c, e) => owner[e] \in Workers
    BY PageEnqueued DEF Holds
  <2> QED BY <2>1, <2>2 DEF Answers, InStream
<1> QED BY <1>1, TypeInvariant, HoldInvariant, DropInvariant, PTL

-----------------------------------------------------------------------------
(***************************************************************************)
(* Without crashes a page has one task.                                    *)
(***************************************************************************)

(* Then nothing happens outside the coroutines but deliveries, enqueues    *)
(* and time: nothing is orphaned, nothing is left to reclaim or restart.   *)
LEMMA CalmOutside ==
    ASSUME ~LeaseMayLapse, MaxCrashes = 0, TypeInv, HoldInv, CalmInv, Outside
    PROVE  \/ \E w \in Workers, s \in Slots, e \in Entries : Deliver(w, s, e)
           \/ \E p \in Pages : EnqueuePage(p) \/ GrowOld(p)
<1>1. ASSUME NEW w \in Workers
      PROVE  ~Crash(w) /\ ~Restart(w)
  <2>1. crashes = 0 /\ up[w]
    BY DEF TypeInv, TypeOK, CalmInv
  <2>2. ~Crash(w)
    BY <2>1 DEF Crash
  <2>3. ~Restart(w)
    BY ZenonT(60), <2>1 DEF Restart
  <2> QED BY ZenonT(60), <2>2, <2>3
<1>2. ASSUME NEW w \in Workers
      PROVE  ~Scan(w)
  <2>1. Orphans(w) = {}
    <3> SUFFICES ASSUME NEW e \in Orphans(w) PROVE FALSE
      OBVIOUS
    <3>1. e \in Entries /\ owner[e] \in Workers /\ \A c \in Coroutines : ~Holds(c, e)
      BY OrphansUnused
    <3> QED BY <3>1 DEF CalmInv
  <2> QED BY ZenonT(60), <2>1 DEF Scan
<1>3. ASSUME NEW w \in Workers, NEW e \in Entries
      PROVE  ~RecoverNext(w, e)
  BY ZenonT(60) DEF RecoverNext, CalmInv
<1> QED BY <1>1, <1>2, <1>3, NothingToRenew DEF Outside

(* A task in use and not being settled is the only one of its page.        *)
Active(c) == co[c].pc \notin {"idle", "ack"}

LEMMA ActiveLive ==
    ASSUME TypeInv, HoldInv, NEW c \in Coroutines, Active(c)
    PROVE  /\ co[c].entry \in Entries /\ InStream(co[c].entry) /\ ~Settling(co[c].entry)
           /\ Page(c) = PageOf(co[c].entry)
<1>1. Busy(c)
  BY DEF Active, Busy
<1>2. co[c].entry \in Entries /\ owner[co[c].entry] \in Workers
  BY <1>1, PageEnqueued
<1>3. ASSUME NEW d \in Coroutines, At(d, "ack"), co[d].entry = co[c].entry
      PROVE  FALSE
  <2>1. d = c
    BY <1>1, <1>3 DEF HoldInv, Busy, At
  <2> QED BY ZenonT(60), <2>1, <1>3 DEF Active, At
<1> QED BY <1>2, <1>3 DEF InStream, Settling, Page

LEMMA Alone ==
    ASSUME TypeInv, HoldInv, OneLiveTask, NEW c \in Coroutines, Active(c),
           NEW d \in Coroutines, Active(d), Page(c) = Page(d)
    PROVE  c = d
<1>1. /\ co[c].entry \in Entries /\ InStream(co[c].entry) /\ ~Settling(co[c].entry)
      /\ co[d].entry \in Entries /\ InStream(co[d].entry) /\ ~Settling(co[d].entry)
      /\ PageOf(co[c].entry) = PageOf(co[d].entry)
  BY ActiveLive
<1>2. co[c].entry = co[d].entry
  BY <1>1 DEF OneLiveTask
<1> QED BY ZenonT(60), <1>2 DEF HoldInv, Active, Busy

LEMMA LiveMoves ==
    ASSUME MaxFaults = 0, TypeInv, HoldInv, CalmInv, NEW c \in Coroutines,
           Step(c) \/ RedisError(c), ~Ack(c), Busy(c)
    PROVE  CalmInv'
<1>1. PICK l, t : Moves(c, l, t)
  BY ZenonT(60), StepMoves DEF HoldInv
<1>2. UNCHANGED <<owner, attempt>> \/ Requeue(c)
  BY ZenonT(60), StepMoves DEF HoldInv
<1>3. Page(c) \in Pages /\ co[c].entry \in Entries /\ owner[co[c].entry] \in Workers
  BY ZenonT(60), PageEnqueued
<1>4. /\ \A d \in Coroutines : co'[d] = IF d = c THEN l ELSE co[d]
      /\ l.pc # "idle" /\ l.entry = co[c].entry /\ l.ctx = co[c].ctx
      /\ Local(co[c], pageState[Page(c)], l, t)
      /\ UNCHANGED <<up, batch>>
  BY ZenonT(60), <1>1 DEF Moves, Local, TypeInv, TypeOK
<1>5. /\ co[c].pc \notin {"ftGet", "ftCas", "ack"} /\ co[c].ctx = "page"
      /\ l.pc \notin {"ftGet", "ftCas"}
  <2>1. co[c].pc \notin {"ftGet", "ftCas"} /\ co[c].ctx = "page"
    BY ZenonT(60) DEF CalmInv
  <2>2. co[c].pc # "ack" /\ (co[c].pc \in {"relGet", "relCas"} => co[c].ret \in {"reget", "xadd", "fail"})
    BY ZenonT(60), <1>4 DEF Local, TypeInv, Coherent, CoroutineState
  <2>3. l.pc \notin {"ftGet", "ftCas"}
    BY ZenonT(60), <2>1, <2>2, <1>4 DEF Local, AfterLayout
  <2> QED BY <2>1, <2>2, <2>3
<1>6. \A d \in Coroutines : \A e \in Entries : Holds(d, e) <=> Holds(d, e)'
  BY ZenonT(60), <1>4 DEF Holds, Busy
<1>7. \A d \in Coroutines : Busy(d) <=> Busy(d)'
  BY <1>4 DEF Busy
<1>8. \A e \in Entries : Settling(e) => Settling(e)'
  BY ZenonT(60), <1>4, <1>5 DEF Settling, At
<1>9. \A e \in Entries : owner'[e] \in Workers => \E d \in Coroutines : Holds(d, e)'
  <2>1. \A e \in Entries : owner'[e] \in Workers => owner[e] \in Workers
    <3>1. CASE Requeue(c)
      <4>1. PICK a : XAdd(Page(c), a)
        BY <3>1 DEF Requeue
      <4>2. PICK x \in Entries : owner' = [owner EXCEPT ![x] = New]
        BY <4>1, <1>3, XAddAbsent
      <4>3. \A e \in Entries : owner'[e] \in {owner[e], New}
        BY <4>2 DEF TypeInv, TypeOK
      <4> QED BY ZenonT(60), <4>3, NamesAssumption
    <3> QED BY ZenonT(60), <3>1, <1>2
  <2> QED BY ZenonT(60), <2>1, <1>6 DEF CalmInv
<1>10. OneLiveTask'
  <2>1. CASE UNCHANGED <<owner, attempt>>
    <3>1. \A e \in Entries : (InStream(e)' <=> InStream(e)) /\ (~Settling(e)' => ~Settling(e))
      BY <2>1, <1>8 DEF InStream
    <3> QED BY ZenonT(60), <3>1 DEF CalmInv, OneLiveTask
  <2>2. CASE Requeue(c)
    <3>1. PICK a : XAdd(Page(c), a)
      BY ZenonT(60), <2>2 DEF Requeue
    <3>2. PICK x \in Entries : PageOf(x) = Page(c) /\ owner' = [owner EXCEPT ![x] = New]
      BY ZenonT(60), <3>1, <1>3, XAddAbsent
    <3>3. \A e \in Entries \ {x} : (InStream(e)' <=> InStream(e)) /\ (~Settling(e)' => ~Settling(e))
      BY ZenonT(60), <3>2, <1>8 DEF InStream, TypeInv, TypeOK
    <3>4. /\ InStream(co[c].entry) /\ ~Settling(co[c].entry)
          /\ Page(c) = PageOf(co[c].entry)
      BY ZenonT(60), <1>5, ActiveLive DEF Active, Busy
    <3>5. \A e \in Entries : co[c].entry = e => Settling(e)'
      <4>1. co'[c].pc = "ack" /\ co'[c].entry = co[c].entry
        BY ZenonT(60), <2>2, <1>4 DEF Requeue, Local
      <4> QED BY <4>1 DEF Settling, At
    <3>6. ASSUME NEW e \in Entries \ {x}, InStream(e)', ~Settling(e)', PageOf(e) = PageOf(x)
          PROVE  FALSE
      <4>1. InStream(e) /\ ~Settling(e) /\ PageOf(e) = PageOf(co[c].entry)
        BY ZenonT(60), <3>2, <3>3, <3>4, <3>6
      <4>2. e = co[c].entry
        BY ZenonT(60), <4>1, <3>4, <1>3 DEF CalmInv, OneLiveTask
      <4> QED BY <4>2, <3>5, <3>6
    <3>7. ASSUME NEW d \in Entries \ {x}, NEW e \in Entries \ {x}, InStream(d)', InStream(e)',
                 ~Settling(d)', ~Settling(e)', PageOf(d) = PageOf(e)
          PROVE  d = e
      BY ZenonT(60), <3>3, <3>7 DEF CalmInv, OneLiveTask
    <3>8. ASSUME NEW d \in Entries, NEW e \in Entries, InStream(d)', InStream(e)',
                 ~Settling(d)', ~Settling(e)', PageOf(d) = PageOf(e)
          PROVE  d = e
      BY <3>6, <3>7, <3>8
    <3> QED BY <3>8 DEF OneLiveTask, PageOf
  <2> QED BY <1>2, <2>1, <2>2
<1>11. \A d \in Coroutines :
        /\ co'[d].ctx = "page" /\ co'[d].pc \notin {"ftGet", "ftCas"}
        /\ d[2] = Maintenance => ~Busy(d)'
  BY ZenonT(60), <1>4, <1>5, <1>7 DEF CalmInv
<1> QED BY ZenonT(60), <1>4, <1>9, <1>10, <1>11 DEF CalmInv

LEMMA LiveAck ==
    ASSUME MaxFaults = 0, TypeInv, HoldInv, CalmInv, NEW c \in Coroutines, Ack(c)
    PROVE  CalmInv'
<1>1. Busy(c) /\ Idle.pc = "idle" /\ Idle.ctx = "page" /\ co[c].pc = "ack"
  BY ZenonT(60) DEF Ack, At, Busy, Idle
<1>2. co[c].entry \in Entries /\ owner[co[c].entry] \in Workers
  BY ZenonT(60), <1>1, PageEnqueued
<1>3. /\ owner' = [owner EXCEPT ![co[c].entry] = Gone]
      /\ co' = [co EXCEPT ![c] = Idle]
      /\ UNCHANGED <<batch, up>>
  BY ZenonT(60), NoRaise DEF Ack, Proceed, HoldInv, env
<1>4. /\ \A d \in Coroutines : co'[d] = IF d = c THEN Idle ELSE co[d]
      /\ \A e \in Entries : owner'[e] = IF e = co[c].entry THEN Gone ELSE owner[e]
  BY ZenonT(60), <1>2, <1>3 DEF TypeInv, TypeOK
<1>5. \A e \in Entries : InStream(e)' => InStream(e) /\ e # co[c].entry
  BY ZenonT(60), <1>4, NamesAssumption DEF InStream
<1>6. \A e \in Entries : e # co[c].entry /\ Settling(e) => Settling(e)'
  BY <1>4 DEF Settling, At
<1>7. OneLiveTask'
  <2>1. ASSUME NEW d \in Entries, NEW e \in Entries, InStream(d)', InStream(e)',
               ~Settling(d)', ~Settling(e)', PageOf(d) = PageOf(e)
        PROVE  d = e
    BY ZenonT(60), <2>1, <1>5, <1>6 DEF CalmInv, OneLiveTask
  <2> QED BY <2>1 DEF OneLiveTask, PageOf
<1>8. \A e \in Entries : owner'[e] \in Workers => \E d \in Coroutines : Holds(d, e)'
  <2>1. \A e \in Entries : owner'[e] \in Workers => owner[e] \in Workers /\ e # co[c].entry
    BY ZenonT(60), <1>4, NamesAssumption
  <2>2. \A d \in Coroutines, e \in Entries : Holds(d, e) /\ e # co[c].entry => Holds(d, e)'
    BY ZenonT(60), <1>4 DEF Holds, Busy
  <2> QED BY ZenonT(60), <2>1, <2>2 DEF CalmInv
<1>9. \A d \in Coroutines :
        /\ co'[d].ctx = "page" /\ co'[d].pc \notin {"ftGet", "ftCas"}
        /\ d[2] = Maintenance => ~Busy(d)'
  BY <1>1, <1>4 DEF CalmInv, Busy
<1> QED BY ZenonT(60), <1>3, <1>7, <1>8, <1>9 DEF CalmInv

(* What the invariant speaks of, left alone.                               *)
LEMMA CalmKept ==
    ASSUME CalmInv, UNCHANGED <<owner, co, up, batch>>
    PROVE  CalmInv'
<1>1. /\ \A w \in Workers : up'[w] /\ batch'[w] = {}
      /\ \A c \in Coroutines :
            /\ co'[c].ctx = "page" /\ co'[c].pc \notin {"ftGet", "ftCas"}
            /\ c[2] = Maintenance => ~Busy(c)'
      /\ \A e \in Entries : owner'[e] \in Workers => \E c \in Coroutines : Holds(c, e)'
  BY ZenonT(60) DEF CalmInv, Holds, Busy
<1>2. OneLiveTask'
  BY ZenonT(60) DEF CalmInv, OneLiveTask, InStream, Settling, At
<1> QED BY ZenonT(60), <1>1, <1>2 DEF CalmInv

LEMMA LiveOutside ==
    ASSUME ~LeaseMayLapse, MaxCrashes = 0, TypeInv, HoldInv, CalmInv, Outside
    PROVE  CalmInv'
<1>1. ASSUME NEW w \in Workers, NEW s \in Slots, NEW x \in Entries, Deliver(w, s, x)
      PROVE  CalmInv'
  <2>1. PICK c \in Coroutines : c = <<w, s>>
    BY ZenonT(60) DEF Coroutines
  <2>2. /\ ~Busy(c) /\ owner[x] = New /\ c[2] # Maintenance
        /\ owner' = [owner EXCEPT ![x] = w]
        /\ co' = [co EXCEPT ![c] = Task(x, FALSE)]
        /\ UNCHANGED <<up, batch>>
    BY ZenonT(60), <1>1, <2>1, NamesAssumption DEF Deliver, At, Busy, env
  <2>3. /\ \A d \in Coroutines : co'[d] = IF d = c THEN Task(x, FALSE) ELSE co[d]
        /\ \A e \in Entries : owner'[e] = IF e = x THEN w ELSE owner[e]
    BY <2>2 DEF TypeInv, TypeOK
  <2>4. Task(x, FALSE).pc = "get" /\ Task(x, FALSE).entry = x /\ Task(x, FALSE).ctx = "page"
    BY ZenonT(60) DEF Task, Idle
  <2>5. \A e \in Entries : (InStream(e)' <=> InStream(e)) /\ (Settling(e)' <=> Settling(e))
    <3>1. \A e \in Entries : InStream(e)' <=> InStream(e)
      BY <2>2, <2>3 DEF InStream
    <3>2. \A d \in Coroutines : /\ At(d, "ack")' <=> At(d, "ack")
                                /\ At(d, "ack") => co'[d] = co[d]
      BY ZenonT(60), <2>2, <2>3, <2>4 DEF At, Busy
    <3> QED BY ZenonT(60), <3>1, <3>2 DEF Settling
  <2>6. OneLiveTask'
    <3>1. ASSUME NEW d \in Entries, NEW e \in Entries, InStream(d)', InStream(e)',
                 ~Settling(d)', ~Settling(e)', PageOf(d) = PageOf(e)
          PROVE  d = e
      BY ZenonT(60), <3>1, <2>5 DEF CalmInv, OneLiveTask
    <3> QED BY <3>1 DEF OneLiveTask, PageOf
  <2>7. \A e \in Entries : owner'[e] \in Workers => \E d \in Coroutines : Holds(d, e)'
    <3>1. Holds(c, x)'
      BY ZenonT(60), <2>3, <2>4 DEF Holds, Busy
    <3>2. \A d \in Coroutines, e \in Entries : Holds(d, e) => Holds(d, e)'
      BY ZenonT(60), <2>2, <2>3 DEF Holds, Busy
    <3> QED BY <3>1, <3>2, <2>3 DEF CalmInv
  <2>8. \A d \in Coroutines :
          /\ co'[d].ctx = "page" /\ co'[d].pc \notin {"ftGet", "ftCas"}
          /\ d[2] = Maintenance => ~Busy(d)'
    <3>1. /\ co'[c].ctx = "page" /\ co'[c].pc \notin {"ftGet", "ftCas"}
          /\ c[2] # Maintenance
      BY ZenonT(60), <2>2, <2>3, <2>4
    <3>2. \A d \in Coroutines : d # c => co'[d] = co[d] /\ (Busy(d)' <=> Busy(d))
      BY ZenonT(60), <2>3 DEF Busy
    <3> QED BY ZenonT(60), <3>1, <3>2 DEF CalmInv
  <2> QED BY ZenonT(60), <2>2, <2>6, <2>7, <2>8 DEF CalmInv
<1>2. ASSUME NEW p \in Pages, EnqueuePage(p)
      PROVE  CalmInv'
  <2>1. PICK x \in Entries : PageOf(x) = p /\ owner' = [owner EXCEPT ![x] = New]
    BY <1>2, XAddAbsent DEF EnqueuePage
  <2>2. UNCHANGED <<co, up, batch>> /\ p \in toEnqueue
    BY <1>2 DEF EnqueuePage
  <2>3. \A e \in Entries : owner'[e] = IF e = x THEN New ELSE owner[e]
    BY <2>1 DEF TypeInv, TypeOK
  <2>4. \A e \in Entries : PageOf(e) = p => owner[e] = Absent
    BY ZenonT(60), <2>2 DEF HoldInv
  <2>5. \A e \in Entries : /\ Settling(e)' <=> Settling(e)
                           /\ e # x /\ InStream(e)' => InStream(e) /\ PageOf(e) # p
    <3>1. \A e \in Entries : Settling(e)' <=> Settling(e)
      BY ZenonT(60), <2>2 DEF Settling, At
    <3>2. \A e \in Entries : e # x /\ InStream(e)' => InStream(e) /\ PageOf(e) # p
      BY <2>3, <2>4, NamesAssumption DEF InStream
    <3> QED BY ZenonT(60), <3>1, <3>2
  <2>6. OneLiveTask'
    <3>1. ASSUME NEW d \in Entries, NEW e \in Entries, InStream(d)', InStream(e)',
                 ~Settling(d)', ~Settling(e)', PageOf(d) = PageOf(e)
          PROVE  d = e
      BY ZenonT(60), <3>1, <2>1, <2>5 DEF CalmInv, OneLiveTask
    <3> QED BY <3>1 DEF OneLiveTask, PageOf
  <2>7. \A e \in Entries : owner'[e] \in Workers => owner[e] \in Workers
    BY ZenonT(60), <2>3, NamesAssumption
  <2> QED BY ZenonT(60), <2>2, <2>6, <2>7 DEF CalmInv, Holds, Busy
<1>3. ASSUME NEW p \in Pages, GrowOld(p)
      PROVE  CalmInv'
  <2>1. UNCHANGED <<owner, co, up, batch>>
    BY <1>3 DEF GrowOld, queue
  <2> QED BY <2>1, CalmKept
<1> QED BY <1>1, <1>2, <1>3, CalmOutside

LEMMA CalmInvariant ==
    ASSUME ~LeaseMayLapse, MaxFaults = 0, MaxCrashes = 0
    PROVE  Spec => []CalmInv
<1>1. Init => CalmInv
  BY NamesAssumption DEF Init, CalmInv, Idle, Busy, OneLiveTask, InStream
<1>2. TypeInv /\ HoldInv /\ CalmInv /\ [Next]_vars => CalmInv'
  <2> SUFFICES ASSUME TypeInv, HoldInv, CalmInv, [Next]_vars PROVE CalmInv'
    BY ZenonT(60)
  <2>1. CASE UNCHANGED vars
    <3>1. UNCHANGED <<owner, co, up, batch>>
      BY ZenonT(60), <2>1 DEF vars
    <3> QED BY <3>1, CalmKept
  <2>2. ASSUME NEW c \in Coroutines, Step(c) \/ RedisError(c), ~Ack(c)
        PROVE  CalmInv'
    <3>1. Busy(c)
      BY <2>2 DEF Step, RedisError, GetPage, ReleaseGet, ReleaseCas, RegetPage, ClaimLayout,
           CallLayout, CommitLayout, EmitPartial, ClaimVlm, CallVlm, CommitDone, Degrade,
           Fail, EmitFinal, EmitLast, EmitComplete, ForceGet, ForceCas, Requeue, Recover,
           At, Busy
    <3> QED BY <2>2, <3>1, LiveMoves
  <2> QED BY <2>1, <2>2, NextCases, LiveAck, LiveOutside
<1> QED BY <1>1, <1>2, TypeInvariant, HoldInvariant, PTL DEF Spec

(* While no worker crashes, no live lease lapses and no command raises, a  *)
(* page has at most one task that is not being settled, however often it   *)
(* is requeued or handed off.                                              *)
THEOREM OneTaskPerPage ==
    ASSUME ~LeaseMayLapse, MaxFaults = 0, MaxCrashes = 0
    PROVE  Spec => []OneLiveTask
<1>1. CalmInv => OneLiveTask
  BY ZenonT(60) DEF CalmInv
<1> QED BY <1>1, CalmInvariant, PTL

(* Under the same conditions at most one coroutine of the fleet runs a     *)
(* stage of a page.                                                        *)
THEOREM OneWorkerPerPage ==
    ASSUME ~LeaseMayLapse, MaxFaults = 0, MaxCrashes = 0
    PROVE  Spec => []OneClaimant
<1>1. TypeInv /\ HoldInv /\ CalmInv => OneClaimant
  <2>1. \A c \in Coroutines : Working(c) => Active(c)
    BY DEF Working, Active
  <2> QED BY <2>1, Alone DEF OneClaimant, CalmInv
<1> QED BY <1>1, TypeInvariant, HoldInvariant, CalmInvariant, PTL

-----------------------------------------------------------------------------
(***************************************************************************)
(* The single task of a page knows its state, so a layout is committed     *)
(* once and not thrown away.                                               *)
(***************************************************************************)

LEMMA LocalKnows ==
    ASSUME NEW k \in CoroutineState, Coherent(k), NEW s \in PageState, NEW l, NEW t,
           Local(k, s, l, t), Knows(k, s), k.ctx = "page", k.pc \notin {"ftGet", "ftCas"}
    PROVE  /\ Knows(l, t)
           /\ t \in {"PENDING", "LAYOUT_RUNNING"} => s \in {"PENDING", "LAYOUT_RUNNING"}
           /\ t = "FAILED" => s \in {"PENDING", "LAYOUT_RUNNING", "FAILED"}
           /\ l.pc = "emitPartial" => s = "LAYOUT_RUNNING"
<1>1. CASE k.pc \in {"relGet", "relCas"}
  <2>1. k.ret \in {"reget", "xadd", "fail"}
    BY <1>1 DEF Coherent, CoroutineState
  <2>2. CASE k.pc = "relGet"
    BY ZenonT(60), <2>1, <2>2 DEF Local, Knows, RUNNING_STATES
  <2>3. CASE k.pc = "relCas"
    <3>1. k.seen = s /\ t = RECLAIM_TARGET[s] /\ l.pc = k.ret /\ s \in RUNNING_STATES
      BY ZenonT(60), <2>3 DEF Local, Knows, Coherent
    <3>2. \/ s = "LAYOUT_RUNNING" /\ t = "PENDING"
          \/ s = "VLM_RUNNING" /\ t = "LAYOUT_DONE"
      BY ZenonT(60), <3>1, TableFacts DEF RUNNING_STATES
    <3> QED BY <2>1, <2>3, <3>1, <3>2 DEF Knows
  <2> QED BY <1>1, <2>2, <2>3
<1>2. CASE k.pc \in {"commitDone", "degrade", "fail"}
  <2>1. PICK target \in TERMINAL_STATES :
            /\ k.pc = "commitDone" => target = "DONE"
            /\ k.pc = "degrade" => target = "FALLBACK_DONE"
            /\ k.pc = "fail" => target = "FAILED"
            /\ IF s \in PREDECESSORS[target]
               THEN t = target /\ l.pc \in {"emitFinal", "emitLast"}
               ELSE t = s /\ l.pc = "ack"
    BY ZenonT(60), <1>2 DEF Local
  <2>2. l.pc \in {"emitFinal", "emitLast", "ack"}
    BY ZenonT(60), <2>1
  <2>3. t = s \/ t = target
    BY <2>1
  <2> QED BY ZenonT(60), <1>2, <2>1, <2>2, <2>3 DEF Knows
<1>3. CASE k.pc \notin {"relGet", "relCas", "commitDone", "degrade", "fail"}
  BY ZenonT(60), <1>3 DEF Local, Knows, RUNNING_STATES, AfterLayout
<1> QED BY <1>1, <1>2, <1>3

(* What a fault-free command publishes.                                    *)
LEMMA StepPublishes ==
    ASSUME NEW c \in Coroutines, Step(c), TypeInv
    PROVE  \/ UNCHANGED events /\ ~At(c, "emitPartial")
           \/ events' = Append(events, Partial(Page(c))) /\ At(c, "emitPartial")
           \/ \E ev : events' = Append(events, ev) /\ ev.event # "page.partial"
<1>1. CASE EmitPartial(c)
  BY <1>1 DEF EmitPartial, Publish
<1>2. CASE EmitFinal(c) \/ EmitLast(c) \/ EmitComplete(c)
  <2>1. \E ev \in {Final(Page(c)), JobComplete} : events' = Append(events, ev)
    BY ZenonT(60), <1>2 DEF EmitFinal, EmitLast, EmitComplete, Publish
  <2> QED BY <2>1, EventNames DEF EventNames
<1>3. CASE ~EmitPartial(c) /\ ~EmitFinal(c) /\ ~EmitLast(c) /\ ~EmitComplete(c)
  BY ZenonT(60), <1>3 DEF Step, GetPage, ReleaseGet, ReleaseCas, RegetPage, ClaimLayout, CallLayout,
         CommitLayout, ClaimVlm, CallVlm, CommitDone, Degrade, Fail, ForceGet, ForceCas,
         Requeue, Ack, Recover, Finish, Transition, Observe, At
<1> QED BY <1>1, <1>2, <1>3

(* Publishing a page.partial for the first time, or another event.         *)
LEMMA AppendPartialOnce ==
    ASSUME TypeInv, PartialOnce, NEW x, events' = Append(events, x),
           Announced(x) => x.event # "page.partial"
    PROVE  PartialOnce'
<1>1. /\ DOMAIN events = 1..Len(events) /\ Len(events) \in Nat
      /\ DOMAIN events' = 1..(Len(events) + 1)
      /\ \A i \in 1..Len(events) : events'[i] = events[i]
      /\ events'[Len(events) + 1] = x
  BY DEF TypeInv, TypeOK
<1>2. \A i : i \in DOMAIN events' <=> i \in DOMAIN events \/ i = Len(events) + 1
  BY <1>1
<1>3. SUFFICES ASSUME NEW i \in DOMAIN events', NEW j \in DOMAIN events',
                      events'[i] = events'[j], events'[i].event = "page.partial"
               PROVE  i = j
  BY ZenonT(60) DEF PartialOnce
<1>4. CASE i \in DOMAIN events /\ j \in DOMAIN events
  BY ZenonT(60), <1>1, <1>3, <1>4 DEF PartialOnce
<1>5. CASE i = Len(events) + 1 /\ j \in DOMAIN events
  BY <1>1, <1>3, <1>5 DEF Announced
<1>6. CASE j = Len(events) + 1 /\ i \in DOMAIN events
  BY <1>1, <1>3, <1>6 DEF Announced
<1> QED BY ZenonT(60), <1>2, <1>4, <1>5, <1>6

LEMMA PartialMoves ==
    ASSUME MaxFaults = 0, TypeInv, HoldInv, CalmInv, PartialInv, NEW c \in Coroutines,
           Step(c) \/ RedisError(c), ~Ack(c), Busy(c)
    PROVE  /\ PartialInv'
           /\ \A p \in Pages : pageState[p] \in LayoutCommitted => pageState'[p] # "FAILED"
<1>1. PICK l, t : Moves(c, l, t)
  BY ZenonT(60), StepMoves DEF HoldInv
<1>2. Page(c) \in Pages /\ Step(c)
  BY ZenonT(60), PageEnqueued, NoRaise DEF RedisError, HoldInv
<1> DEFINE k == co[c]
           s == pageState[Page(c)]
<1>3. /\ \A d \in Coroutines : co'[d] = IF d = c THEN l ELSE co[d]
      /\ \A q \in Pages : pageState'[q] = IF q = Page(c) THEN t ELSE pageState[q]
      /\ l.pc # "idle" /\ l.entry = k.entry /\ Local(k, s, l, t)
  BY ZenonT(60), <1>1, <1>2 DEF Moves, Local, TypeInv, TypeOK
<1>4. /\ k \in CoroutineState /\ Coherent(k) /\ s \in PageState /\ Knows(k, s)
      /\ k.ctx = "page" /\ k.pc \notin {"ftGet", "ftCas"}
  BY <1>2 DEF TypeInv, TypeOK, CalmInv, PartialInv
<1> HIDE DEF k, s
<1>5. /\ Knows(l, t)
      /\ t \in {"PENDING", "LAYOUT_RUNNING"} => s \in {"PENDING", "LAYOUT_RUNNING"}
      /\ t = "FAILED" => s \in {"PENDING", "LAYOUT_RUNNING", "FAILED"}
      /\ l.pc = "emitPartial" => s = "LAYOUT_RUNNING"
  BY ZenonT(60), <1>3, <1>4, LocalKnows
<1>6. Active(c)
  BY ZenonT(60), <1>3 DEF Local, Active, k
<1>7. \A d \in Coroutines : Page(d)' = Page(d)
  BY ZenonT(60), <1>3 DEF Page, PageOf, k
<1>8. \A d \in Coroutines : d # c /\ Active(d) => Page(d) \in Pages \ {Page(c)}
  <2>1. \A d \in Coroutines : Active(d) => Page(d) \in Pages
    BY ZenonT(60), PageEnqueued DEF Active, Busy
  <2>2. OneLiveTask
    BY DEF CalmInv
  <2> QED BY ZenonT(60), <2>1, <2>2, <1>6, Alone
<1>9. \A d \in Coroutines : Knows(co[d], pageState[Page(d)])'
  <2>1. ASSUME NEW d \in Coroutines
        PROVE  Knows(co'[d], pageState'[Page(d)])
    <3>1. CASE d = c
      BY ZenonT(60), <3>1, <1>2, <1>3, <1>5
    <3>2. CASE d # c /\ Active(d)
      BY ZenonT(60), <3>2, <1>3, <1>8 DEF PartialInv
    <3>3. CASE d # c /\ ~Active(d)
      BY ZenonT(60), <3>3, <1>3 DEF Knows, Active
    <3> QED BY <3>1, <3>2, <3>3
  <2> QED BY <2>1, <1>7
<1>10. \A q \in Pages : Announced(Partial(q))' =>
            Announced(Partial(q)) \/ (q = Page(c) /\ k.pc = "emitPartial")
  <2>1. CASE UNCHANGED events
    BY ZenonT(60), <2>1 DEF Announced
  <2>2. ASSUME NEW ev, events' = Append(events, ev)
        PROVE  \A q : Announced(Partial(q))' => Announced(Partial(q)) \/ Partial(q) = ev
    BY <2>2, AppendAnnounced DEF Partial
  <2>3. CASE events' = Append(events, Partial(Page(c))) /\ At(c, "emitPartial")
    BY ZenonT(60), <2>2, <2>3, EventNames DEF EventNames, At, k
  <2>4. CASE \E ev : events' = Append(events, ev) /\ ev.event # "page.partial"
    BY <2>2, <2>4, EventNames DEF EventNames
  <2> QED BY ZenonT(60), <2>1, <2>3, <2>4, <1>2, StepPublishes
<1>11. \A q \in Pages :
            pageState'[q] \in {"PENDING", "LAYOUT_RUNNING"} => ~Announced(Partial(q))'
  <2>1. \A q \in Pages : pageState'[q] \in {"PENDING", "LAYOUT_RUNNING"}
                            => pageState[q] \in {"PENDING", "LAYOUT_RUNNING"}
    BY ZenonT(60), <1>3, <1>5 DEF s
  <2>2. k.pc = "emitPartial" => s = "LAYOUT_DONE"
    BY <1>4 DEF Knows
  <2> QED BY ZenonT(60), <2>1, <2>2, <1>10 DEF PartialInv, s
<1>12. \A d \in Coroutines : At(d, "emitPartial")' => ~Announced(Partial(Page(d)))'
  <2>1. ASSUME NEW d \in Coroutines, co'[d].pc = "emitPartial", NEW q, q = Page(d)
        PROVE  q \in Pages /\ ~Announced(Partial(q))'
    <3>1. CASE d = c
      <4>1. q = Page(c) /\ s = "LAYOUT_RUNNING"
        BY ZenonT(60), <2>1, <3>1, <1>3, <1>5
      <4>2. k.pc # "emitPartial"
        BY ZenonT(60), <4>1, <1>4 DEF Knows
      <4>3. ~Announced(Partial(q))
        BY ZenonT(60), <4>1, <1>2 DEF PartialInv, s
      <4> QED BY <4>1, <4>2, <4>3, <1>2, <1>10
    <3>2. CASE d # c
      <4>1. co[d].pc = "emitPartial" /\ Active(d)
        BY <2>1, <3>2, <1>3 DEF Active
      <4>2. q \in Pages \ {Page(c)}
        BY ZenonT(60), <2>1, <3>2, <4>1, <1>8
      <4>3. ~Announced(Partial(q))
        BY ZenonT(60), <2>1, <4>1 DEF PartialInv, At
      <4> QED BY ZenonT(60), <4>2, <4>3, <1>10
    <3> QED BY <3>1, <3>2
  <2> QED BY ZenonT(60), <2>1, <1>7 DEF At, Partial, Announced
<1>13. PartialOnce'
  <2>1. CASE UNCHANGED events
    BY ZenonT(60), <2>1 DEF PartialInv, PartialOnce
  <2>2. CASE events' = Append(events, Partial(Page(c))) /\ At(c, "emitPartial")
    BY <2>2, AppendPartialOnce DEF PartialInv
  <2>3. CASE \E ev : events' = Append(events, ev) /\ ev.event # "page.partial"
    BY <2>3, AppendPartialOnce DEF PartialInv
  <2> QED BY <2>1, <2>2, <2>3, <1>2, StepPublishes
<1>14. \A p \in Pages : pageState[p] \in LayoutCommitted => pageState'[p] # "FAILED"
  BY ZenonT(60), <1>3, <1>5 DEF LayoutCommitted, s
<1> QED BY ZenonT(60), <1>9, <1>11, <1>12, <1>13, <1>14 DEF PartialInv

LEMMA PartialAck ==
    ASSUME MaxFaults = 0, TypeInv, HoldInv, PartialInv, NEW c \in Coroutines, Ack(c)
    PROVE  PartialInv' /\ UNCHANGED pageState
<1>1. co' = [co EXCEPT ![c] = Idle] /\ UNCHANGED <<pageState, events>>
  BY ZenonT(60), NoRaise DEF Ack, Proceed, HoldInv, store
<1>2. /\ \A d \in Coroutines : co'[d] = IF d = c THEN Idle ELSE co[d]
      /\ Idle.pc = "idle"
  BY <1>1 DEF TypeInv, TypeOK, Idle
<1>3. \A d \in Coroutines : d # c => Page(d)' = Page(d)
  BY ZenonT(60), <1>2 DEF Page, PageOf
<1>4. \A d \in Coroutines : Knows(co[d], pageState[Page(d)])'
  BY <1>1, <1>2, <1>3 DEF PartialInv, Knows
<1>5. \A d \in Coroutines : At(d, "emitPartial")' => ~Announced(Partial(Page(d)))'
  BY ZenonT(60), <1>1, <1>2, <1>3 DEF PartialInv, At, Announced, Partial
<1> QED BY ZenonT(60), <1>1, <1>4, <1>5 DEF PartialInv, PartialOnce, Announced, Partial

LEMMA PartialOutside ==
    ASSUME ~LeaseMayLapse, MaxCrashes = 0, TypeInv, HoldInv, CalmInv, PartialInv, Outside
    PROVE  PartialInv'
<1>1. UNCHANGED <<pageState, events>>
  BY ZenonT(60), OutsideEffect
<1>2. \A d \in Coroutines : co'[d] = co[d] \/ co'[d].pc = "get"
  <2>1. ASSUME NEW w \in Workers, NEW s \in Slots, NEW x \in Entries, Deliver(w, s, x)
        PROVE  \A d \in Coroutines : co'[d] = co[d] \/ co'[d].pc = "get"
    <3>1. co' = [co EXCEPT ![<<w, s>>] = Task(x, FALSE)] /\ Task(x, FALSE).pc = "get"
      BY <2>1 DEF Deliver, Task, Idle
    <3> QED BY ZenonT(60), <3>1 DEF TypeInv, TypeOK
  <2>2. ASSUME NEW p \in Pages, EnqueuePage(p) \/ GrowOld(p)
        PROVE  UNCHANGED co
    BY <2>2 DEF EnqueuePage, GrowOld
  <2> QED BY ZenonT(60), <2>1, <2>2, CalmOutside
<1>3. \A d \in Coroutines : co'[d] = co[d] => Page(d)' = Page(d)
  BY DEF Page, PageOf
<1>4. \A d \in Coroutines : Knows(co[d], pageState[Page(d)])'
  <2>1. ASSUME NEW d \in Coroutines
        PROVE  Knows(co'[d], pageState'[Page(d)'])
    <3>1. CASE co'[d] = co[d]
      BY ZenonT(60), <3>1, <1>1, <1>3 DEF PartialInv
    <3>2. CASE co'[d].pc = "get"
      BY ZenonT(60), <3>2 DEF Knows
    <3> QED BY ZenonT(60), <3>1, <3>2, <1>2
  <2> QED BY ZenonT(60), <2>1
<1>5. \A d \in Coroutines : At(d, "emitPartial")' => ~Announced(Partial(Page(d)))'
  BY ZenonT(60), <1>1, <1>2, <1>3 DEF PartialInv, At, Announced, Partial
<1> QED BY ZenonT(60), <1>1, <1>4, <1>5 DEF PartialInv, PartialOnce, Announced, Partial

(* The two facts about one step that both theorems below rest on.          *)
LEMMA PartialNext ==
    ASSUME ~LeaseMayLapse, MaxFaults = 0, MaxCrashes = 0,
           TypeInv, HoldInv, CalmInv, PartialInv, [Next]_vars
    PROVE  /\ PartialInv'
           /\ \A p \in Pages : pageState[p] \in LayoutCommitted => pageState'[p] # "FAILED"
<1>1. UNCHANGED pageState =>
        \A p \in Pages : pageState[p] \in LayoutCommitted => pageState'[p] # "FAILED"
  BY DEF LayoutCommitted
<1>2. CASE UNCHANGED vars
  <2>1. UNCHANGED <<pageState, events, co>>
    BY <1>2 DEF vars, store
  <2>2. PartialInv'
    BY ZenonT(60), <2>1 DEF PartialInv, PartialOnce, Announced, Partial, Page, PageOf, At, Knows
  <2> QED BY <2>1, <2>2, <1>1
<1>3. ASSUME NEW c \in Coroutines, Step(c) \/ RedisError(c), ~Ack(c)
      PROVE  /\ PartialInv'
             /\ \A p \in Pages :
                    pageState[p] \in LayoutCommitted => pageState'[p] # "FAILED"
  <2>1. Busy(c)
    BY <1>3 DEF Step, RedisError, GetPage, ReleaseGet, ReleaseCas, RegetPage, ClaimLayout,
         CallLayout, CommitLayout, EmitPartial, ClaimVlm, CallVlm, CommitDone, Degrade,
         Fail, EmitFinal, EmitLast, EmitComplete, ForceGet, ForceCas, Requeue, Recover,
         At, Busy
  <2> QED BY ZenonT(60), <1>3, <2>1, PartialMoves
<1>4. ASSUME NEW c \in Coroutines, Ack(c)
      PROVE  PartialInv' /\ UNCHANGED pageState
  BY <1>4, PartialAck
<1>5. CASE Outside
  <2>1. PartialInv'
    BY ZenonT(60), <1>5, PartialOutside
  <2>2. UNCHANGED pageState
    BY <1>5, OutsideEffect
  <2> QED BY <2>1, <2>2, <1>1
<1> QED BY <1>1, <1>2, <1>3, <1>4, <1>5, NextCases

LEMMA PartialInvariant ==
    ASSUME ~LeaseMayLapse, MaxFaults = 0, MaxCrashes = 0
    PROVE  Spec => []PartialInv
<1>1. Init => PartialInv
  BY DEF Init, PartialInv, PartialOnce, Announced, Idle, Knows, At
<1>2. TypeInv /\ HoldInv /\ CalmInv /\ PartialInv /\ [Next]_vars => PartialInv'
  BY PartialNext
<1> QED BY <1>1, <1>2, TypeInvariant, HoldInvariant, CalmInvariant, PTL DEF Spec

(* While no worker crashes, no live lease lapses and no command raises, a  *)
(* subscriber is told of a page's layout at most once: a requeue or a      *)
(* hand-off resumes after the committed layout instead of repeating it.    *)
THEOREM LayoutAnnouncedOnce ==
    ASSUME ~LeaseMayLapse, MaxFaults = 0, MaxCrashes = 0
    PROVE  Spec => []PartialOnce
<1>1. PartialInv => PartialOnce
  BY DEF PartialInv
<1> QED BY <1>1, PartialInvariant, PTL

(* Under the same conditions a page whose layout is committed is never     *)
(* failed: every path that gives it up degrades it to its layout instead.  *)
THEOREM LayoutIsNotThrownAway ==
    ASSUME ~LeaseMayLapse, MaxFaults = 0, MaxCrashes = 0
    PROVE  Spec => NoFailureAfterLayout
<1>1. TypeInv /\ HoldInv /\ CalmInv /\ PartialInv /\ [Next]_vars
        => [\A p \in Pages : pageState[p] \in LayoutCommitted
                => pageState'[p] # "FAILED"]_pageState
  BY PartialNext
<1> QED BY <1>1, TypeInvariant, HoldInvariant, CalmInvariant, PartialInvariant, PTL
        DEF Spec, NoFailureAfterLayout

=============================================================================

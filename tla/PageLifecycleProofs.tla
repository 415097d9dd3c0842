------------------------- MODULE PageLifecycleProofs -------------------------
(***************************************************************************)
(* The safety theorems of PageLifecycle that hold with any number of       *)
(* crashes, lapsed leases and lost replies: the requeue budget, the        *)
(* completion counter is exact, the events follow the commits and are      *)
(* published once, and the orchestrator implements JobContract.            *)
(* From PageLifecycleTasks it uses type correctness.                       *)
(***************************************************************************)
EXTENDS PageLifecycleTasks

(* The provers a leaf that names none is given to, and in which order.     *)
USE SMT, ZenonT(30), SMTT(10), SMTT(20)

-----------------------------------------------------------------------------
(***************************************************************************)
(* The requeue budget bounds the attempts of every task.                   *)
(***************************************************************************)

(* One more attempt is within the budget.                                  *)
Affordable(e) == attempt[e] + 1 < MaxRequeues

(* The labels of process_page proper, where no reaper ever gets.           *)
PageOnly == {"reget", "claimLayout", "layout", "commitLayout", "emitPartial",
             "handoff", "claimVlm", "vlm"}

(* A coroutine that is going to requeue its task can afford it: because    *)
(* the task was not on its final attempt when _handle_page started it, or  *)
(* because _recover found it not exhausted.                                *)
Funded(k) ==
    k.pc # "idle" =>
        /\ owner[k.entry] # Absent
        /\ k.ctx = "page" /\ ~k.final => Affordable(k.entry)
        /\ k.pc \in PageOnly => k.ctx = "page"
        /\ k.pc = "xadd" => Affordable(k.entry)
        /\ k.pc \in {"relGet", "relCas"} =>
            /\ k.ret = "xadd" => Affordable(k.entry)
            /\ k.ret = "reget" => k.ctx = "page"

BudgetInv ==
    /\ RequeueBudget
    /\ \A c \in Coroutines : Funded(co[c])
    /\ \A w \in Workers : \A e \in batch[w] : owner[e] # Absent

LEMMA GotoFunded ==
    ASSUME NEW c \in Coroutines, Coherent(co[c]), co[c].pc # "idle", Funded(co[c]),
           NEW l \in Plain \ {"xadd"}, l \in PageOnly => co[c].ctx = "page"
    PROVE  Funded(Goto(c, l))
BY DEF Funded, Goto, Coherent, CoroutineState, Plain

LEMMA IdleFunded == Funded(Idle)
BY DEF Funded, Idle

LEMMA ReleaseFunded ==
    ASSUME NEW c \in Coroutines, Coherent(co[c]), co[c].pc # "idle", Funded(co[c]),
           NEW r, r = "xadd" => Affordable(co[c].entry), r = "reget" => co[c].ctx = "page"
    PROVE  Funded([co[c] EXCEPT !.pc = "relGet", !.ret = r])
BY DEF Funded, Coherent, CoroutineState, PageOnly

LEMMA RaisedFunded ==
    ASSUME NEW c \in Coroutines, Coherent(co[c]), co[c].pc # "idle", Funded(co[c])
    PROVE  Funded(Raised(c))
<1>1. /\ AfterLayout \in Plain \ {"xadd"} /\ "ack" \in Plain \ {"xadd"}
      /\ "fail" \in Plain \ {"xadd"}
      /\ "ack" \notin PageOnly /\ "fail" \notin PageOnly
  BY DEF AfterLayout, Plain, Labels, PageOnly
<1>2. co[c].pc = "emitPartial" => Funded(Goto(c, AfterLayout))
  <2>1. co[c].pc = "emitPartial" => co[c].ctx = "page"
    BY DEF Funded, PageOnly
  <2> QED BY <2>1, <1>1, GotoFunded
<1>3. Funded(Goto(c, "ack")) /\ Funded(Goto(c, "fail"))
  BY <1>1, GotoFunded
<1>4. co[c].ctx = "page" =>
        Funded([co[c] EXCEPT !.ctx = "net", !.ret = "xadd",
                             !.pc = IF co[c].final THEN "ftGet" ELSE "relGet"])
  BY DEF Funded, Coherent, CoroutineState, PageOnly
<1> QED BY <1>2, <1>3, <1>4, IdleFunded DEF Raised

LEMMA ProceedFunded ==
    ASSUME TypeInv, BudgetInv, NEW c \in Coroutines, co[c].pc # "idle",
           NEW k, Funded(k), Proceed(c, k)
    PROVE  /\ \A d \in Coroutines : Funded(co'[d])
           /\ \A w \in Workers : batch'[w] \subseteq batch[w]
<1>1. Funded(Raised(c))
  BY RaisedFunded DEF TypeInv, BudgetInv
<1>2. PICK r : Funded(r) /\ co' = [co EXCEPT ![c] = r]
  BY <1>1 DEF Proceed, Raise
<1>3. \A d \in Coroutines : co'[d] = IF d = c THEN r ELSE co[d]
  BY <1>2 DEF TypeInv, TypeOK
<1>4. \A d \in Coroutines : Funded(co'[d])
  BY <1>2, <1>3 DEF BudgetInv
<1>5. \A w \in Workers : batch'[w] \subseteq batch[w]
  BY DEF Proceed, Raise, TypeInv, TypeOK
<1> QED BY <1>4, <1>5

(* What every step leaves alone: an entry once added keeps its attempts    *)
(* and is never unadded.                                                   *)
Kept == \A e \in Entries : owner[e] # Absent => owner'[e] # Absent /\ attempt'[e] = attempt[e]

LEMMA FundedKept ==
    ASSUME Kept, NEW k, Coherent(k), Funded(k)
    PROVE  Funded(k)'
BY DEF Kept, Coherent, Funded, Affordable

LEMMA XAddKept ==
    ASSUME TypeInv, RequeueBudget, NEW p \in Pages, NEW a \in Nat, a < MaxRequeues, XAdd(p, a)
    PROVE  Kept /\ RequeueBudget'
<1>1. PICK x \in Entries : /\ owner[x] = Absent
                           /\ owner' = [owner EXCEPT ![x] = New]
                           /\ attempt' = [attempt EXCEPT ![x] = a]
  BY ZenonT(60) DEF XAdd, Entries
<1>2. \A e \in Entries : /\ owner'[e] = IF e = x THEN New ELSE owner[e]
                         /\ attempt'[e] = IF e = x THEN a ELSE attempt[e]
  BY <1>1 DEF TypeInv, TypeOK
<1> QED BY <1>1, <1>2 DEF Kept, RequeueBudget

(* Each command of a coroutine leads to a funded continuation.             *)
LEMMA StepFunded ==
    ASSUME TypeInv, BudgetInv, NEW c \in Coroutines, Step(c) \/ RedisError(c)
    PROVE  /\ \A d \in Coroutines : Funded(co'[d])
           /\ \A w \in Workers : batch'[w] \subseteq batch[w]
<1> USE DEF At
<1>0. co[c].pc # "idle"
  BY DEF Step, RedisError, GetPage, ReleaseGet, ReleaseCas, RegetPage, ClaimLayout,
         CallLayout, CommitLayout, EmitPartial, ClaimVlm, CallVlm, CommitDone, Degrade,
         Fail, EmitFinal, EmitLast, EmitComplete, ForceGet, ForceCas, Requeue, Ack, Recover
<1>1. Coherent(co[c]) /\ Funded(co[c]) /\ co[c] \in CoroutineState /\ co[c].entry \in Entries
  BY <1>0 DEF TypeInv, BudgetInv, Coherent
<1> SUFFICES \E k : Funded(k) /\ Proceed(c, k)
  BY <1>0, ProceedFunded
<1>2. \A l \in Plain \ ({"xadd"} \cup PageOnly) : Funded(Goto(c, l))
  BY <1>0, <1>1, GotoFunded
<1>3. co[c].ctx = "page" => \A l \in Plain \ {"xadd"} : Funded(Goto(c, l))
  BY ZenonT(60), <1>0, <1>1, GotoFunded
<1>4. /\ "claimLayout" \in Plain \ {"xadd"} /\ "claimVlm" \in Plain \ {"xadd"}
      /\ "layout" \in Plain \ {"xadd"} /\ "vlm" \in Plain \ {"xadd"}
      /\ "commitLayout" \in Plain \ {"xadd"} /\ "emitPartial" \in Plain \ {"xadd"}
      /\ AfterLayout \in Plain \ {"xadd"} /\ \A s : Stage(s) \in Plain \ {"xadd"}
  BY DEF Plain, Labels, AfterLayout, Stage
<1>5. {"ack", "fail", "commitDone", "degrade", "ftGet", "emitFinal", "emitLast", "emitComplete"}
        \subseteq Plain \ ({"xadd"} \cup PageOnly)
  BY DEF Plain, Labels, PageOnly
<1>6. co[c].pc \in PageOnly => co[c].ctx = "page"
  BY <1>0, <1>1 DEF Funded
<1>7. co[c].pc \in PageOnly => Funded(Saturated(c))
  <2>1. co[c].pc \in PageOnly /\ ~co[c].final => Affordable(co[c].entry)
    BY ZenonT(60), <1>0, <1>1, <1>6 DEF Funded
  <2> QED BY ZenonT(60), <2>1, <1>0, <1>1, <1>6, ReleaseFunded DEF Saturated
<1>8. CASE GetPage(c)
  <2>1. Funded([co[c] EXCEPT !.pc = "relGet", !.ret = "reget"])
    BY ZenonT(60), <1>0, <1>1, <1>8, ReleaseFunded DEF GetPage
  <2>2. Funded(Goto(c, "ack")) /\ \A s : Funded(Goto(c, Stage(s)))
    BY ZenonT(60), <1>2, <1>3, <1>4, <1>5, <1>8 DEF GetPage
  <2> QED BY ZenonT(60), <2>1, <2>2, <1>8 DEF GetPage, Observe
<1>9. CASE ReleaseGet(c) \/ ReleaseCas(c)
  <2>1. \A s : co[c].pc = "relGet" => Funded([co[c] EXCEPT !.pc = "relCas", !.seen = s])
    BY ZenonT(60), <1>0, <1>1 DEF Funded, CoroutineState, PageOnly
  <2>2. co[c].pc = "relGet" => Funded([co[c] EXCEPT !.pc = co[c].ret, !.ret = "idle"])
    BY ZenonT(60), <1>0, <1>1 DEF Funded, CoroutineState, PageOnly
  <2>3. co[c].pc = "relCas" =>
            Funded([co[c] EXCEPT !.pc = co[c].ret, !.ret = "idle", !.seen = "PENDING"])
    BY ZenonT(60), <1>0, <1>1 DEF Funded, CoroutineState, PageOnly
  <2>4. CASE ReleaseGet(c)
    BY ZenonT(60), <2>1, <2>2, <2>4 DEF ReleaseGet, Observe
  <2>5. CASE ReleaseCas(c)
    BY ZenonT(60), <2>3, <2>5 DEF ReleaseCas, Transition
  <2> QED BY ZenonT(60), <1>9, <2>4, <2>5
<1>10. CASE RegetPage(c)
  <2>1. Funded(Goto(c, "ack")) /\ \A s : Funded(Goto(c, Stage(s)))
    BY ZenonT(60), <1>2, <1>3, <1>4, <1>5, <1>6, <1>10 DEF RegetPage, PageOnly
  <2> QED BY ZenonT(60), <2>1, <1>10 DEF RegetPage, Observe
<1>11. CASE ClaimLayout(c) \/ CommitLayout(c) \/ ClaimVlm(c)
  <2>1. co[c].ctx = "page"
    BY <1>6, <1>11 DEF ClaimLayout, CommitLayout, ClaimVlm, PageOnly
  <2>2. /\ Funded(Goto(c, "ack")) /\ Funded(Goto(c, "layout")) /\ Funded(Goto(c, "vlm"))
        /\ Funded(Goto(c, "emitPartial")) /\ Funded(Goto(c, AfterLayout))
    BY ZenonT(60), <2>1, <1>2, <1>3, <1>4, <1>5
  <2> QED BY ZenonT(60), <2>2, <1>11 DEF ClaimLayout, CommitLayout, ClaimVlm, Transition
<1>12. CASE CallLayout(c) \/ CallVlm(c)
  <2>1. co[c].pc \in PageOnly /\ co[c].ctx = "page"
    BY <1>6, <1>12 DEF CallLayout, CallVlm, PageOnly
  <2>2. /\ Funded(Goto(c, "commitLayout")) /\ Funded(Goto(c, "fail")) /\ Funded(Saturated(c))
        /\ Funded(Goto(c, "commitDone")) /\ Funded(Goto(c, "degrade"))
    BY ZenonT(60), <2>1, <1>2, <1>3, <1>4, <1>5, <1>7
  <2>3. \E k : Funded(k) /\ co' = [co EXCEPT ![c] = k]
    BY <2>2, <1>12 DEF CallLayout, CallVlm
  <2> QED BY ZenonT(60), <2>3, <1>12 DEF CallLayout, CallVlm, Proceed
<1>13. CASE CommitDone(c) \/ Degrade(c) \/ Fail(c) \/ ForceCas(c)
  <2>1. PICK t, from : Finish(c, t, from)
    BY <1>13 DEF CommitDone, Degrade, Fail, ForceCas
  <2>2. /\ Funded(Goto(c, "ack"))
        /\ Funded(Goto(c, IF doneCount + 1 >= Total THEN "emitLast" ELSE "emitFinal"))
    BY <1>2, <1>5
  <2> QED BY <2>1, <2>2 DEF Finish, Transition
<1>14. CASE EmitPartial(c) \/ EmitFinal(c) \/ EmitLast(c) \/ EmitComplete(c)
  <2>1. /\ Funded(Goto(c, "ack")) /\ Funded(Goto(c, "emitComplete"))
        /\ At(c, "emitPartial") => Funded(Goto(c, AfterLayout))
    BY ZenonT(60), <1>2, <1>3, <1>4, <1>5, <1>6 DEF PageOnly
  <2> QED BY <2>1, <1>14 DEF EmitPartial, EmitFinal, EmitLast, EmitComplete, Publish
<1>15. CASE ForceGet(c)
  <2>1. \A s : Funded([co[c] EXCEPT !.pc = "ftCas", !.seen = s])
    BY ZenonT(60), <1>0, <1>1 DEF Funded, CoroutineState, PageOnly
  <2> QED BY ZenonT(60), <2>1, <1>2, <1>5, <1>15 DEF ForceGet, Observe
<1>16. CASE Requeue(c) \/ Ack(c)
  BY ZenonT(60), <1>2, <1>5, <1>16, IdleFunded DEF Requeue, Ack
<1>17. CASE Recover(c)
  <2>1. ~Exhausted(co[c].entry) => Affordable(co[c].entry)
    BY <1>1, BoundsAssumption DEF Exhausted, Affordable, TypeInv, TypeOK
  <2>2. ~Exhausted(co[c].entry) => Funded([co[c] EXCEPT !.pc = "relGet", !.ret = "xadd"])
    BY ZenonT(60), <2>1, <1>0, <1>1, ReleaseFunded
  <2>3. Funded(Goto(c, "ack")) /\ Funded(Goto(c, "ftGet"))
    BY ZenonT(60), <1>2, <1>5
  <2> QED BY ZenonT(60), <2>2, <2>3, <1>17 DEF Recover, Observe
<1>18. CASE RedisError(c)
  BY <1>18, IdleFunded DEF RedisError, Proceed
<1> QED BY ZenonT(60), <1>8, <1>9, <1>10, <1>11, <1>12, <1>13, <1>14, <1>15, <1>16, <1>17, <1>18 DEF Step

LEMMA StepBudget ==
    ASSUME TypeInv, BudgetInv, NEW c \in Coroutines, Step(c) \/ RedisError(c)
    PROVE  Kept /\ RequeueBudget'
<1>1. CASE Requeue(c)
  <2>1. co[c].pc # "idle"
    BY <1>1 DEF Requeue
  <2>2. co[c].entry \in Entries /\ Page(c) \in Pages /\ Funded(co[c])
    BY ZenonT(60), <2>1, PageInPages DEF BudgetInv
  <2> DEFINE a == attempt[co[c].entry] + (IF At(c, "xadd") THEN 1 ELSE 0)
  <2>3. a \in Nat /\ a < MaxRequeues
    BY <2>1, <2>2 DEF Funded, Affordable, At, BudgetInv, RequeueBudget, TypeInv, TypeOK
  <2> QED BY ZenonT(60), <2>2, <2>3, <1>1, XAddKept DEF Requeue, BudgetInv
<1>2. CASE Ack(c)
  <2>1. UNCHANGED attempt /\ \A e \in Entries : owner'[e] \in {owner[e], Gone}
    BY <1>2 DEF Ack, TypeInv, TypeOK
  <2> QED BY <2>1, NamesAssumption DEF Kept, BudgetInv, RequeueBudget
<1>3. CASE ~Requeue(c) /\ ~Ack(c)
  <2>1. UNCHANGED queue
    BY <1>3 DEF Step, RedisError, GetPage, ReleaseGet, ReleaseCas, RegetPage, ClaimLayout,
         CallLayout, CommitLayout, EmitPartial, ClaimVlm, CallVlm, CommitDone, Degrade,
         Fail, EmitFinal, EmitLast, EmitComplete, ForceGet, ForceCas, Recover,
         Observe, Transition, Finish, Publish
  <2> QED BY ZenonT(60), <2>1 DEF queue, Kept, BudgetInv, RequeueBudget
<1> QED BY ZenonT(60), <1>1, <1>2, <1>3

LEMMA TaskFunded ==
    ASSUME TypeInv, NEW e \in Entries, owner[e] # Absent, NEW own \in BOOLEAN
    PROVE  Funded(Task(e, own))
<1>1. ~FinalAttempt(e) => Affordable(e)
  BY BoundsAssumption DEF FinalAttempt, Affordable, TypeInv, TypeOK
<1> QED BY <1>1 DEF Funded, Task, Idle, PageOnly

(* The steps outside the coroutines add and move entries, and start tasks. *)
LEMMA OutsideBudget ==
    ASSUME TypeInv, BudgetInv, Outside
    PROVE  /\ Kept /\ RequeueBudget'
           /\ \A c \in Coroutines : Funded(co'[c])
           /\ \A w \in Workers : \A e \in batch'[w] : owner[e] # Absent
<1>0. \A w \in Workers : w # Absent /\ w # New
  BY NamesAssumption
<1>1. ASSUME NEW w \in Workers, NEW s \in Slots, NEW e \in Entries, Deliver(w, s, e)
      PROVE  /\ Kept /\ UNCHANGED <<attempt, batch>>
             /\ \A c \in Coroutines : Funded(co'[c])
  <2>1. owner[e] # Absent /\ Funded(Task(e, FALSE))
    BY ZenonT(60), <1>1, TaskFunded, NamesAssumption DEF Deliver
  <2>2. \A c \in Coroutines : co'[c] = co[c] \/ co'[c] = Task(e, FALSE)
    BY ZenonT(60), <1>1 DEF Deliver, TypeInv, TypeOK
  <2>3. UNCHANGED <<attempt, batch>> /\ \A d \in Entries : owner'[d] \in {owner[d], w}
    BY <1>1 DEF Deliver, TypeInv, TypeOK
  <2> QED BY ZenonT(60), <2>1, <2>2, <2>3, <1>0 DEF Kept, BudgetInv
<1>2. ASSUME NEW w \in Workers, NEW e \in Entries, RecoverNext(w, e)
      PROVE  /\ UNCHANGED <<owner, attempt>>
             /\ \A c \in Coroutines : Funded(co'[c])
             /\ \A v \in Workers : batch'[v] \subseteq batch[v]
  <2> DEFINE r == [Idle EXCEPT !.pc = "get", !.entry = e, !.ctx = "reap"]
  <2>1. owner[e] # Absent
    BY <1>2 DEF RecoverNext, BudgetInv
  <2>2. Funded(r)
    BY <2>1 DEF Funded, Idle, PageOnly
  <2>3. \A c \in Coroutines : co'[c] = co[c] \/ co'[c] = r
    BY <1>2 DEF RecoverNext, TypeInv, TypeOK
  <2>4. \A v \in Workers : batch'[v] \subseteq batch[v]
    BY <1>2 DEF RecoverNext, TypeInv, TypeOK
  <2>5. UNCHANGED <<owner, attempt>>
    BY <1>2 DEF RecoverNext, queue
  <2> HIDE DEF r
  <2> QED BY <2>2, <2>3, <2>4, <2>5 DEF BudgetInv
<1>3. ASSUME NEW w \in Workers, Scan(w)
      PROVE  /\ Kept /\ UNCHANGED <<attempt, co>>
             /\ \A v \in Workers : \A e \in batch'[v] : owner[e] # Absent
  <2>1. PICK S \in SUBSET Orphans(w) :
            /\ owner' = [e \in Entries |-> IF e \in S THEN w ELSE owner[e]]
            /\ batch' = [batch EXCEPT ![w] = S]
    BY ZenonT(60), <1>3 DEF Scan
  <2>2. \A e \in S : owner[e] # Absent
    BY <2>1, <1>0 DEF Orphans
  <2>3. \A v \in Workers : batch'[v] \in {S, batch[v]}
    BY <2>1 DEF TypeInv, TypeOK
  <2>4. UNCHANGED <<attempt, co>>
    BY <1>3 DEF Scan
  <2> QED BY ZenonT(60), <2>1, <2>2, <2>3, <2>4, <1>0 DEF Kept, BudgetInv
<1>4. ASSUME NEW w \in Workers, RenewLeases(w)
      PROVE  Kept /\ UNCHANGED <<attempt, co, batch>>
  BY <1>0, <1>4 DEF RenewLeases, Kept
<1>5. ASSUME NEW w \in Workers, Crash(w)
      PROVE  /\ UNCHANGED <<owner, attempt>>
             /\ \A c \in Coroutines : Funded(co'[c])
             /\ \A v \in Workers : batch'[v] \subseteq batch[v]
  <2>1. \A c \in Coroutines : co'[c] = co[c] \/ co'[c] = Idle
    BY <1>5 DEF Crash
  <2>2. \A v \in Workers : batch'[v] \subseteq batch[v]
    BY <1>5 DEF Crash, TypeInv, TypeOK
  <2>3. UNCHANGED <<owner, attempt>>
    BY <1>5 DEF Crash, queue
  <2> QED BY ZenonT(60), <2>1, <2>2, <2>3, IdleFunded DEF BudgetInv
<1>6. ASSUME NEW w \in Workers, Restart(w)
      PROVE  /\ UNCHANGED <<owner, attempt, batch>>
             /\ \A c \in Coroutines : Funded(co'[c])
  <2>1. PICK f \in [Slots -> OwnPending(w) \cup {NoEntry}] :
            co' = [c \in Coroutines |->
                    IF c[1] = w /\ c[2] \in Slots /\ f[c[2]] # NoEntry
                    THEN Task(f[c[2]], TRUE) ELSE co[c]]
    BY ZenonT(60), <1>6 DEF Restart
  <2>2. \A s \in Slots : f[s] # NoEntry => f[s] \in Entries /\ owner[f[s]] # Absent
    BY <2>1, <1>0 DEF OwnPending
  <2>3. \A s \in Slots : f[s] # NoEntry => Funded(Task(f[s], TRUE))
    BY ZenonT(60), <2>2, TaskFunded
  <2>4. \A c \in Coroutines : Funded(co'[c])
    BY ZenonT(60), <2>1, <2>3 DEF BudgetInv
  <2>5. UNCHANGED <<owner, attempt, batch>>
    BY <1>6 DEF Restart, queue
  <2> QED BY <2>4, <2>5
<1>7. ASSUME NEW p \in Pages, EnqueuePage(p)
      PROVE  Kept /\ RequeueBudget' /\ UNCHANGED <<co, batch>>
  BY <1>7, XAddKept, BoundsAssumption DEF EnqueuePage, BudgetInv
<1>8. ASSUME NEW p \in Pages, GrowOld(p)
      PROVE  UNCHANGED <<owner, attempt, co, batch>>
  BY <1>8 DEF GrowOld, queue
<1>9. /\ UNCHANGED <<owner, attempt>> => Kept
      /\ UNCHANGED attempt => RequeueBudget'
      /\ UNCHANGED co => \A c \in Coroutines : Funded(co'[c])
      /\ (\A w \in Workers : batch'[w] \subseteq batch[w]) =>
            \A w \in Workers : \A e \in batch'[w] : owner[e] # Absent
      /\ UNCHANGED batch => \A w \in Workers : \A e \in batch'[w] : owner[e] # Absent
  BY DEF Kept, BudgetInv, RequeueBudget
<1> QED BY ZenonT(60), <1>1, <1>2, <1>3, <1>4, <1>5, <1>6, <1>7, <1>8, <1>9 DEF Outside

(* No entry ever carries more attempts than effective_max_requeues allows, *)
(* for every budget and with any number of crashes, reclaims and lost      *)
(* replies: each of the three requeue paths checks the budget before it    *)
(* spends from it, and a handoff does not spend.                           *)
THEOREM BudgetHolds == Spec => []RequeueBudget
<1>1. Init => BudgetInv
  <2> SUFFICES ASSUME Init PROVE BudgetInv
    OBVIOUS
  <2>1. RequeueBudget
    BY BoundsAssumption DEF Init, RequeueBudget
  <2>2. \A c \in Coroutines : Funded(co[c])
    BY IdleFunded DEF Init
  <2> QED BY <2>1, <2>2 DEF Init, BudgetInv
<1>2. TypeInv /\ TypeInv' /\ BudgetInv /\ [Next]_vars => BudgetInv'
  <2> SUFFICES ASSUME TypeInv, TypeInv', BudgetInv, [Next]_vars PROVE BudgetInv'
    OBVIOUS
  <2>1. CASE UNCHANGED vars
    BY ZenonT(60), <2>1 DEF vars, BudgetInv, RequeueBudget, Funded, Affordable
  <2>2. CASE Next
    <3>1. /\ Kept /\ RequeueBudget'
          /\ \A c \in Coroutines : Funded(co'[c])
          /\ \A w \in Workers : \A e \in batch'[w] : owner[e] # Absent
      <4>1. CASE Outside
        BY <4>1, OutsideBudget
      <4>2. CASE \E c \in Coroutines : Step(c) \/ RedisError(c)
        BY ZenonT(60), <4>2, StepBudget, StepFunded DEF BudgetInv
      <4> QED BY ZenonT(60), <2>2, <4>1, <4>2, NextCases
    <3>2. \A c \in Coroutines : Coherent(co'[c])
      BY ZenonT(60) DEF TypeInv, Coherent
    <3>3. \A c \in Coroutines : Funded(co[c])'
      <4>1. \A k : Coherent(k) /\ Funded(k) => Funded(k)'
        BY <3>1, FundedKept
      <4>2. \A k : Funded(k)' <=>
              (k.pc # "idle" =>
                /\ owner'[k.entry] # Absent
                /\ k.ctx = "page" /\ ~k.final => attempt'[k.entry] + 1 < MaxRequeues
                /\ k.pc \in PageOnly => k.ctx = "page"
                /\ k.pc = "xadd" => attempt'[k.entry] + 1 < MaxRequeues
                /\ k.pc \in {"relGet", "relCas"} =>
                    /\ k.ret = "xadd" => attempt'[k.entry] + 1 < MaxRequeues
                    /\ k.ret = "reget" => k.ctx = "page")
        BY DEF Funded, Affordable
      <4> QED BY ZenonT(60), <4>1, <4>2, <3>1, <3>2 DEF Funded, Affordable
    <3>4. \A w \in Workers : \A e \in batch'[w] : e \in Entries
      BY DEF TypeInv, TypeOK
    <3> QED BY ZenonT(60), <3>1, <3>3, <3>4 DEF BudgetInv, Kept
  <2> QED BY <2>1, <2>2
<1> QED BY <1>1, <1>2, TypeInvariant, PTL DEF Spec, BudgetInv

-----------------------------------------------------------------------------
(***************************************************************************)
(* What a step can do to the page states, the counter and the events.      *)
(***************************************************************************)
Emitting == {"emitPartial", "emitFinal", "emitLast", "emitComplete"}

Only(c) == \A d \in Coroutines \ {c} : co'[d] = co[d]

(* Nothing, and no coroutine gets to an XADD of an event.                  *)
Quiet ==
    /\ UNCHANGED <<pageState, doneCount, events>>
    /\ \A d \in Coroutines : co'[d] = co[d] \/ co'[d].pc \notin Emitting

(* A page moves between non-terminal states and keeps its layout result.   *)
Shifts(c, t) ==
    /\ pageState[Page(c)] \notin TERMINAL_STATES
    /\ t \notin TERMINAL_STATES
    /\ pageState[Page(c)] \in LayoutCommitted => t \in LayoutCommitted
    /\ pageState' = [pageState EXCEPT ![Page(c)] = t]
    /\ UNCHANGED <<doneCount, events>>
    /\ Only(c)
    /\ co'[c].pc \notin {"emitFinal", "emitLast", "emitComplete"}
    /\ co'[c].pc = "emitPartial" => t \in LayoutCommitted /\ co'[c].entry = co[c].entry

(* A page is settled, and the counter with it.                             *)
Settles(c, t) ==
    /\ pageState[Page(c)] \notin TERMINAL_STATES
    /\ t \in TERMINAL_STATES
    /\ t = "FAILED" \/ pageState[Page(c)] \in LayoutCommitted
    /\ pageState' = [pageState EXCEPT ![Page(c)] = t]
    /\ doneCount' = doneCount + 1
    /\ UNCHANGED events
    /\ Only(c)
    /\ co'[c].pc \notin {"emitPartial", "emitComplete"}
    /\ co'[c].pc \in {"emitFinal", "emitLast"} => co'[c].entry = co[c].entry
    /\ co'[c].pc = "emitLast" => doneCount + 1 >= Total

(* A coroutine publishes the event it was about to publish.                *)
Publishes(c, ev) ==
    /\ UNCHANGED <<pageState, doneCount>>
    /\ events' = Append(events, ev)
    /\ Only(c)
    /\ \/ At(c, "emitPartial") /\ ev = Partial(Page(c)) /\ co'[c].pc \notin Emitting
       \/ At(c, "emitFinal") /\ ev = Final(Page(c)) /\ co'[c].pc \notin Emitting
       \/ /\ At(c, "emitLast") /\ ev = Final(Page(c))
          /\ co'[c].pc \notin Emitting \/ co'[c].pc = "emitComplete"
       \/ At(c, "emitComplete") /\ ev = JobComplete /\ co'[c].pc \notin Emitting

LEMMA RaisedNotEmitting ==
    ASSUME NEW c \in Coroutines, Coherent(co[c]), co[c].pc # "idle"
    PROVE  Raised(c).pc \notin Emitting
<1>1. AfterLayout \in Plain \ Emitting /\ "ack" \in Plain \ Emitting /\ "fail" \in Plain \ Emitting
  BY DEF AfterLayout, Plain, Labels, Emitting
<1>2. /\ Goto(c, AfterLayout).pc \notin Emitting
      /\ Goto(c, "ack").pc \notin Emitting
      /\ Goto(c, "fail").pc \notin Emitting
      /\ Idle.pc \notin Emitting
  BY ZenonT(60), <1>1, GotoCoherent, IdleCoherent DEF Emitting
<1>3. [co[c] EXCEPT !.ctx = "net", !.ret = "xadd",
                    !.pc = IF co[c].final THEN "ftGet" ELSE "relGet"].pc \notin Emitting
  BY DEF Coherent, CoroutineState, Emitting
<1> QED BY <1>2, <1>3 DEF Raised

LEMMA ProceedEffect ==
    ASSUME TypeInv, NEW c \in Coroutines, co[c].pc # "idle", NEW k, Proceed(c, k)
    PROVE  Only(c) /\ (co'[c] = k \/ co'[c].pc \notin Emitting)
<1>1. Raised(c).pc \notin Emitting
  BY RaisedNotEmitting DEF TypeInv
<1> QED BY ZenonT(60), <1>1 DEF Proceed, Raise, Only, TypeInv, TypeOK

LEMMA ObserveQuiet ==
    ASSUME TypeInv, NEW c \in Coroutines, co[c].pc # "idle",
           NEW k, k.pc \notin Emitting, Observe(c, k)
    PROVE  Quiet
<1>1. Only(c) /\ co'[c].pc \notin Emitting
  BY ProceedEffect DEF Observe
<1> QED BY <1>1 DEF Quiet, Only, Observe, store

(* A successful terminal transition settles the page; a rejected one, or   *)
(* one whose exception is handled elsewhere, publishes nothing.            *)
LEMMA FinishEffect ==
    ASSUME TypeInv, NEW c \in Coroutines, co[c].pc # "idle",
           NEW t \in TERMINAL_STATES, Finish(c, t, PREDECESSORS[t])
    PROVE  Quiet \/ Settles(c, t)
<1> DEFINE l == IF doneCount + 1 >= Total THEN "emitLast" ELSE "emitFinal"
<1>1. /\ Goto(c, l).pc = l /\ Goto(c, l).entry = co[c].entry
      /\ Goto(c, "ack").pc = "ack"
  BY ZenonT(60), GotoCoherent DEF TypeInv, Plain, Labels
<1>2. Transition(c, t, PREDECESSORS[t], Goto(c, l), Goto(c, "ack"))
  BY DEF Finish
<1>3. UNCHANGED events
  BY ZenonT(60), <1>2 DEF Transition
<1>4. CASE pageState[Page(c)] \in PREDECESSORS[t]
  <2>1. /\ pageState' = [pageState EXCEPT ![Page(c)] = t]
        /\ doneCount' = doneCount + 1
        /\ Proceed(c, Goto(c, l))
    BY ZenonT(60), <1>2, <1>4 DEF Transition
  <2>2. Only(c) /\ (co'[c] = Goto(c, l) \/ co'[c].pc \notin Emitting)
    BY ZenonT(60), <2>1, ProceedEffect
  <2>3. /\ pageState[Page(c)] \notin TERMINAL_STATES
        /\ t = "FAILED" \/ pageState[Page(c)] \in LayoutCommitted
    BY ZenonT(60), <1>4, TableFacts DEF LayoutCommitted
  <2>4. /\ co'[c].pc \notin {"emitPartial", "emitComplete"}
        /\ co'[c].pc \in {"emitFinal", "emitLast"} => co'[c].entry = co[c].entry
        /\ co'[c].pc = "emitLast" => doneCount + 1 >= Total
    BY ZenonT(60), <2>2, <1>1 DEF Emitting
  <2> QED BY ZenonT(60), <2>1, <2>2, <2>3, <2>4, <1>3 DEF Settles
<1>5. CASE pageState[Page(c)] \notin PREDECESSORS[t]
  <2>1. UNCHANGED <<pageState, doneCount>> /\ Proceed(c, Goto(c, "ack"))
    BY ZenonT(60), <1>2, <1>5 DEF Transition, store
  <2>2. Only(c) /\ co'[c].pc \notin Emitting
    BY ZenonT(60), <2>1, <1>1, ProceedEffect DEF Emitting
  <2> QED BY ZenonT(60), <2>1, <2>2, <1>3 DEF Quiet, Only
<1> QED BY ZenonT(60), <1>4, <1>5

(* A transition to a checkpoint or to a claim.                             *)
LEMMA MoveEffect ==
    ASSUME TypeInv, NEW c \in Coroutines, co[c].pc # "idle",
           NEW t \in PageState \ TERMINAL_STATES, NEW from,
           from \cap TERMINAL_STATES = {},
           \A s \in from : s \in LayoutCommitted => t \in LayoutCommitted,
           NEW j, j.pc \notin {"emitFinal", "emitLast", "emitComplete"},
           j.pc = "emitPartial" => t \in LayoutCommitted /\ j.entry = co[c].entry,
           NEW k, k.pc \notin Emitting,
           Transition(c, t, from, j, k)
    PROVE  Quiet \/ Shifts(c, t)
<1>1. UNCHANGED events
  BY ZenonT(60) DEF Transition
<1>2. CASE pageState[Page(c)] \in from
  <2>1. /\ pageState' = [pageState EXCEPT ![Page(c)] = t]
        /\ UNCHANGED doneCount
        /\ Proceed(c, j)
    BY ZenonT(60), <1>2 DEF Transition
  <2>2. Only(c) /\ (co'[c] = j \/ co'[c].pc \notin Emitting)
    BY ZenonT(60), <2>1, ProceedEffect
  <2>3. /\ co'[c].pc \notin {"emitFinal", "emitLast", "emitComplete"}
        /\ co'[c].pc = "emitPartial" => t \in LayoutCommitted /\ co'[c].entry = co[c].entry
    BY ZenonT(60), <2>2 DEF Emitting
  <2> QED BY ZenonT(60), <2>1, <2>2, <2>3, <1>1, <1>2 DEF Shifts
<1>3. CASE pageState[Page(c)] \notin from
  <2>1. UNCHANGED <<pageState, doneCount>> /\ Proceed(c, k)
    BY ZenonT(60), <1>3 DEF Transition, store
  <2>2. Only(c) /\ co'[c].pc \notin Emitting
    BY ZenonT(60), <2>1, ProceedEffect
  <2> QED BY ZenonT(60), <2>1, <2>2, <1>1 DEF Quiet, Only
<1> QED BY ZenonT(60), <1>2, <1>3

LEMMA PublishEffect ==
    ASSUME TypeInv, NEW c \in Coroutines,
           EmitPartial(c) \/ EmitFinal(c) \/ EmitLast(c) \/ EmitComplete(c)
    PROVE  \E ev : Publishes(c, ev)
<1>0. co[c].pc # "idle"
  BY DEF EmitPartial, EmitFinal, EmitLast, EmitComplete, At
<1>1. /\ Goto(c, AfterLayout).pc = AfterLayout
      /\ Goto(c, "ack").pc = "ack"
      /\ Goto(c, "emitComplete").pc = "emitComplete"
  BY <1>0, GotoCoherent DEF TypeInv, Plain, Labels, AfterLayout
<1>2. AfterLayout \notin Emitting /\ "ack" \notin Emitting
  BY ZenonT(60) DEF AfterLayout, Emitting
<1>3. ASSUME NEW ev, NEW l, Publish(c, ev, l)
      PROVE  /\ UNCHANGED <<pageState, doneCount>>
             /\ events' = Append(events, ev)
             /\ Only(c)
             /\ co'[c] = Goto(c, l) \/ co'[c].pc \notin Emitting
  BY ZenonT(60), <1>0, <1>3, ProceedEffect DEF Publish, store
<1>4. CASE EmitPartial(c)
  BY ZenonT(60), <1>1, <1>2, <1>3, <1>4 DEF EmitPartial, Publishes
<1>5. CASE EmitFinal(c)
  BY ZenonT(60), <1>1, <1>2, <1>3, <1>5 DEF EmitFinal, Publishes
<1>6. CASE EmitLast(c)
  BY ZenonT(60), <1>1, <1>2, <1>3, <1>6 DEF EmitLast, Publishes
<1>7. CASE EmitComplete(c)
  BY ZenonT(60), <1>1, <1>2, <1>3, <1>7 DEF EmitComplete, Publishes
<1> QED BY ZenonT(60), <1>4, <1>5, <1>6, <1>7

Effect ==
    \/ Quiet
    \/ \E c \in Coroutines :
        /\ co[c].pc # "idle"
        /\ (\E t \in PageState : Shifts(c, t) \/ Settles(c, t)) \/ (\E ev : Publishes(c, ev))

LEMMA StepEffect ==
    ASSUME TypeInv, NEW c \in Coroutines, Step(c) \/ RedisError(c)
    PROVE  Effect
<1> USE DEF At
<1>0. co[c].pc # "idle"
  BY ZenonT(60) DEF Step, RedisError, GetPage, ReleaseGet, ReleaseCas, RegetPage, ClaimLayout,
         CallLayout, CommitLayout, EmitPartial, ClaimVlm, CallVlm, CommitDone, Degrade,
         Fail, EmitFinal, EmitLast, EmitComplete, ForceGet, ForceCas, Requeue, Ack, Recover
<1>1. Coherent(co[c]) /\ co[c] \in CoroutineState
  BY DEF TypeInv, Coherent
<1>2. \A l \in Plain : Goto(c, l).pc = l /\ Goto(c, l).entry = co[c].entry
  BY ZenonT(60), <1>0, <1>1, GotoCoherent
<1>3. /\ "claimLayout" \in Plain /\ "claimVlm" \in Plain /\ "ack" \in Plain
      /\ "layout" \in Plain /\ "vlm" \in Plain /\ "fail" \in Plain
      /\ "commitLayout" \in Plain /\ "commitDone" \in Plain /\ "degrade" \in Plain
      /\ "emitPartial" \in Plain /\ "ftGet" \in Plain
      /\ AfterLayout \in Plain \ Emitting /\ \A s : Stage(s) \in Plain \ Emitting
  BY DEF Plain, Labels, AfterLayout, Stage, Emitting
<1>4. \A r : [co[c] EXCEPT !.pc = "relGet", !.ret = r].pc = "relGet"
  BY <1>1 DEF CoroutineState
<1>5. Saturated(c).pc = "relGet"
  BY <1>4 DEF Saturated
<1>6. CASE GetPage(c) \/ RegetPage(c) \/ Recover(c)
  <2>1. /\ Goto(c, "ack").pc \notin Emitting /\ Goto(c, "ftGet").pc \notin Emitting
        /\ \A s : Goto(c, Stage(s)).pc \notin Emitting
        /\ \A r : [co[c] EXCEPT !.pc = "relGet", !.ret = r].pc \notin Emitting
    BY ZenonT(60), <1>2, <1>3, <1>4 DEF Emitting
  <2>2. CASE GetPage(c)
    <3>1. PICK k : k.pc \notin Emitting /\ Observe(c, k)
      BY ZenonT(60), <2>1, <2>2 DEF GetPage
    <3> QED BY ZenonT(60), <3>1, <1>0, ObserveQuiet DEF Effect
  <2>3. CASE RegetPage(c)
    <3>1. PICK k : k.pc \notin Emitting /\ Observe(c, k)
      BY ZenonT(60), <2>1, <2>3 DEF RegetPage
    <3> QED BY ZenonT(60), <3>1, <1>0, ObserveQuiet DEF Effect
  <2>4. CASE Recover(c)
    <3>1. PICK k : k.pc \notin Emitting /\ Observe(c, k)
      BY ZenonT(60), <2>1, <2>4 DEF Recover
    <3> QED BY ZenonT(60), <3>1, <1>0, ObserveQuiet DEF Effect
  <2> QED BY ZenonT(60), <1>6, <2>2, <2>3, <2>4
<1>7. CASE ReleaseGet(c)
  <2>1. \A s : [co[c] EXCEPT !.pc = "relCas", !.seen = s].pc = "relCas"
    BY <1>1 DEF CoroutineState
  <2>2. [co[c] EXCEPT !.pc = co[c].ret, !.ret = "idle"].pc = co[c].ret
    BY <1>1 DEF CoroutineState
  <2>3. co[c].ret \notin Emitting
    BY <1>1 DEF CoroutineState, Emitting
  <2>4. PICK k : k.pc \notin Emitting /\ Observe(c, k)
    BY ZenonT(60), <2>1, <2>2, <2>3, <1>7 DEF ReleaseGet, Emitting
  <2> QED BY ZenonT(60), <2>4, <1>0, ObserveQuiet DEF Effect
<1>8. CASE ReleaseCas(c)
  <2> DEFINE back == [co[c] EXCEPT !.pc = co[c].ret, !.ret = "idle", !.seen = "PENDING"]
             t == RECLAIM_TARGET[co[c].seen]
  <2>1. back.pc \notin Emitting
    <3>1. back.pc = co[c].ret
      BY <1>1 DEF CoroutineState
    <3> QED BY <3>1, <1>1 DEF CoroutineState, Emitting
  <2>2. co[c].seen \in {"LAYOUT_RUNNING", "VLM_RUNNING"}
    BY ZenonT(60), <1>1, <1>8 DEF ReleaseCas, Coherent, RUNNING_STATES
  <2>3. /\ t \in PageState \ TERMINAL_STATES
        /\ co[c].seen \in LayoutCommitted => t \in LayoutCommitted
        /\ co[c].seen \notin TERMINAL_STATES
    BY ZenonT(60), <2>2, TableFacts DEF PageState, LayoutCommitted
  <2>4. Transition(c, t, {co[c].seen}, back, back)
    BY <1>8 DEF ReleaseCas
  <2> HIDE DEF back, t
  <2>5. back.pc \notin {"emitPartial", "emitFinal", "emitLast", "emitComplete"}
    BY ZenonT(60), <2>1 DEF Emitting
  <2>6. Quiet \/ Shifts(c, t)
    BY ZenonT(60), <2>1, <2>3, <2>4, <2>5, <1>0, MoveEffect
  <2> QED BY ZenonT(60), <2>3, <2>6, <1>0 DEF Effect
<1>9. CASE ClaimLayout(c)
  <2>1. Quiet \/ Shifts(c, "LAYOUT_RUNNING")
    BY <1>0, <1>2, <1>3, <1>9, MoveEffect, TableFacts
       DEF ClaimLayout, PageState, LayoutCommitted, Emitting
  <2> QED BY ZenonT(60), <2>1, <1>0 DEF Effect, PageState
<1>10. CASE CommitLayout(c)
  <2>1. Quiet \/ Shifts(c, "LAYOUT_DONE")
    BY <1>0, <1>2, <1>3, <1>10, MoveEffect, TableFacts
       DEF CommitLayout, PageState, LayoutCommitted, Emitting
  <2> QED BY ZenonT(60), <2>1, <1>0 DEF Effect, PageState
<1>11. CASE ClaimVlm(c)
  <2>1. Quiet \/ Shifts(c, "VLM_RUNNING")
    BY <1>0, <1>2, <1>3, <1>11, MoveEffect, TableFacts
       DEF ClaimVlm, PageState, LayoutCommitted, Emitting
  <2> QED BY ZenonT(60), <2>1, <1>0 DEF Effect, PageState
<1>12. CASE CallLayout(c) \/ CallVlm(c)
  <2>1. PICK k : k.pc \notin Emitting /\ co' = [co EXCEPT ![c] = k]
    BY ZenonT(60), <1>2, <1>3, <1>5, <1>12 DEF CallLayout, CallVlm, Emitting
  <2>2. Observe(c, k)
    BY ZenonT(60), <2>1, <1>12 DEF CallLayout, CallVlm, Observe, Proceed
  <2> QED BY ZenonT(60), <2>1, <2>2, <1>0, ObserveQuiet DEF Effect
<1>13. CASE CommitDone(c) \/ Degrade(c) \/ Fail(c) \/ ForceCas(c)
  <2>1. PICK t \in TERMINAL_STATES : Finish(c, t, PREDECESSORS[t])
    BY ZenonT(60), <1>1, <1>13, TableFacts DEF CommitDone, Degrade, Fail, ForceCas, CoroutineState
  <2>2. Quiet \/ Settles(c, t)
    BY <2>1, <1>0, FinishEffect
  <2> QED BY ZenonT(60), <2>1, <2>2, <1>0 DEF Effect, TERMINAL_STATES
<1>14. CASE EmitPartial(c) \/ EmitFinal(c) \/ EmitLast(c) \/ EmitComplete(c)
  BY ZenonT(60), <1>0, <1>14, PublishEffect DEF Effect
<1>15. CASE ForceGet(c)
  <2>1. \A s : [co[c] EXCEPT !.pc = "ftCas", !.seen = s].pc = "ftCas"
    BY <1>1 DEF CoroutineState
  <2>2. PICK k : k.pc \notin Emitting /\ Observe(c, k)
    BY ZenonT(60), <2>1, <1>2, <1>3, <1>15 DEF ForceGet, Emitting
  <2> QED BY ZenonT(60), <2>2, <1>0, ObserveQuiet DEF Effect
<1>16. CASE Requeue(c) \/ Ack(c)
  <2>1. \E k : k.pc \notin Emitting /\ Proceed(c, k)
    BY ZenonT(60), <1>2, <1>3, <1>16, IdleCoherent DEF Requeue, Ack, Emitting
  <2>2. Only(c) /\ co'[c].pc \notin Emitting
    BY ZenonT(60), <2>1, <1>0, ProceedEffect
  <2> QED BY ZenonT(60), <2>2, <1>16 DEF Effect, Quiet, Only, Requeue, Ack, store
<1>17. CASE RedisError(c)
  <2>1. Observe(c, Idle) /\ Idle.pc \notin Emitting
    BY ZenonT(60), <1>17, IdleCoherent DEF RedisError, Observe, Proceed, Emitting
  <2> QED BY ZenonT(60), <2>1, <1>0, ObserveQuiet DEF Effect
<1> QED BY ZenonT(60), <1>6, <1>7, <1>8, <1>9, <1>10, <1>11, <1>12, <1>13, <1>14, <1>15, <1>16, <1>17
        DEF Step

LEMMA NextEffect == TypeInv /\ [Next]_vars => Effect
<1> SUFFICES ASSUME TypeInv, [Next]_vars PROVE Effect
  OBVIOUS
<1>1. CASE Outside
  BY ZenonT(60), <1>1, OutsideEffect DEF Effect, Quiet, Emitting
<1>2. CASE UNCHANGED vars
  BY ZenonT(60), <1>2 DEF vars, Effect, Quiet
<1> QED BY ZenonT(60), <1>1, <1>2, NextCases, StepEffect

-----------------------------------------------------------------------------
(***************************************************************************)
(* The completion counter                                                  *)
(***************************************************************************)

INSTANCE FiniteSetTheorems

LEMMA CountStep == TypeInv /\ DoneCountExact /\ Effect => DoneCountExact'
<1> SUFFICES ASSUME TypeInv, DoneCountExact, Effect PROVE DoneCountExact'
  OBVIOUS
<1> DEFINE T == {p \in Pages : Terminal(p)}
<1>1. CASE UNCHANGED <<pageState, doneCount>>
  BY <1>1 DEF DoneCountExact, Terminal
<1>2. ASSUME NEW c \in Coroutines, co[c].pc # "idle", NEW t \in PageState,
             Shifts(c, t) \/ Settles(c, t)
      PROVE  DoneCountExact'
  <2>1. Page(c) \in Pages /\ pageState \in [Pages -> PageState]
    BY ZenonT(60), <1>2, PageInPages DEF TypeInv, TypeOK
  <2>2. \A p \in Pages : pageState'[p] = IF p = Page(c) THEN t ELSE pageState[p]
    BY ZenonT(60), <1>2, <2>1 DEF Shifts, Settles
  <2>3. CASE Shifts(c, t)
    <3>1. T' = T
      BY ZenonT(60), <2>2, <2>3 DEF Shifts, Terminal
    <3> QED BY ZenonT(60), <3>1, <2>3 DEF Shifts, DoneCountExact
  <2>4. CASE Settles(c, t)
    <3>1. T' = T \cup {Page(c)} /\ Page(c) \notin T
      BY ZenonT(60), <2>1, <2>2, <2>4 DEF Settles, Terminal
    <3>2. IsFiniteSet(T)
      BY ZenonT(60), PagesAssumption, FS_Subset
    <3>3. Cardinality(T \cup {Page(c)}) = Cardinality(T) + 1
      BY ZenonT(60), <3>1, <3>2, FS_AddElement
    <3> QED BY ZenonT(60), <3>1, <3>3, <2>4 DEF Settles, DoneCountExact
  <2> QED BY ZenonT(60), <1>2, <2>3, <2>4
<1> QED BY ZenonT(60), <1>1, <1>2 DEF Effect, Quiet, Publishes

(* done_count is exact for every number of pages, workers, crashes, lapsed *)
(* leases and lost replies: the terminal states have no successor, and the *)
(* increment is part of the compare-and-set that makes a page terminal.    *)
THEOREM CountIsExact == Spec => []DoneCountExact
<1>1. Init => DoneCountExact
  <2> SUFFICES ASSUME Init PROVE DoneCountExact
    BY ZenonT(60)
  <2>1. {p \in Pages : Terminal(p)} = {}
    BY TableFacts DEF Init, Terminal
  <2> QED BY ZenonT(60), <2>1, FS_EmptySet DEF Init, DoneCountExact
<1>2. TypeInv /\ DoneCountExact /\ [Next]_vars => DoneCountExact'
  BY ZenonT(60), NextEffect, CountStep
<1> QED BY <1>1, <1>2, TypeInvariant, PTL DEF Spec

-----------------------------------------------------------------------------
(***************************************************************************)
(* The events                                                              *)
(***************************************************************************)

(* c is on its way to announce page p, or to close the job.                *)
Announcing(c, p) == co[c].pc \in {"emitFinal", "emitLast"} /\ Page(c) = p
Closing(c) == co[c].pc \in {"emitLast", "emitComplete"}

(* A page is announced by the one coroutine whose transition settled it,   *)
(* the job by the one that settled the last page.  The transition happens  *)
(* once, so does the announcement.                                         *)
FinalInv ==
    /\ \A c \in Coroutines, p \in Pages :
        Announcing(c, p) => /\ Terminal(p) /\ ~Announced(Final(p))
                            /\ \A d \in Coroutines : Announcing(d, p) => d = c
    /\ \A p \in Pages : Announced(Final(p)) => Terminal(p)

CloseInv ==
    /\ \A c \in Coroutines :
        Closing(c) => /\ \A p \in Pages : Terminal(p)
                      /\ ~Announced(JobComplete)
                      /\ \A d \in Coroutines : Closing(d) => d = c
    /\ Announced(JobComplete) => \A p \in Pages : Terminal(p)

HasLayout(p) == pageState[p] \in LayoutCommitted \cup {"FAILED"}

LayoutEventInv ==
    /\ \A c \in Coroutines : At(c, "emitPartial") => HasLayout(Page(c))
    /\ \A p \in Pages : Announced(Partial(p)) => HasLayout(p)

EventInv == FinalInv /\ CloseInv /\ LayoutEventInv /\ AnnouncedOnce

(* Appending something new keeps AnnouncedOnce; so does a page.partial.    *)
LEMMA AppendOnce ==
    ASSUME TypeInv, AnnouncedOnce, NEW x, events' = Append(events, x),
           Announced(x) => x.event = "page.partial"
    PROVE  AnnouncedOnce'
<1>1. /\ DOMAIN events = 1..Len(events) /\ Len(events) \in Nat
      /\ DOMAIN events' = 1..(Len(events) + 1)
      /\ \A i \in 1..Len(events) : events'[i] = events[i]
      /\ events'[Len(events) + 1] = x
  BY DEF TypeInv, TypeOK
<1>2. \A i : i \in DOMAIN events' <=> i \in DOMAIN events \/ i = Len(events) + 1
  BY <1>1
<1>3. SUFFICES ASSUME NEW i \in DOMAIN events', NEW j \in DOMAIN events',
                      events'[i] = events'[j], events'[i].event # "page.partial"
               PROVE  i = j
  BY DEF AnnouncedOnce
<1>4. CASE i \in DOMAIN events /\ j \in DOMAIN events
  BY ZenonT(60), <1>1, <1>3, <1>4 DEF AnnouncedOnce
<1>5. CASE i = Len(events) + 1 /\ j \in DOMAIN events
  BY ZenonT(60), <1>1, <1>3, <1>5 DEF Announced
<1>6. CASE j = Len(events) + 1 /\ i \in DOMAIN events
  BY ZenonT(60), <1>1, <1>3, <1>6 DEF Announced
<1> QED BY ZenonT(60), <1>2, <1>4, <1>5, <1>6

(* The last settlement: a counter that reaches the total means that every  *)
(* page is terminal.                                                       *)
LEMMA AllSettled ==
    ASSUME DoneCountExact', doneCount' >= Total
    PROVE  \A p \in Pages : Terminal(p)'
<1> DEFINE T == {p \in Pages : Terminal(p)'}
<1>1. /\ IsFiniteSet(T) /\ Cardinality(T) <= Cardinality(Pages)
      /\ Cardinality(T) = Cardinality(Pages) => T = Pages
  BY ZenonT(60), PagesAssumption, FS_Subset
<1>2. Cardinality(T) \in Nat /\ Cardinality(Pages) \in Nat
  BY ZenonT(60), <1>1, PagesAssumption, FS_CardinalityType
<1>3. Cardinality(T) >= Cardinality(Pages)
  BY DEF DoneCountExact, Total
<1>4. T = Pages
  BY <1>1, <1>2, <1>3
<1> QED BY <1>4

LEMMA Unmoved ==
    ASSUME NEW d \in Coroutines, co'[d] = co[d]
    PROVE  /\ \A p : Announcing(d, p)' <=> Announcing(d, p)
           /\ Closing(d)' <=> Closing(d)
           /\ At(d, "emitPartial")' <=> At(d, "emitPartial")
           /\ Page(d)' = Page(d)
BY DEF Announcing, Closing, At, Page

LEMMA QuietEvents == EventInv /\ Quiet => EventInv'
<1> SUFFICES ASSUME EventInv, Quiet PROVE EventInv'
  OBVIOUS
<1>1. \A p : /\ Terminal(p)' <=> Terminal(p)
             /\ HasLayout(p)' <=> HasLayout(p)
  BY DEF Quiet, Terminal, HasLayout
<1>2. \A ev : Announced(ev)' <=> Announced(ev)
  BY ZenonT(60) DEF Quiet, Announced
<1>3. \A d \in Coroutines :
        /\ \A p : Announcing(d, p)' => Announcing(d, p)
        /\ Closing(d)' => Closing(d)
        /\ At(d, "emitPartial")' => At(d, "emitPartial") /\ Page(d)' = Page(d)
  BY ZenonT(60), Unmoved DEF Quiet, Emitting, Announcing, Closing, At
<1>4. FinalInv'
  BY ZenonT(60), <1>1, <1>2, <1>3 DEF EventInv, FinalInv
<1>5. CloseInv'
  BY ZenonT(60), <1>1, <1>2, <1>3 DEF EventInv, CloseInv
<1>6. LayoutEventInv'
  <2>1. ASSUME NEW d \in Coroutines, At(d, "emitPartial")'
        PROVE  (HasLayout(Page(d)))'
    BY ZenonT(60), <1>3, <2>1 DEF EventInv, LayoutEventInv, HasLayout, Quiet
  <2> QED BY ZenonT(60), <2>1, <1>1, <1>2 DEF EventInv, LayoutEventInv
<1>7. AnnouncedOnce'
  BY DEF EventInv, Quiet, AnnouncedOnce
<1> QED BY ZenonT(60), <1>4, <1>5, <1>6, <1>7 DEF EventInv

LEMMA MoveEvents ==
    ASSUME TypeInv, EventInv, DoneCountExact', NEW c \in Coroutines, co[c].pc # "idle",
           NEW t \in PageState, Shifts(c, t) \/ Settles(c, t)
    PROVE  EventInv'
<1>1. Page(c) \in Pages /\ pageState \in [Pages -> PageState]
  BY ZenonT(60), PageInPages DEF TypeInv, TypeOK
<1>2. /\ \A p \in Pages : pageState'[p] = IF p = Page(c) THEN t ELSE pageState[p]
      /\ pageState[Page(c)] \in PageState \ TERMINAL_STATES
  BY ZenonT(60), <1>1 DEF Shifts, Settles
<1>3. /\ ~Terminal(Page(c))
      /\ \A p \in Pages : Terminal(p) => Terminal(p)'
      /\ \A p \in Pages : HasLayout(p) => HasLayout(p)'
  <2>1. HasLayout(Page(c)) => t \in LayoutCommitted \cup {"FAILED"}
    BY ZenonT(60), <1>2, TableFacts DEF Shifts, Settles, HasLayout, LayoutCommitted
  <2> QED BY ZenonT(60), <1>1, <1>2, <2>1 DEF Terminal, HasLayout
<1>4. \A ev : Announced(ev)' <=> Announced(ev)
  BY ZenonT(60) DEF Shifts, Settles, Announced
<1>5. \A d \in Coroutines \ {c} :
        /\ \A p : Announcing(d, p)' <=> Announcing(d, p)
        /\ Closing(d)' <=> Closing(d)
        /\ At(d, "emitPartial")' <=> At(d, "emitPartial")
        /\ Page(d)' = Page(d)
  BY ZenonT(60), Unmoved DEF Shifts, Settles, Only
<1>6. /\ \A p : Announcing(c, p)' => p = Page(c) /\ Terminal(p)'
      /\ Closing(c)' => doneCount' >= Total
      /\ At(c, "emitPartial")' => Page(c)' = Page(c) /\ t \in LayoutCommitted
  <2>1. CASE Shifts(c, t)
    BY ZenonT(60), <2>1 DEF Shifts, Announcing, Closing, At, Page
  <2>2. CASE Settles(c, t)
    <3>1. pageState'[Page(c)] \in TERMINAL_STATES
      BY ZenonT(60), <2>2, <1>1, <1>2 DEF Settles
    <3>2. \A q : Terminal(q)' <=> pageState'[q] \in TERMINAL_STATES
      BY ZenonT(60) DEF Terminal
    <3>3. \A p : Announcing(c, p)' => p = Page(c)
      BY ZenonT(60), <2>2 DEF Settles, Announcing, Page
    <3>4. /\ Closing(c)' => doneCount' >= Total
          /\ ~At(c, "emitPartial")'
      BY ZenonT(60), <2>2 DEF Settles, Closing, At
    <3> QED BY ZenonT(60), <3>1, <3>2, <3>3, <3>4
  <2> QED BY ZenonT(60), <2>1, <2>2
<1>7. FinalInv'
  <2>1. ~\E d \in Coroutines : Announcing(d, Page(c))
    BY ZenonT(60), <1>1, <1>3 DEF EventInv, FinalInv
  <2>2. ~Announced(Final(Page(c)))
    BY ZenonT(60), <1>1, <1>3 DEF EventInv, FinalInv
  <2>3. ASSUME NEW d \in Coroutines, NEW p \in Pages, Announcing(d, p)'
        PROVE  /\ Terminal(p)' /\ ~Announced(Final(p))'
               /\ \A b \in Coroutines : Announcing(b, p)' => b = d
    <3>1. CASE d = c
      BY ZenonT(60), <3>1, <2>1, <2>2, <2>3, <1>4, <1>5, <1>6
    <3>2. CASE d # c
      <4>1. Announcing(d, p) /\ p # Page(c)
        BY ZenonT(60), <3>2, <2>1, <2>3, <1>5
      <4>2. /\ Terminal(p) /\ ~Announced(Final(p))
            /\ \A b \in Coroutines : Announcing(b, p) => b = d
        BY ZenonT(60), <4>1 DEF EventInv, FinalInv
      <4>3. Terminal(p)' /\ ~Announced(Final(p))'
        BY ZenonT(60), <4>2, <1>3, <1>4
      <4>4. \A b \in Coroutines : Announcing(b, p)' => Announcing(b, p)
        BY ZenonT(60), <4>1, <1>5, <1>6
      <4> QED BY ZenonT(60), <4>2, <4>3, <4>4
    <3> QED BY ZenonT(60), <3>1, <3>2
  <2>4. \A p \in Pages : Announced(Final(p))' => Terminal(p)'
    BY ZenonT(60), <1>3, <1>4 DEF EventInv, FinalInv
  <2> QED BY ZenonT(60), <2>3, <2>4 DEF FinalInv
<1>8. CloseInv'
  <2>1. ~Announced(JobComplete) /\ \A d \in Coroutines : ~Closing(d)
    BY ZenonT(60), <1>1, <1>3 DEF EventInv, CloseInv
  <2>2. Closing(c)' => \A p \in Pages : Terminal(p)'
    BY ZenonT(60), <1>6, AllSettled
  <2> QED BY ZenonT(60), <2>1, <2>2, <1>4, <1>5 DEF CloseInv
<1>9. LayoutEventInv'
  <2>1. ASSUME NEW d \in Coroutines, At(d, "emitPartial")'
        PROVE  HasLayout(Page(d))'
    <3>1. CASE d = c
      <4>1. Page(c)' = Page(c) /\ pageState'[Page(c)] = t /\ t \in LayoutCommitted
        BY ZenonT(60), <3>1, <2>1, <1>1, <1>2, <1>6
      <4>2. HasLayout(Page(c))' <=> pageState'[Page(c)'] \in LayoutCommitted \cup {"FAILED"}
        BY ZenonT(60) DEF HasLayout
      <4> QED BY ZenonT(60), <3>1, <4>1, <4>2
    <3>2. CASE d # c
      <4>1. Page(d)' = Page(d) /\ At(d, "emitPartial")
        BY ZenonT(60), <3>2, <2>1, <1>5
      <4>2. Page(d) \in Pages /\ HasLayout(Page(d))
        BY ZenonT(60), <4>1, PageInPages DEF At, EventInv, LayoutEventInv
      <4>3. HasLayout(Page(d))' <=> pageState'[Page(d)'] \in LayoutCommitted \cup {"FAILED"}
        BY DEF HasLayout
      <4>4. \A p \in Pages : pageState[p] \in LayoutCommitted \cup {"FAILED"}
                                => pageState'[p] \in LayoutCommitted \cup {"FAILED"}
        BY ZenonT(60), <1>3 DEF HasLayout
      <4> QED BY ZenonT(60), <4>1, <4>2, <4>3, <4>4 DEF HasLayout
    <3> QED BY ZenonT(60), <3>1, <3>2
  <2> QED BY ZenonT(60), <2>1, <1>3, <1>4 DEF EventInv, LayoutEventInv
<1>10. AnnouncedOnce'
  BY DEF EventInv, Shifts, Settles, AnnouncedOnce
<1> QED BY ZenonT(60), <1>7, <1>8, <1>9, <1>10 DEF EventInv

LEMMA PublishEvents ==
    ASSUME TypeInv, EventInv, NEW c \in Coroutines, co[c].pc # "idle",
           NEW ev, Publishes(c, ev)
    PROVE  EventInv'
<1>1. Page(c) \in Pages
  BY ZenonT(60), PageInPages
<1>2. \A p : /\ Terminal(p)' <=> Terminal(p)
             /\ HasLayout(p)' <=> HasLayout(p)
  BY ZenonT(60) DEF Publishes, Terminal, HasLayout
<1>3. \A x : Announced(x)' <=> Announced(x) \/ x = ev
  BY AppendAnnounced DEF Publishes
<1>4. \A d \in Coroutines \ {c} :
        /\ \A p : Announcing(d, p)' <=> Announcing(d, p)
        /\ Closing(d)' <=> Closing(d)
        /\ At(d, "emitPartial")' <=> At(d, "emitPartial")
        /\ Page(d)' = Page(d)
  BY ZenonT(60), Unmoved DEF Publishes, Only
<1>5. /\ \A p : ~Announcing(c, p)'
      /\ Closing(c)' => Closing(c) /\ ev = Final(Page(c))
      /\ ~At(c, "emitPartial")'
  BY ZenonT(60) DEF Publishes, Emitting, Announcing, Closing, At
<1>6. \/ ev = Partial(Page(c)) /\ HasLayout(Page(c))
      \/ ev = Final(Page(c)) /\ Announcing(c, Page(c))
      \/ ev = JobComplete /\ Closing(c) /\ ~Closing(c)'
  BY ZenonT(60) DEF Publishes, EventInv, LayoutEventInv, At, Announcing, Closing, Emitting
<1>7. FinalInv'
  <2>1. ASSUME NEW p \in Pages, Announced(Final(p))' PROVE Terminal(p)'
    <3>1. CASE Announced(Final(p))
      BY ZenonT(60), <3>1, <1>2 DEF EventInv, FinalInv
    <3>2. CASE ev = Final(p)
      <4>1. ev # JobComplete /\ ev # Partial(Page(c))
        BY ZenonT(60), <3>2, EventNames
      <4>2. ev = Final(Page(c)) /\ Announcing(c, Page(c))
        BY ZenonT(60), <4>1, <1>6
      <4>3. p = Page(c)
        BY ZenonT(60), <3>2, <4>2, EventNames
      <4>4. Terminal(Page(c))
        BY ZenonT(60), <4>2, <1>1 DEF EventInv, FinalInv
      <4>5. Terminal(p)
        BY ZenonT(60), <4>3, <4>4
      <4> QED BY ZenonT(60), <4>5, <1>2
    <3> QED BY ZenonT(60), <2>1, <3>1, <3>2, <1>3
  <2>2. ASSUME NEW d \in Coroutines, NEW p \in Pages, Announcing(d, p)'
        PROVE  /\ Terminal(p)' /\ ~Announced(Final(p))'
               /\ \A b \in Coroutines : Announcing(b, p)' => b = d
    <3>1. d # c /\ Announcing(d, p)
      BY ZenonT(60), <2>2, <1>4, <1>5
    <3>2. ev # Final(p)
      BY ZenonT(60), <3>1, <1>1, <1>6, EventNames DEF EventInv, FinalInv
    <3>3. \A b \in Coroutines : Announcing(b, p)' => Announcing(b, p)
      BY ZenonT(60), <1>4, <1>5
    <3> QED BY ZenonT(60), <3>1, <3>2, <3>3, <1>2, <1>3 DEF EventInv, FinalInv
  <2> QED BY ZenonT(60), <2>1, <2>2 DEF FinalInv
<1>8. CloseInv'
  <2>1. Announced(JobComplete)' => \A p \in Pages : Terminal(p)'
    BY ZenonT(60), <1>2, <1>3, <1>6, EventNames DEF EventInv, CloseInv
  <2>2. \A d \in Coroutines : Closing(d)' => Closing(d)
    BY ZenonT(60), <1>4, <1>5
  <2>3. ASSUME NEW d \in Coroutines, Closing(d)'
        PROVE  ~Announced(JobComplete)'
    <3>1. ev # JobComplete
      BY ZenonT(60), <2>2, <2>3, <1>6, EventNames DEF EventInv, CloseInv
    <3> QED BY ZenonT(60), <3>1, <2>2, <2>3, <1>3 DEF EventInv, CloseInv
  <2> QED BY ZenonT(60), <2>1, <2>2, <2>3, <1>2 DEF EventInv, CloseInv
<1>9. LayoutEventInv'
  <2>1. ASSUME NEW d \in Coroutines, At(d, "emitPartial")'
        PROVE  HasLayout(Page(d))'
    <3>1. At(d, "emitPartial") /\ Page(d)' = Page(d)
      BY ZenonT(60), <2>1, <1>4, <1>5
    <3> QED BY <3>1 DEF EventInv, LayoutEventInv, HasLayout, Publishes
  <2>2. ASSUME NEW p \in Pages, Announced(Partial(p))' PROVE HasLayout(p)'
    BY ZenonT(60), <2>2, <1>2, <1>3, <1>6, EventNames DEF EventInv, LayoutEventInv
  <2> QED BY ZenonT(60), <2>1, <2>2 DEF LayoutEventInv
<1>10. AnnouncedOnce'
  <2>1. Announced(ev) => ev.event = "page.partial"
    BY ZenonT(60), <1>1, <1>6, EventNames DEF EventInv, FinalInv, CloseInv
  <2> QED BY ZenonT(60), <2>1, AppendOnce DEF EventInv, Publishes
<1> QED BY ZenonT(60), <1>7, <1>8, <1>9, <1>10 DEF EventInv

LEMMA EventInvariant == Spec => [](EventInv /\ DoneCountExact)
<1>1. Init => EventInv
  <2> SUFFICES ASSUME Init PROVE EventInv
    BY ZenonT(60)
  <2>1. \A ev : ~Announced(ev)
    BY DEF Init, Announced
  <2>2. \A c \in Coroutines : co[c].pc = "idle"
    BY IdleCoherent DEF Init
  <2> QED BY <2>1, <2>2 DEF Init, EventInv, FinalInv, CloseInv, LayoutEventInv, AnnouncedOnce,
                            Announcing, Closing, At
<1>2. TypeInv /\ EventInv /\ DoneCountExact' /\ [Next]_vars => EventInv'
  <2> SUFFICES ASSUME TypeInv, EventInv, DoneCountExact', Effect PROVE EventInv'
    BY NextEffect
  <2> QED BY ZenonT(60), QuietEvents, MoveEvents, PublishEvents DEF Effect
<1> QED BY <1>1, <1>2, TypeInvariant, CountIsExact, PTL DEF Spec

(* A page.final is published at most once per page and job.complete at     *)
(* most once per job, for every number of pages, workers, crashes, lapsed  *)
(* leases and lost replies: _emit runs only after the one transition that  *)
(* settled the page, or brought done_count to the total.                   *)
THEOREM PublishedOnce == Spec => []AnnouncedOnce
BY EventInvariant, PTL DEF EventInv

(* No event announces a state that is not committed: after job.complete    *)
(* every page is terminal, after a page.final that page is.                *)
THEOREM CommitsPrecedeEvents == Spec => []EventsFollowCommits
<1>1. TypeInv /\ EventInv => EventsFollowCommits
  <2> SUFFICES ASSUME TypeInv, EventInv, NEW i \in DOMAIN events
               PROVE  LET ev == events[i] IN
                      /\ ev.event = "job.complete" => \A p \in Pages : Terminal(p)
                      /\ ev.event = "page.final" => Terminal(ev.page)
                      /\ ev.event = "page.partial"
                            => pageState[ev.page] \in LayoutCommitted \cup {"FAILED"}
    BY DEF EventsFollowCommits
  <2>1. Announced(events[i])
    BY DEF Announced
  <2>2. events[i] \in [event : {"page.partial", "page.final"}, page : Pages] \cup {JobComplete}
    BY DEF TypeInv, TypeOK
  <2>3. CASE events[i] = JobComplete
    BY ZenonT(60), <2>1, <2>3, EventNames DEF EventInv, CloseInv
  <2>4. CASE events[i] \in [event : {"page.partial", "page.final"}, page : Pages]
    <3>1. PICK p \in Pages : events[i] = Final(p) \/ events[i] = Partial(p)
      BY ZenonT(60), <2>4 DEF Final, Partial
    <3>2. CASE events[i] = Final(p)
      <4>1. Terminal(p)
        BY ZenonT(60), <3>2, <2>1 DEF EventInv, FinalInv
      <4>2. events[i].event = "page.final" /\ events[i].page = p
        BY ZenonT(60), <3>2, EventNames
      <4> QED BY ZenonT(60), <4>1, <4>2
    <3>3. CASE events[i] = Partial(p)
      <4>1. HasLayout(p)
        BY ZenonT(60), <3>3, <2>1 DEF EventInv, LayoutEventInv
      <4>2. events[i].event = "page.partial" /\ events[i].page = p
        BY <3>3, EventNames
      <4> QED BY ZenonT(60), <4>1, <4>2 DEF HasLayout
    <3> QED BY ZenonT(60), <3>1, <3>2, <3>3
  <2> QED BY ZenonT(60), <2>2, <2>3, <2>4
<1> QED BY <1>1, TypeInvariant, EventInvariant, PTL

-----------------------------------------------------------------------------
(***************************************************************************)
(* The orchestrator implements the job contract                            *)
(***************************************************************************)

LEMMA OutcomeFacts ==
    ASSUME NEW s \in PageState
    PROVE  /\ OutcomeOf(s) = "none" <=> s \in {"PENDING", "LAYOUT_RUNNING"}
           /\ OutcomeOf(s) = "layout" <=> s \in {"LAYOUT_DONE", "VLM_RUNNING"}
           /\ OutcomeOf(s) \in Job!Settled <=> s \in TERMINAL_STATES
           /\ OutcomeOf(s) = "failed" <=> s = "FAILED"
<1>1. TERMINAL_STATES = {"DONE", "FALLBACK_DONE", "FAILED"}
  BY ZenonT(60), TableFacts
<1> QED BY <1>1 DEF OutcomeOf, PageState, Job!Settled

LEMMA RefinementStep ==
    ASSUME TypeInv, EventInv, Effect
    PROVE  [Job!Next]_(Job!vars)
<1> DEFINE out == [p \in Pages |-> OutcomeOf(pageState[p])]
           ann == {p \in Pages : Announced(Final(p))}
           closed == Announced(JobComplete)
<1>1. CASE Quiet
  <2>1. out' = out /\ ann' = ann /\ closed' = closed /\ doneCount' = doneCount
    BY ZenonT(60), <1>1 DEF Quiet, Announced
  <2> QED BY ZenonT(60), <2>1 DEF Job!vars
<1>2. ASSUME NEW c \in Coroutines, co[c].pc # "idle", NEW t \in PageState,
             Shifts(c, t) \/ Settles(c, t)
      PROVE  [Job!Next]_(Job!vars)
  <2>0. PICK q \in Pages : q = Page(c)
    BY ZenonT(60), <1>2, PageInPages
  <2>1. /\ ann' = ann /\ closed' = closed
        /\ pageState \in [Pages -> PageState]
        /\ pageState' = [pageState EXCEPT ![q] = t]
        /\ pageState[q] \in PageState \ TERMINAL_STATES
    BY <1>2, <2>0 DEF Shifts, Settles, Announced, TypeInv, TypeOK
  <2>2. out' = [out EXCEPT ![q] = OutcomeOf(t)] /\ out[q] = OutcomeOf(pageState[q])
    BY ZenonT(60), <2>1
  <2>3. CASE Settles(c, t)
    <3>1. /\ out[q] \notin Job!Settled
          /\ out[q] = "none" => OutcomeOf(t) = "failed"
          /\ OutcomeOf(t) \in Job!Settled
          /\ doneCount' = doneCount + 1
      BY ZenonT(60), <2>0, <2>1, <2>2, <2>3, OutcomeFacts DEF Settles, LayoutCommitted
    <3>2. Job!Settle(q, OutcomeOf(t))
      BY ZenonT(60), <2>1, <2>2, <3>1 DEF Job!Settle
    <3> QED BY ZenonT(60), <3>1, <3>2 DEF Job!Next
  <2>4. CASE Shifts(c, t)
    <3>1. doneCount' = doneCount /\ t \in PageState \ TERMINAL_STATES
      BY ZenonT(60), <2>4 DEF Shifts
    <3>2. pageState[q] \in LayoutCommitted => t \in LayoutCommitted
      BY ZenonT(60), <2>0, <2>4 DEF Shifts
    <3>3. \/ OutcomeOf(t) = OutcomeOf(pageState[q])
          \/ OutcomeOf(pageState[q]) = "none" /\ OutcomeOf(t) = "layout"
      BY ZenonT(60), <2>1, <3>1, <3>2, TableFacts, OutcomeFacts DEF PageState, LayoutCommitted
    <3>4. CASE OutcomeOf(t) = OutcomeOf(pageState[q])
      <4>1. out' = out
        BY ZenonT(60), <2>2, <3>4
      <4> QED BY ZenonT(60), <2>1, <3>1, <4>1 DEF Job!vars
    <3>5. CASE OutcomeOf(pageState[q]) = "none" /\ OutcomeOf(t) = "layout"
      <4>1. Job!GainLayout(q)
        BY ZenonT(60), <2>1, <2>2, <3>1, <3>5 DEF Job!GainLayout
      <4> QED BY ZenonT(60), <4>1 DEF Job!Next
    <3> QED BY ZenonT(60), <3>3, <3>4, <3>5
  <2> QED BY ZenonT(60), <1>2, <2>3, <2>4
<1>3. ASSUME NEW c \in Coroutines, co[c].pc # "idle", NEW ev, Publishes(c, ev)
      PROVE  [Job!Next]_(Job!vars)
  <2>0. PICK q \in Pages : q = Page(c)
    BY ZenonT(60), <1>3, PageInPages
  <2>1. out' = out /\ doneCount' = doneCount
    BY <1>3 DEF Publishes
  <2>2. \A x : Announced(x)' <=> Announced(x) \/ x = ev
    BY ZenonT(60), <1>3, AppendAnnounced DEF Publishes
  <2>3. \A p \in Pages : Terminal(p) => out[p] \in Job!Settled
    BY ZenonT(60), OutcomeFacts DEF Terminal, TypeInv, TypeOK
  <2>4. CASE At(c, "emitPartial")
    <3>1. ev = Partial(q)
      BY ZenonT(60), <1>3, <2>0, <2>4 DEF Publishes, At
    <3>2. ann' = ann
      <4>1. \A p \in Pages : Final(p) # ev
        BY ZenonT(60), <3>1, EventNames
      <4>2. \A p \in Pages : Announced(Final(p))' <=> Announced(Final(p))
        BY ZenonT(60), <2>2, <4>1 DEF Final
      <4> QED BY ZenonT(60), <4>2
    <3>3. closed' = closed
      <4>1. closed \in BOOLEAN /\ closed' \in BOOLEAN
        BY DEF Announced
      <4>2. closed' <=> closed
        BY ZenonT(60), <2>2, <3>1, EventNames
      <4> QED BY ZenonT(60), <4>1, <4>2
    <3> QED BY ZenonT(60), <2>1, <3>2, <3>3 DEF Job!vars
  <2>5. CASE co[c].pc \in {"emitFinal", "emitLast"}
    <3>1. ev = Final(q)
      BY ZenonT(60), <1>3, <2>0, <2>5 DEF Publishes, At
    <3>2. Terminal(q) /\ q \notin ann
      BY ZenonT(60), <2>0, <2>5 DEF EventInv, FinalInv, Announcing
    <3>3. ann' = ann \cup {q}
      <4>1. \A p \in Pages : Final(p) = ev <=> p = q
        BY ZenonT(60), <3>1, EventNames
      <4>2. \A p \in Pages : Announced(Final(p))' <=> Announced(Final(p)) \/ p = q
        BY ZenonT(60), <2>2, <4>1 DEF Final
      <4> QED BY <4>2
    <3>4. closed' = closed
      <4>1. closed \in BOOLEAN /\ closed' \in BOOLEAN
        BY ZenonT(60) DEF Announced
      <4>2. closed' <=> closed
        BY ZenonT(60), <2>2, <3>1, EventNames
      <4> QED BY ZenonT(60), <4>1, <4>2
    <3>5. Job!Announce(q)
      BY ZenonT(60), <2>1, <2>3, <3>2, <3>3, <3>4 DEF Job!Announce
    <3> QED BY ZenonT(60), <3>5 DEF Job!Next
  <2>6. CASE At(c, "emitComplete")
    <3>1. ev = JobComplete
      BY ZenonT(60), <1>3, <2>6 DEF Publishes, At
    <3>2. ~closed /\ \A p \in Pages : Terminal(p)
      BY ZenonT(60), <2>6 DEF At, EventInv, CloseInv, Closing
    <3>3. ann' = ann /\ closed' = TRUE
      BY ZenonT(60), <2>2, <3>1, EventNames
    <3>4. Job!Close
      BY ZenonT(60), <2>1, <2>3, <3>2, <3>3 DEF Job!Close
    <3> QED BY <3>4 DEF Job!Next
  <2> QED BY ZenonT(60), <1>3, <2>4, <2>5, <2>6 DEF Publishes, At
<1> QED BY ZenonT(60), <1>1, <1>2, <1>3 DEF Effect

(* PageLifecycle implements JobContract for every value of the constants:  *)
(* whatever is crashed, redelivered, rolled back, reclaimed or announced   *)
(* late underneath, a job's pages only move forward, a page is settled     *)
(* once and counted once, nothing is served without a layout result, and   *)
(* the announcements follow the settlements.                               *)
THEOREM ImplementsJobContract == Spec => JobSpec
<1>1. Init => Job!Init
  <2> SUFFICES ASSUME Init PROVE Job!Init
    BY ZenonT(60)
  <2>1. \A ev : Announced(ev) = FALSE
    BY DEF Init, Announced
  <2>2. OutcomeOf("PENDING") = "none"
    BY DEF OutcomeOf
  <2> QED BY ZenonT(60), <2>1, <2>2 DEF Init, Job!Init
<1>2. TypeInv /\ EventInv /\ [Next]_vars => [Job!Next]_(Job!vars)
  BY NextEffect, RefinementStep
<1> QED BY <1>1, <1>2, TypeInvariant, EventInvariant, PTL DEF Spec, JobSpec, Job!Spec
=============================================================================

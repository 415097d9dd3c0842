---------------------------- MODULE DispatchProofs ----------------------------
(***************************************************************************)
(* The safety theorems of Dispatch, for every number of workers and every  *)
(* settings: no entry is lost or doubled between the lanes, the pending    *)
(* lists and the acknowledgements, and the budgets of a pass keep a worker *)
(* within one page of its concurrency.                                     *)
(***************************************************************************)
EXTENDS Dispatch, FiniteSetTheorems, TLAPS

(* The provers a leaf that names none is given to, and in which order.     *)
USE SMT, ZenonT(30), SMTT(10), SMTT(20)

Labels == {"start", "top", "lead", "main", "last", "idle", "block", "poll", "wait",
           "drain", "stopped"}

Counts == [Lanes -> Nat]

Loops == [pc : Labels, lead : Nat, main : Nat]

Typed ==
  /\ settings \in Settings
  /\ backlog \in Counts /\ sent \in Counts
  /\ pending \in [Workers -> Counts] /\ running \in [Workers -> Counts]
  /\ slots \in [Workers -> Nat] /\ loop \in [Workers -> Loops]
  /\ gone \in Nat /\ readded \in Nat /\ poison \in Nat /\ crashes \in Nat

\* What is being handled is pending and has a slot.
Backed ==
  \A w \in Workers : /\ \A l \in Lanes : running[w][l] <= pending[w][l]
                     /\ Both(running[w]) <= slots[w]

\* A pass never plans more than there is room for; only the blocking read over
\* both lanes can go beyond its budget, by one.
Fits(k, n) ==
  /\ n <= CONCURRENCY + 1
  /\ k.pc = "lead" => n + k.lead <= CONCURRENCY
  /\ k.pc = "lead" /\ Reserve = 0 => k.main = k.lead
  /\ k.pc = "lead" /\ Reserve # 0 => n + k.lead + k.main <= CONCURRENCY
  /\ k.pc \in {"main", "last", "idle", "block"} => n + k.main <= CONCURRENCY /\ k.main > 0
  /\ k.pc = "poll" => n + k.lead <= CONCURRENCY

RoomInv == Typed /\ Backed /\ \A w \in Workers : Fits(loop[w], slots[w])

-----------------------------------------------------------------------------
(* Operators.                                                              *)

LEMMA MinFacts ==
  ASSUME NEW a \in Int, NEW b \in Int
  PROVE  Min({a, b}) \in Int /\ Min({a, b}) = IF a <= b THEN a ELSE b
BY DEF Min

LEMMA MaxFacts ==
  ASSUME NEW a \in Int, NEW b \in Int
  PROVE  Max({a, b}) \in Int /\ Max({a, b}) = IF a <= b THEN b ELSE a
BY DEF Max

LEMMA BothFacts ==
  ASSUME NEW f \in Counts
  PROVE  Both(f) \in Nat /\ f["lead"] \in Nat /\ f["main"] \in Nat
BY DEF Both, Counts, Lanes

LEMMA SettingFacts ==
  ASSUME settings \in Settings
  PROVE  /\ CONCURRENCY \in Nat /\ CONCURRENCY >= 1 /\ PREFETCH \in Nat /\ PREFETCH >= 1
         /\ Reserve \in Nat /\ Reserve < CONCURRENCY
<1>1. /\ CONCURRENCY \in Nat /\ CONCURRENCY >= 1 /\ PREFETCH \in Nat /\ PREFETCH >= 1
      /\ LEAD_RESERVE \in Nat
  BY DispatchAssumption DEF CONCURRENCY, PREFETCH, LEAD_RESERVE
<1>2. Reserve = IF LEAD_RESERVE <= CONCURRENCY - 1 THEN LEAD_RESERVE ELSE CONCURRENCY - 1
  BY <1>1, MinFacts DEF Reserve
<1> QED BY <1>1, <1>2

LEMMA AtFacts ==
  ASSUME NEW pc \in Labels
  PROVE  At(pc) \in Loops /\ At(pc).pc = pc /\ At(pc).lead = 0 /\ At(pc).main = 0
BY DEF At, Loops

\* What a read does: k[l] entries of lane l delivered, bad[l] of them quarantined.
Reads(w, k, bad) ==
  /\ backlog' = [l \in Lanes |-> backlog[l] - k[l]]
  /\ pending' = [pending EXCEPT ![w] = [l \in Lanes |-> pending[w][l] + k[l] - bad[l]]]
  /\ running' = [running EXCEPT ![w] = [l \in Lanes |-> running[w][l] + k[l] - bad[l]]]
  /\ slots' = [slots EXCEPT ![w] = slots[w] + Both(k) - Both(bad)]
  /\ gone' = gone + Both(bad) /\ poison' = poison + Both(bad)
  /\ UNCHANGED <<settings, sent, readded, crashes>>

LEMMA TakeReads ==
  ASSUME Typed, NEW w \in Workers, NEW n \in Counts, NEW some, NEW none, Take(w, n, some, none)
  PROVE  \E k, bad \in Counts :
           /\ \A l \in Lanes : /\ bad[l] <= k[l] /\ k[l] <= backlog[l]
                               /\ k[l] = IF n[l] <= backlog[l] THEN n[l] ELSE backlog[l]
           /\ Reads(w, k, bad)
           /\ loop' = [loop EXCEPT ![w] = IF Both(k) > Both(bad) THEN some ELSE none]
<1> DEFINE k == [l \in Lanes |-> Min({n[l], backlog[l]})]
<1>1. \A l \in Lanes : /\ n[l] \in Nat /\ backlog[l] \in Nat
                       /\ k[l] = IF n[l] <= backlog[l] THEN n[l] ELSE backlog[l]
  <2>1. \A l \in Lanes : n[l] \in Nat /\ backlog[l] \in Nat
    BY DEF Typed, Counts
  <2>2. \A l \in Lanes : k[l] = Min({n[l], backlog[l]})
    OBVIOUS
  <2>3. ASSUME NEW l \in Lanes
        PROVE  Min({n[l], backlog[l]}) = IF n[l] <= backlog[l] THEN n[l] ELSE backlog[l]
    BY <2>1, MinFacts
  <2> HIDE DEF k
  <2> QED BY <2>1, <2>2, <2>3
<1>2. k \in Counts
  <2>1. \A l \in Lanes : k[l] \in Nat
    BY <1>1
  <2> QED BY <2>1 DEF Counts
<1>3. PICK bad \in [Lanes -> 0..MaxPoison] :
        /\ \A l \in Lanes : bad[l] <= k[l]
        /\ backlog' = [l \in Lanes |-> backlog[l] - k[l]]
        /\ pending' = [pending EXCEPT ![w] = [l \in Lanes |-> @[l] + k[l] - bad[l]]]
        /\ running' = [running EXCEPT ![w] = [l \in Lanes |-> @[l] + k[l] - bad[l]]]
        /\ slots' = [slots EXCEPT ![w] = @ + Both(k) - Both(bad)]
        /\ gone' = gone + Both(bad) /\ poison' = poison + Both(bad)
        /\ loop' = [loop EXCEPT ![w] = IF Both(k) > Both(bad) THEN some ELSE none]
        /\ UNCHANGED <<settings, sent, readded, crashes>>
  BY DEF Take
<1>4. bad \in Counts
  <2>1. \A l \in Lanes : bad[l] \in Nat
    BY <1>3, DispatchAssumption
  <2> QED BY <2>1, <1>3 DEF Counts
<1> HIDE DEF k
<1>5. Reads(w, k, bad)
  BY <1>3 DEF Reads, Typed
<1>6. \A l \in Lanes : k[l] <= backlog[l]
  BY <1>1
<1> QED BY <1>1, <1>2, <1>3, <1>4, <1>5, <1>6

-----------------------------------------------------------------------------
(* The steps.                                                              *)

LEMMA SameSettings ==
  ASSUME settings' = settings
  PROVE  CONCURRENCY' = CONCURRENCY /\ Reserve' = Reserve
BY DEF CONCURRENCY, Reserve, LEAD_RESERVE

\* A read keeps the invariant if the loop goes on with a plan that fits.
LEMMA ReadKeeps ==
  ASSUME RoomInv, NEW w \in Workers, NEW k \in Counts, NEW bad \in Counts,
         \A l \in Lanes : bad[l] <= k[l] /\ k[l] <= backlog[l],
         Reads(w, k, bad), NEW r \in Loops, loop' = [loop EXCEPT ![w] = r],
         Fits(r, slots[w] + Both(k) - Both(bad))
  PROVE  RoomInv'
<1>1. /\ Both(k) \in Nat /\ Both(bad) \in Nat /\ Both(bad) <= Both(k)
  <2>1. /\ k["lead"] \in Nat /\ k["main"] \in Nat /\ bad["lead"] \in Nat /\ bad["main"] \in Nat
        /\ bad["lead"] <= k["lead"] /\ bad["main"] <= k["main"]
    BY BothFacts DEF Lanes
  <2> QED BY <2>1 DEF Both
<1>2. /\ slots[w] \in Nat /\ slots' \in [Workers -> Nat]
      /\ slots'[w] = slots[w] + Both(k) - Both(bad)
      /\ \A v \in Workers \ {w} : slots'[v] = slots[v]
  BY <1>1 DEF Reads, RoomInv, Typed
<1>3. backlog' \in Counts
  <2>1. \A l \in Lanes : backlog[l] \in Nat /\ k[l] \in Nat /\ k[l] <= backlog[l]
    BY DEF RoomInv, Typed, Counts
  <2>2. \A l \in Lanes : backlog[l] - k[l] \in Nat
    BY <2>1
  <2> QED BY <2>2 DEF Reads, Counts
<1>4. ASSUME NEW f \in [Workers -> Counts]
      PROVE  /\ [f EXCEPT ![w] = [l \in Lanes |-> f[w][l] + k[l] - bad[l]]] \in [Workers -> Counts]
             /\ \A l \in Lanes :
                  [f EXCEPT ![w] = [m \in Lanes |-> f[w][m] + k[m] - bad[m]]][w][l]
                    = f[w][l] + k[l] - bad[l]
             /\ \A v \in Workers \ {w} :
                  [f EXCEPT ![w] = [l \in Lanes |-> f[w][l] + k[l] - bad[l]]][v] = f[v]
  <2>1. \A l \in Lanes : f[w][l] \in Nat /\ k[l] \in Nat /\ bad[l] \in Nat /\ bad[l] <= k[l]
    BY DEF Counts
  <2>2. \A l \in Lanes : f[w][l] + k[l] - bad[l] \in Nat
    BY <2>1
  <2>3. [l \in Lanes |-> f[w][l] + k[l] - bad[l]] \in Counts
    BY <2>2 DEF Counts
  <2> QED BY <2>3
<1>5. /\ pending' \in [Workers -> Counts] /\ running' \in [Workers -> Counts]
      /\ \A l \in Lanes : /\ pending'[w][l] = pending[w][l] + k[l] - bad[l]
                          /\ running'[w][l] = running[w][l] + k[l] - bad[l]
      /\ \A v \in Workers \ {w} : pending'[v] = pending[v] /\ running'[v] = running[v]
  BY <1>4 DEF Reads, RoomInv, Typed
<1>6. Typed'
  BY <1>1, <1>2, <1>3, <1>5 DEF Reads, RoomInv, Typed
<1>7. Both(running'[w]) = Both(running[w]) + Both(k) - Both(bad)
  <2>1. /\ running[w]["lead"] \in Nat /\ running[w]["main"] \in Nat
        /\ k["lead"] \in Nat /\ k["main"] \in Nat /\ bad["lead"] \in Nat /\ bad["main"] \in Nat
    BY DEF RoomInv, Typed, Counts, Lanes
  <2>2. /\ running'[w]["lead"] = running[w]["lead"] + k["lead"] - bad["lead"]
        /\ running'[w]["main"] = running[w]["main"] + k["main"] - bad["main"]
    BY <1>5 DEF Lanes
  <2> QED BY <2>1, <2>2 DEF Both
<1>8. Backed'
  <2> SUFFICES ASSUME NEW v \in Workers
               PROVE  /\ \A l \in Lanes : running'[v][l] <= pending'[v][l]
                      /\ Both(running'[v]) <= slots'[v]
    BY DEF Backed, Both
  <2>1. CASE v # w
    BY <2>1, <1>2, <1>5 DEF RoomInv, Backed
  <2>2. CASE v = w
    <3>1. Both(running[w]) \in Nat /\ Both(running[w]) <= slots[w]
      BY BothFacts DEF RoomInv, Typed, Backed
    <3>2. Both(running'[w]) <= slots'[w]
      BY <3>1, <1>7, <1>1, <1>2
    <3>3. ASSUME NEW l \in Lanes PROVE running'[w][l] <= pending'[w][l]
      <4>1. /\ running[w][l] \in Nat /\ pending[w][l] \in Nat /\ k[l] \in Nat /\ bad[l] \in Nat
            /\ running[w][l] <= pending[w][l]
        BY DEF RoomInv, Typed, Backed, Counts
      <4> QED BY <4>1, <1>5
    <3> QED BY <3>2, <3>3, <2>2
  <2> QED BY <2>1, <2>2
<1>9. ASSUME NEW v \in Workers PROVE Fits(loop[v], slots[v])'
  <2>1. Fits(loop'[v], slots'[v])
    BY <1>2 DEF RoomInv, Typed
  <2> QED BY <2>1, SameSettings DEF Fits, Reads
<1> QED BY <1>6, <1>8, <1>9 DEF RoomInv

\* One lane's worth of a read.
LEMMA OnlyFacts ==
  ASSUME NEW l \in Lanes, NEW n \in Nat
  PROVE  Only(l, n) \in Counts /\ Only(l, n)[l] = n /\ \A m \in Lanes \ {l} : Only(l, n)[m] = 0
BY DEF Only, Counts

LEMMA IdleFacts ==
  ASSUME NEW w \in Workers, Typed
  PROVE  Idle(w) \in Loops /\ Idle(w).pc \in {"wait", "top"}
BY AtFacts DEF Idle, Labels

LEMMA EasyFits ==
  ASSUME NEW r, r.pc \in {"start", "top", "wait", "drain", "stopped"}, NEW n,
         n <= CONCURRENCY + 1
  PROVE  Fits(r, n)
BY DEF Fits

\* A read of one lane keeps the invariant if the plans for both outcomes fit.
LEMMA ReadOne ==
  ASSUME RoomInv, NEW w \in Workers, NEW l \in Lanes, NEW n \in Nat,
         NEW some \in Loops, NEW none \in Loops, Take(w, Only(l, n), some, none),
         \A u \in Nat : u > 0 /\ u <= n /\ u <= backlog[l] => Fits(some, slots[w] + u),
         Fits(none, slots[w])
  PROVE  RoomInv'
<1>1. Only(l, n) \in Counts /\ Only(l, n)[l] = n /\ \A m \in Lanes \ {l} : Only(l, n)[m] = 0
  BY OnlyFacts
<1>2. Typed
  BY DEF RoomInv
<1>3. PICK k, bad \in Counts :
        /\ \A m \in Lanes : /\ bad[m] <= k[m] /\ k[m] <= backlog[m]
                            /\ k[m] = IF Only(l, n)[m] <= backlog[m] THEN Only(l, n)[m] ELSE backlog[m]
        /\ Reads(w, k, bad)
        /\ loop' = [loop EXCEPT ![w] = IF Both(k) > Both(bad) THEN some ELSE none]
  BY <1>1, <1>2, TakeReads
<1>4. \A m \in Lanes : backlog[m] \in Nat /\ k[m] \in Nat /\ bad[m] \in Nat
  BY <1>2 DEF Typed, Counts
<1>5. k[l] <= n /\ k[l] <= backlog[l] /\ \A m \in Lanes \ {l} : k[m] = 0 /\ bad[m] = 0
  BY <1>1, <1>3, <1>4
<1>6. Both(k) = k[l] /\ Both(bad) = bad[l] /\ bad[l] <= k[l]
  BY <1>3, <1>4, <1>5 DEF Both, Lanes
<1>7. slots[w] \in Nat
  BY <1>2 DEF Typed
<1>8. CASE k[l] > bad[l]
  <2>1. loop' = [loop EXCEPT ![w] = some]
    BY <1>3, <1>6, <1>8
  <2>2. k[l] - bad[l] \in Nat /\ k[l] - bad[l] > 0 /\ k[l] - bad[l] <= n /\ k[l] - bad[l] <= backlog[l]
    BY <1>4, <1>5, <1>8
  <2>3. Fits(some, slots[w] + (k[l] - bad[l]))
    BY <2>2
  <2>4. slots[w] + (k[l] - bad[l]) = slots[w] + Both(k) - Both(bad)
    BY <1>4, <1>6, <1>7
  <2> QED BY <2>1, <2>3, <2>4, <1>3, ReadKeeps
<1>9. CASE ~(k[l] > bad[l])
  <2>1. loop' = [loop EXCEPT ![w] = none]
    BY <1>3, <1>6, <1>9
  <2>2. slots[w] + Both(k) - Both(bad) = slots[w]
    BY <1>4, <1>6, <1>7, <1>9
  <2>3. Fits(none, slots[w] + Both(k) - Both(bad))
    BY <2>2
  <2> QED BY <2>1, <2>3, <1>3, ReadKeeps
<1> QED BY <1>8, <1>9

\* A step that leaves the lanes and the pending lists alone.
LEMMA LoopKeeps ==
  ASSUME RoomInv, NEW w \in Workers, NEW f \in Counts, NEW n \in Nat, NEW r \in Loops,
         \A l \in Lanes : f[l] <= pending[w][l], Both(f) <= n, Fits(r, n),
         running' = [running EXCEPT ![w] = f], slots' = [slots EXCEPT ![w] = n],
         loop' = [loop EXCEPT ![w] = r],
         UNCHANGED <<backlog, pending, gone, settings, sent, readded, poison, crashes>>
  PROVE  RoomInv'
<1>1. Typed'
  BY DEF RoomInv, Typed
<1>2. /\ running'[w] = f /\ slots'[w] = n /\ loop'[w] = r
      /\ \A v \in Workers \ {w} : running'[v] = running[v] /\ slots'[v] = slots[v] /\ loop'[v] = loop[v]
  BY DEF RoomInv, Typed
<1>3. Backed'
  BY <1>2 DEF RoomInv, Backed, Both
<1>4. ASSUME NEW v \in Workers PROVE Fits(loop[v], slots[v])'
  <2>1. Fits(loop'[v], slots'[v])
    BY <1>2 DEF RoomInv
  <2> QED BY <2>1, SameSettings DEF Fits
<1> QED BY <1>1, <1>3, <1>4 DEF RoomInv

LEMMA ResumeKeeps ==
  ASSUME RoomInv, NEW w \in Workers, Resume(w)
  PROVE  RoomInv'
<1> DEFINE lead == Min({CONCURRENCY, pending[w]["lead"]})
           main == Min({CONCURRENCY - lead, pending[w]["main"]})
<1>1. /\ CONCURRENCY \in Nat /\ pending[w]["lead"] \in Nat /\ pending[w]["main"] \in Nat
  BY SettingFacts, BothFacts DEF RoomInv, Typed
<1>2. lead \in Nat /\ lead <= CONCURRENCY /\ lead <= pending[w]["lead"]
  BY <1>1, MinFacts
<1>3. main \in Nat /\ lead + main <= CONCURRENCY /\ main <= pending[w]["main"]
  <2> HIDE DEF lead
  <2>1. CONCURRENCY - lead \in Nat
    BY <1>1, <1>2
  <2> QED BY <2>1, <1>1, <1>2, MinFacts
<1>4. /\ running' = [running EXCEPT ![w] = [lead |-> lead, main |-> main]]
      /\ slots' = [slots EXCEPT ![w] = lead + main]
      /\ loop' = [loop EXCEPT ![w] = At("top")]
      /\ UNCHANGED <<backlog, pending, gone, settings, sent, readded, poison, crashes>>
  BY DEF Resume, shared
<1> HIDE DEF lead, main
<1> DEFINE f == [lead |-> lead, main |-> main]
<1>5. f \in Counts /\ Both(f) = lead + main /\ \A l \in Lanes : f[l] <= pending[w][l]
  BY <1>2, <1>3 DEF Counts, Lanes, Both
<1>6. At("top") \in Loops /\ At("top").pc = "top"
  BY AtFacts DEF Labels
<1>7. lead + main \in Nat /\ lead + main <= CONCURRENCY + 1 /\ Both(f) <= lead + main
  BY <1>1, <1>2, <1>3, <1>5
<1>8. Fits(At("top"), lead + main)
  BY <1>6, <1>7, EasyFits
<1> HIDE DEF f
<1> QED BY <1>4, <1>5, <1>6, <1>7, <1>8, LoopKeeps DEF f

LEMMA PlanKeeps ==
  ASSUME RoomInv, NEW w \in Workers, Plan(w)
  PROVE  RoomInv'
<1>1. /\ CONCURRENCY \in Nat /\ PREFETCH \in Nat /\ Reserve \in Nat
      /\ slots[w] \in Nat /\ running[w]["lead"] \in Nat /\ slots[w] <= CONCURRENCY + 1
  BY SettingFacts, BothFacts DEF RoomInv, Typed, Fits
<1>2. Capacity(w) = CONCURRENCY - slots[w] /\ Capacity(w) \in Int
  BY <1>1 DEF Capacity
<1>3. LeadBudget(w) \in Nat
  BY <1>1, MaxFacts DEF LeadBudget
<1>4. MainBudget(w) \in Nat /\ (MainBudget(w) = 0 \/ MainBudget(w) <= Capacity(w) - LeadBudget(w))
  <2> DEFINE a == Capacity(w) - LeadBudget(w)
             b == Min({PREFETCH, a})
  <2>1. a \in Int
    BY <1>2, <1>3
  <2>2. b \in Int /\ b <= a
    BY <2>1, <1>1, MinFacts
  <2>3. MainBudget(w) = Max({0, b})
    BY DEF MainBudget
  <2> HIDE DEF a, b
  <2>4. MainBudget(w) = IF 0 <= b THEN b ELSE 0
    BY <2>2, <2>3, MaxFacts
  <2>5. MainBudget(w) \in Nat /\ (MainBudget(w) = 0 \/ MainBudget(w) <= a)
    BY <2>1, <2>2, <2>4
  <2> QED BY <2>5 DEF a
<1>5. PICK r \in Loops : loop' = [loop EXCEPT ![w] = r] /\ Fits(r, slots[w])
  <2> DEFINE plan == CASE Capacity(w) <= 0 -> At("wait")
                       [] Capacity(w) > 0 /\ Reserve = 0 ->
                            [pc |-> "lead", lead |-> Min({PREFETCH, Capacity(w)}),
                             main |-> Min({PREFETCH, Capacity(w)})]
                       [] Capacity(w) > 0 /\ Reserve > 0 ->
                            [pc |-> "lead", lead |-> Min({LeadBudget(w), Capacity(w)}),
                             main |-> MainBudget(w)]
  <2>0. loop' = [loop EXCEPT ![w] = plan]
    BY DEF Plan
  <2>1. CASE Capacity(w) <= 0
    <3>1. plan = At("wait")
      BY <2>1, <1>2
    <3>2. At("wait") \in Loops /\ At("wait").pc = "wait"
      BY AtFacts DEF Labels
    <3>3. Fits(At("wait"), slots[w])
      BY <3>2, <1>1, EasyFits
    <3> HIDE DEF plan
    <3> QED BY <3>1, <3>2, <3>3, <2>0
  <2>2. CASE Capacity(w) > 0 /\ Reserve = 0
    <3> DEFINE n == Min({PREFETCH, Capacity(w)})
               r == [pc |-> "lead", lead |-> n, main |-> n]
    <3>1. plan = r
      BY <2>2, <1>2
    <3> HIDE DEF plan
    <3>2. n \in Nat /\ n <= Capacity(w)
      BY <2>2, <1>1, <1>2, MinFacts
    <3> HIDE DEF n
    <3>3. r \in Loops /\ r.pc = "lead" /\ r.lead = n /\ r.main = n
      BY <3>2 DEF Loops, Labels
    <3> HIDE DEF r
    <3>4. Fits(r, slots[w])
      BY <3>2, <3>3, <2>2, <1>1, <1>2 DEF Fits
    <3> QED BY <3>1, <3>3, <3>4, <2>0
  <2>3. CASE Capacity(w) > 0 /\ Reserve > 0
    <3> DEFINE n == Min({LeadBudget(w), Capacity(w)})
               r == [pc |-> "lead", lead |-> n, main |-> MainBudget(w)]
    <3>1. plan = r
      BY <2>3, <1>1, <1>2
    <3> HIDE DEF plan
    <3>2. n \in Nat /\ n <= Capacity(w) /\ n <= LeadBudget(w)
      BY <2>3, <1>2, <1>3, MinFacts
    <3> HIDE DEF n
    <3>3. r \in Loops /\ r.pc = "lead" /\ r.lead = n /\ r.main = MainBudget(w)
      BY <3>2, <1>4 DEF Loops, Labels
    <3> HIDE DEF r
    <3>4. Fits(r, slots[w])
      BY <3>2, <3>3, <2>3, <1>1, <1>2, <1>3, <1>4 DEF Fits
    <3> QED BY <3>1, <3>3, <3>4, <2>0
  <2> QED BY <2>1, <2>2, <2>3, <1>1, <1>2
<1>6. /\ running' = [running EXCEPT ![w] = running[w]] /\ slots' = [slots EXCEPT ![w] = slots[w]]
      /\ UNCHANGED <<backlog, pending, gone, settings, sent, readded, poison, crashes>>
  BY DEF Plan, shared, RoomInv, Typed
<1>7. /\ running[w] \in Counts /\ Both(running[w]) <= slots[w]
      /\ \A l \in Lanes : running[w][l] <= pending[w][l]
  BY DEF RoomInv, Typed, Backed
<1> QED BY <1>1, <1>5, <1>6, <1>7, LoopKeeps

LEMMA WorkerFacts ==
  ASSUME RoomInv, NEW w \in Workers
  PROVE  /\ CONCURRENCY \in Nat /\ Reserve \in Nat /\ slots[w] \in Nat
         /\ loop[w] \in Loops /\ loop[w].lead \in Nat /\ loop[w].main \in Nat
         /\ \A l \in Lanes : backlog[l] \in Nat
         /\ Fits(loop[w], slots[w]) /\ slots[w] <= CONCURRENCY + 1
<1>1. CONCURRENCY \in Nat /\ Reserve \in Nat
  BY SettingFacts DEF RoomInv, Typed
<1>2. slots[w] \in Nat /\ loop[w] \in Loops /\ \A l \in Lanes : backlog[l] \in Nat
  BY DEF RoomInv, Typed, Counts
<1>3. loop[w].lead \in Nat /\ loop[w].main \in Nat
  BY <1>2 DEF Loops
<1>4. Fits(loop[w], slots[w]) /\ slots[w] <= CONCURRENCY + 1
  BY DEF RoomInv, Fits
<1> QED BY <1>1, <1>2, <1>3, <1>4

LEMMA IdleFits ==
  ASSUME RoomInv, NEW w \in Workers
  PROVE  Idle(w) \in Loops /\ Fits(Idle(w), slots[w])
<1>1. Idle(w) \in Loops /\ Idle(w).pc \in {"wait", "top"}
  BY IdleFacts DEF RoomInv
<1> QED BY <1>1, WorkerFacts, EasyFits

LEMMA TopFits ==
  ASSUME NEW n \in Int, n <= CONCURRENCY + 1
  PROVE  At("top") \in Loops /\ Fits(At("top"), n)
BY AtFacts, EasyFits DEF Labels

LEMMA ReadLeadKeeps ==
  ASSUME RoomInv, NEW w \in Workers, ReadLead(w)
  PROVE  RoomInv'
<1> DEFINE lead  == loop[w].lead
           taken == Min({lead, backlog["lead"]})
           main  == IF Reserve = 0 THEN Min({loop[w].main, lead - taken}) ELSE loop[w].main
           goto(pc) == [pc |-> pc, lead |-> lead, main |-> main]
           some  == IF main > 0 THEN goto("last") ELSE At("top")
           none  == CASE main > 0 /\ taken = 0 -> goto("main")
                      [] main > 0 /\ taken > 0 -> goto("idle")
                      [] main <= 0 /\ taken = 0 /\ Reserve > 0 /\ settings.lead_poll -> goto("poll")
                      [] OTHER -> Idle(w)
<1>1. Take(w, Only("lead", lead), some, none)
  BY DEF ReadLead
<1>2. /\ CONCURRENCY \in Nat /\ Reserve \in Nat /\ slots[w] \in Nat
      /\ loop[w] \in Loops /\ lead \in Nat /\ loop[w].main \in Nat /\ backlog["lead"] \in Nat
      /\ Fits(loop[w], slots[w])
  BY WorkerFacts DEF Lanes
<1>3. taken \in Nat /\ taken <= lead /\ taken = IF lead <= backlog["lead"] THEN lead ELSE backlog["lead"]
  BY <1>2, MinFacts
<1>4. /\ slots[w] + lead <= CONCURRENCY
      /\ Reserve = 0 => loop[w].main = lead
      /\ Reserve # 0 => slots[w] + lead + loop[w].main <= CONCURRENCY
  BY <1>2 DEF ReadLead, Fits
<1> HIDE DEF lead, taken
<1>5. main \in Nat /\ slots[w] + taken + main <= CONCURRENCY
  <2>1. CASE Reserve = 0
    <3>1. lead - taken \in Nat /\ main = Min({loop[w].main, lead - taken})
      BY <2>1, <1>2, <1>3
    <3>2. main \in Nat /\ main <= lead - taken
      BY <3>1, <1>2, MinFacts
    <3> HIDE DEF main
    <3> QED BY <3>2, <1>2, <1>3, <1>4
  <2>2. CASE Reserve # 0
    BY <2>2, <1>2, <1>3, <1>4
  <2> QED BY <2>1, <2>2
<1> HIDE DEF main
<1>6. ASSUME NEW pc \in Labels
      PROVE  goto(pc) \in Loops /\ goto(pc).pc = pc /\ goto(pc).lead = lead /\ goto(pc).main = main
  BY <1>2, <1>5 DEF Loops
<1> HIDE DEF goto
<1>7. some \in Loops /\ \A u \in Nat : u <= taken => Fits(some, slots[w] + u)
  <2>1. CASE main > 0
    <3>1. some = goto("last")
      BY <2>1
    <3>2. goto("last") \in Loops /\ goto("last").pc = "last" /\ goto("last").main = main
      BY <1>6 DEF Labels
    <3>3. \A u \in Nat : u <= taken => Fits(goto("last"), slots[w] + u)
      BY <3>2, <2>1, <1>2, <1>3, <1>5 DEF Fits
    <3> QED BY <3>1, <3>2, <3>3
  <2>2. CASE ~(main > 0)
    <3>1. \A u \in Nat : u <= taken => slots[w] + u <= CONCURRENCY + 1
      BY <1>2, <1>3, <1>5
    <3>2. some = At("top")
      BY <2>2
    <3>3. At("top") \in Loops /\ At("top").pc = "top"
      BY AtFacts DEF Labels
    <3> HIDE DEF some
    <3> QED BY <3>1, <3>2, <3>3, EasyFits
  <2> QED BY <2>1, <2>2
<1>8. none \in Loops /\ Fits(none, slots[w])
  <2>1. CASE main > 0
    <3>1. none \in {goto("main"), goto("idle")}
      BY <2>1, <1>3, <1>5
    <3>2. ASSUME NEW pc \in {"main", "idle"} PROVE goto(pc) \in Loops /\ Fits(goto(pc), slots[w])
      <4>1. goto(pc) \in Loops /\ goto(pc).pc = pc /\ goto(pc).main = main
        BY <1>6 DEF Labels
      <4> QED BY <4>1, <2>1, <1>2, <1>3, <1>5 DEF Fits
    <3> HIDE DEF none
    <3> QED BY <3>1, <3>2
  <2>2. CASE ~(main > 0)
    <3>1. none \in {goto("poll"), Idle(w)}
      BY <2>2, <1>5
    <3>2. goto("poll") \in Loops /\ goto("poll").pc = "poll" /\ goto("poll").lead = lead
      BY <1>6 DEF Labels
    <3>3. Fits(goto("poll"), slots[w])
      BY <3>2, <1>2, <1>4 DEF Fits
    <3> HIDE DEF none
    <3> QED BY <3>1, <3>2, <3>3, IdleFits
  <2> QED BY <2>1, <2>2
<1> HIDE DEF some, none
<1>9. \A u \in Nat : u > 0 /\ u <= lead /\ u <= backlog["lead"] => Fits(some, slots[w] + u)
  BY <1>2, <1>3, <1>7
<1>10. "lead" \in Lanes /\ lead \in Nat /\ some \in Loops /\ none \in Loops /\ Fits(none, slots[w])
  BY <1>2, <1>7, <1>8 DEF Lanes
<1> QED BY <1>1, <1>9, <1>10, ReadOne

LEMMA ReadMainKeeps ==
  ASSUME RoomInv, NEW w \in Workers, ReadMain(w)
  PROVE  RoomInv'
<1> DEFINE n     == loop[w].main
           found == Min({n, backlog["main"]}) > 0
           blk   == [loop[w] EXCEPT !.pc = "block"]
           none  == CASE loop[w].pc = "last" -> At("top")
                      [] loop[w].pc = "idle" \/ found -> Idle(w)
                      [] OTHER -> blk
<1>1. Take(w, Only("main", n), At("top"), none)
  BY DEF ReadMain
<1>2. /\ CONCURRENCY \in Nat /\ slots[w] \in Nat /\ loop[w] \in Loops /\ n \in Nat
      /\ Fits(loop[w], slots[w]) /\ slots[w] <= CONCURRENCY + 1
  BY WorkerFacts
<1>3. slots[w] + n <= CONCURRENCY /\ n > 0
  BY <1>2 DEF ReadMain, Fits
<1>4. blk \in Loops /\ blk.pc = "block" /\ blk.main = n
  BY <1>2 DEF Loops, Labels
<1>5. none \in {At("top"), Idle(w), blk}
  BY Zenon
<1> HIDE DEF none, blk, n
<1>6. Fits(blk, slots[w])
  BY <1>2, <1>3, <1>4 DEF Fits
<1>7. At("top") \in Loops /\ Fits(At("top"), slots[w])
  BY <1>2, TopFits
<1>8. none \in Loops /\ Fits(none, slots[w])
  BY <1>4, <1>5, <1>6, <1>7, IdleFits
<1>9. ASSUME NEW u \in Nat, u <= n PROVE Fits(At("top"), slots[w] + u)
  <2>1. slots[w] + u \in Int /\ slots[w] + u <= CONCURRENCY + 1
    BY <1>2, <1>3, <1>9
  <2> QED BY <2>1, TopFits
<1>10. "main" \in Lanes
  BY DEF Lanes
<1> QED BY <1>1, <1>2, <1>7, <1>8, <1>9, <1>10, ReadOne

LEMMA PollLeadKeeps ==
  ASSUME RoomInv, NEW w \in Workers, PollLead(w)
  PROVE  RoomInv'
<1> DEFINE n == loop[w].lead
<1>1. Take(w, Only("lead", n), At("top"), Idle(w))
  BY DEF PollLead
<1>2. /\ CONCURRENCY \in Nat /\ slots[w] \in Nat /\ n \in Nat /\ Fits(loop[w], slots[w])
  BY WorkerFacts
<1>3. slots[w] + n <= CONCURRENCY
  BY <1>2 DEF PollLead, Fits
<1> HIDE DEF n
<1>4. ASSUME NEW u \in Nat, u <= n PROVE Fits(At("top"), slots[w] + u)
  <2>1. slots[w] + u \in Int /\ slots[w] + u <= CONCURRENCY + 1
    BY <1>2, <1>3, <1>4
  <2> QED BY <2>1, TopFits
<1>5. "lead" \in Lanes /\ At("top") \in Loops
  BY AtFacts DEF Lanes, Labels
<1> QED BY <1>1, <1>2, <1>4, <1>5, IdleFits, ReadOne

\* COUNT is per stream: with a budget of one, each of the two lanes may give one.
LEMMA ReadBothKeeps ==
  ASSUME RoomInv, NEW w \in Workers, ReadBoth(w)
  PROVE  RoomInv'
<1> DEFINE n == loop[w].main
           f == [l \in Lanes |-> Share(n)]
<1>1. Take(w, f, At("top"), Idle(w))
  BY DEF ReadBoth
<1>2. /\ CONCURRENCY \in Nat /\ slots[w] \in Nat /\ n \in Nat /\ Fits(loop[w], slots[w])
      /\ slots[w] <= CONCURRENCY + 1
  BY WorkerFacts
<1>3. slots[w] + n <= CONCURRENCY /\ n > 0
  BY <1>2 DEF ReadBoth, Fits
<1> HIDE DEF n
<1>4. Share(n) \in Nat /\ Share(n) + Share(n) <= n + 1
  <2>1. n \div 2 \in Nat /\ (n \div 2) + (n \div 2) <= n
    BY <1>2
  <2>2. PICK h \in Nat : h = n \div 2
    BY <2>1
  <2>3. Share(n) = IF 1 <= h THEN h ELSE 1
    BY <2>2, MaxFacts DEF Share
  <2> QED BY <2>1, <2>2, <2>3, <1>2, <1>3
<1>5. f \in Counts /\ \A l \in Lanes : f[l] = Share(n)
  BY <1>4 DEF Counts
<1> HIDE DEF f
<1>6. PICK k, bad \in Counts :
        /\ \A l \in Lanes : /\ bad[l] <= k[l] /\ k[l] <= backlog[l]
                            /\ k[l] = IF f[l] <= backlog[l] THEN f[l] ELSE backlog[l]
        /\ Reads(w, k, bad)
        /\ loop' = [loop EXCEPT ![w] = IF Both(k) > Both(bad) THEN At("top") ELSE Idle(w)]
  BY <1>1, <1>5, TakeReads DEF RoomInv
<1>7. /\ \A l \in Lanes : /\ k[l] \in Nat /\ bad[l] \in Nat /\ bad[l] <= k[l] /\ k[l] <= Share(n)
  BY <1>4, <1>5, <1>6, WorkerFacts DEF Counts
<1>8. Both(k) \in Nat /\ Both(bad) \in Nat /\ Both(bad) <= Both(k) /\ Both(k) <= n + 1
  BY <1>2, <1>4, <1>7 DEF Both, Lanes
<1> DEFINE r == IF Both(k) > Both(bad) THEN At("top") ELSE Idle(w)
           m == slots[w] + Both(k) - Both(bad)
<1>9. m <= CONCURRENCY + 1
  BY <1>2, <1>3, <1>8
<1>10. r \in Loops /\ r.pc \in {"top", "wait"}
  BY AtFacts, IdleFacts DEF RoomInv, Labels
<1> HIDE DEF r
<1>11. Fits(r, m)
  BY <1>9, <1>10, EasyFits
<1>12. loop' = [loop EXCEPT ![w] = r]
  BY <1>6 DEF r
<1> QED BY <1>6, <1>10, <1>11, <1>12, ReadKeeps

LEMMA WaitKeeps ==
  ASSUME RoomInv, NEW w \in Workers, Wait(w) \/ Stop(w) \/ Drained(w)
  PROVE  RoomInv'
<1>1. /\ CONCURRENCY \in Nat /\ slots[w] \in Nat /\ slots[w] <= CONCURRENCY + 1
  BY WorkerFacts
<1>2. /\ running[w] \in Counts /\ Both(running[w]) \in Nat /\ Both(running[w]) <= slots[w]
      /\ \A l \in Lanes : running[w][l] <= pending[w][l]
  BY BothFacts DEF RoomInv, Typed, Backed
<1>3. PICK n \in Nat, pc \in {"top", "drain", "stopped"} :
        /\ Both(running[w]) <= n /\ n <= slots[w]
        /\ slots' = [slots EXCEPT ![w] = n] /\ loop' = [loop EXCEPT ![w] = At(pc)]
  <2>1. CASE Wait(w)
    <3>1. /\ slots' = [slots EXCEPT ![w] = Both(running[w])]
          /\ loop' = [loop EXCEPT ![w] = At("top")]
      BY <2>1 DEF Wait
    <3>2. PICK b \in Nat : b = Both(running[w])
      BY <1>2
    <3>3. slots' = [slots EXCEPT ![w] = b] /\ Both(running[w]) <= b /\ b <= slots[w]
      BY <3>1, <3>2, <1>1, <1>2
    <3> QED BY <3>1, <3>3
  <2>2. CASE Stop(w)
    <3>1. slots' = [slots EXCEPT ![w] = slots[w]]
      BY <2>2 DEF Stop, RoomInv, Typed
    <3> QED BY <3>1, <2>2, <1>1, <1>2 DEF Stop
  <2>3. CASE Drained(w)
    <3>1. /\ Both(running[w]) = 0 /\ slots' = [slots EXCEPT ![w] = 0]
          /\ loop' = [loop EXCEPT ![w] = At("stopped")]
      BY <2>3 DEF Drained
    <3>2. 0 \in Nat /\ Both(running[w]) <= 0 /\ 0 <= slots[w]
      BY <3>1, <1>1
    <3> QED BY <3>1, <3>2
  <2> QED BY <2>1, <2>2, <2>3
<1>4. /\ running' = [running EXCEPT ![w] = running[w]]
      /\ UNCHANGED <<backlog, pending, gone, settings, sent, readded, poison, crashes>>
  BY DEF Wait, Stop, Drained, shared, RoomInv, Typed
<1>5. At(pc) \in Loops /\ At(pc).pc = pc
  BY AtFacts DEF Labels
<1>6. Fits(At(pc), n)
  BY <1>1, <1>3, <1>5, EasyFits
<1> QED BY <1>2, <1>3, <1>4, <1>5, <1>6, LoopKeeps

LEMMA HandlersKeep ==
  ASSUME RoomInv, NEW w \in Workers, NEW l \in Lanes, Handled(w, l) \/ Reclaim(w, l)
  PROVE  RoomInv'
<1>1. /\ pending[w] \in Counts /\ running[w] \in Counts /\ slots[w] \in Nat
      /\ \A m \in Lanes : /\ pending[w][m] \in Nat /\ running[w][m] \in Nat
                          /\ running[w][m] <= pending[w][m]
      /\ Both(running[w]) <= slots[w]
  BY DEF RoomInv, Typed, Backed, Counts
<1>2. PICK p, q \in Counts :
        /\ \A m \in Lanes : q[m] <= p[m] /\ q[m] <= running[w][m]
        /\ pending' = [pending EXCEPT ![w] = p] /\ running' = [running EXCEPT ![w] = q]
  <2> DEFINE p == [pending[w] EXCEPT ![l] = pending[w][l] - 1]
             q == [running[w] EXCEPT ![l] = running[w][l] - 1]
  <2>1. CASE Handled(w, l)
    <3>1. running[w][l] - 1 \in Nat /\ pending[w][l] - 1 \in Nat
      BY <2>1, <1>1 DEF Handled
    <3>2. p \in Counts /\ q \in Counts
      BY <3>1, <1>1 DEF Counts
    <3>3. \A m \in Lanes : q[m] <= p[m] /\ q[m] <= running[w][m]
      BY <3>1, <1>1 DEF Counts
    <3>4. pending' = [pending EXCEPT ![w] = p] /\ running' = [running EXCEPT ![w] = q]
      BY <2>1 DEF Handled
    <3> HIDE DEF p, q
    <3> QED BY <3>2, <3>3, <3>4
  <2>2. CASE Reclaim(w, l)
    <3>1. pending[w][l] - 1 \in Nat /\ running[w][l] <= pending[w][l] - 1
      BY <2>2, <1>1 DEF Reclaim
    <3>2. p \in Counts
      BY <3>1, <1>1 DEF Counts
    <3>3. \A m \in Lanes : running[w][m] <= p[m] /\ running[w][m] <= running[w][m]
      BY <3>1, <1>1 DEF Counts
    <3>4. pending' = [pending EXCEPT ![w] = p] /\ running' = [running EXCEPT ![w] = running[w]]
      BY <2>2 DEF Reclaim, RoomInv, Typed
    <3> HIDE DEF p
    <3> QED BY <3>2, <3>3, <3>4, <1>1
  <2> QED BY <2>1, <2>2
<1>3. /\ gone' = gone + 1 /\ (ReAdd \/ UNCHANGED <<backlog, readded>>)
      /\ UNCHANGED <<settings, slots, loop, sent, poison, crashes>>
  BY DEF Handled, Reclaim
<1>4. backlog' \in Counts /\ readded' \in Nat /\ gone' \in Nat
  BY <1>3 DEF ReAdd, RoomInv, Typed, Counts, Lanes
<1>5. Typed'
  BY <1>2, <1>3, <1>4 DEF RoomInv, Typed
<1>6. /\ pending'[w] = p /\ running'[w] = q
      /\ \A v \in Workers \ {w} : pending'[v] = pending[v] /\ running'[v] = running[v]
  BY <1>2 DEF RoomInv, Typed
<1>7. Both(q) <= slots[w]
  <2>1. /\ q["lead"] \in Nat /\ q["main"] \in Nat
        /\ q["lead"] <= running[w]["lead"] /\ q["main"] <= running[w]["main"]
        /\ running[w]["lead"] \in Nat /\ running[w]["main"] \in Nat
    BY <1>1, <1>2 DEF Counts, Lanes
  <2> QED BY <2>1, <1>1 DEF Both
<1>8. Backed'
  <2> SUFFICES ASSUME NEW v \in Workers
               PROVE  /\ \A m \in Lanes : running'[v][m] <= pending'[v][m]
                      /\ Both(running'[v]) <= slots'[v]
    BY DEF Backed, Both
  <2> QED BY <1>2, <1>3, <1>6, <1>7 DEF RoomInv, Backed
<1>9. ASSUME NEW v \in Workers PROVE Fits(loop[v], slots[v])'
  BY <1>3, SameSettings DEF Fits, RoomInv
<1> QED BY <1>5, <1>8, <1>9 DEF RoomInv

LEMMA CrashKeeps ==
  ASSUME RoomInv, NEW w \in Workers, Crash(w)
  PROVE  RoomInv'
<1> DEFINE z == [l \in Lanes |-> 0]
<1>1. /\ running' = [running EXCEPT ![w] = z] /\ slots' = [slots EXCEPT ![w] = 0]
      /\ loop' = [loop EXCEPT ![w] = At("start")] /\ crashes' = crashes + 1
      /\ ReAdd \/ UNCHANGED <<backlog, readded>>
      /\ UNCHANGED <<settings, pending, sent, gone, poison>>
  BY DEF Crash
<1>2. z \in Counts /\ Both(z) = 0 /\ \A l \in Lanes : z[l] = 0
  BY DEF Counts, Both, Lanes
<1>3. At("start") \in Loops /\ At("start").pc = "start"
  BY AtFacts DEF Labels
<1>4. backlog' \in Counts /\ readded' \in Nat
  BY <1>1 DEF ReAdd, RoomInv, Typed, Counts, Lanes
<1> HIDE DEF z
<1>5. Typed'
  BY <1>1, <1>2, <1>3, <1>4 DEF RoomInv, Typed
<1>6. /\ running'[w] = z /\ slots'[w] = 0 /\ loop'[w] = At("start")
      /\ \A v \in Workers \ {w} : running'[v] = running[v] /\ slots'[v] = slots[v] /\ loop'[v] = loop[v]
  BY <1>1 DEF RoomInv, Typed
<1>7. \A l \in Lanes : pending[w][l] \in Nat
  BY DEF RoomInv, Typed, Counts
<1>8. Backed'
  <2> SUFFICES ASSUME NEW v \in Workers
               PROVE  /\ \A m \in Lanes : running'[v][m] <= pending'[v][m]
                      /\ Both(running'[v]) <= slots'[v]
    BY DEF Backed, Both
  <2> QED BY <1>1, <1>2, <1>6, <1>7 DEF RoomInv, Backed
<1>9. ASSUME NEW v \in Workers PROVE Fits(loop[v], slots[v])'
  <2>1. Fits(At("start"), 0)
    BY <1>3, EasyFits, WorkerFacts
  <2>2. Fits(loop'[v], slots'[v])
    BY <2>1, <1>6 DEF RoomInv
  <2> QED BY <2>2, <1>1, SameSettings DEF Fits
<1> QED BY <1>5, <1>8, <1>9 DEF RoomInv

LEMMA RoomInit == Init => RoomInv
<1> SUFFICES ASSUME Init PROVE RoomInv
  OBVIOUS
<1>1. /\ \A w \in Workers : /\ \A l \in Lanes : running[w][l] = 0 /\ pending[w][l] = 0
                            /\ slots[w] = 0 /\ loop[w] = At("start")
      /\ settings \in Settings
  BY DEF Init
<1>2. Typed
  <2>1. [l \in Lanes |-> 0] \in Counts
    BY DEF Counts
  <2>2. At("start") \in Loops
    BY AtFacts DEF Labels
  <2> QED BY <2>1, <2>2 DEF Init, Typed
<1>3. Backed
  BY <1>1 DEF Backed, Both, Lanes
<1>4. ASSUME NEW w \in Workers PROVE Fits(loop[w], slots[w])
  <2>1. At("start").pc = "start" /\ 0 <= CONCURRENCY + 1
    BY <1>1, AtFacts, SettingFacts DEF Labels
  <2> QED BY <2>1, <1>1, EasyFits
<1> QED BY <1>2, <1>3, <1>4 DEF RoomInv

LEMMA RoomStep == RoomInv /\ [Next]_vars => RoomInv'
<1> SUFFICES ASSUME RoomInv, [Next]_vars PROVE RoomInv'
  OBVIOUS
<1>1. CASE Enqueue
  <2>1. sent' \in Counts /\ backlog' \in Counts
    BY <1>1 DEF Enqueue, RoomInv, Typed, Counts
  <2>2. UNCHANGED <<settings, pending, running, slots, loop, gone, readded, poison, crashes>>
    BY <1>1 DEF Enqueue
  <2>3. Typed' /\ Backed'
    BY <2>1, <2>2 DEF RoomInv, Typed, Backed, Both
  <2>4. ASSUME NEW v \in Workers PROVE Fits(loop[v], slots[v])'
    BY <2>2, SameSettings DEF Fits, RoomInv
  <2> QED BY <2>3, <2>4 DEF RoomInv
<1>2. ASSUME NEW w \in Workers, Pass(w) \/ Stop(w) \/ Crash(w) PROVE RoomInv'
  BY <1>2, ResumeKeeps, PlanKeeps, ReadLeadKeeps, ReadMainKeeps, ReadBothKeeps, PollLeadKeeps,
     WaitKeeps, CrashKeeps DEF Pass
<1>3. ASSUME NEW w \in Workers, NEW l \in Lanes, Handled(w, l) \/ Reclaim(w, l) PROVE RoomInv'
  BY <1>3, HandlersKeep
<1>4. CASE UNCHANGED vars
  <2>1. Typed' /\ Backed' /\ settings' = settings /\ loop' = loop /\ slots' = slots
    BY <1>4 DEF vars, RoomInv, Typed, Backed, Both
  <2>2. ASSUME NEW v \in Workers PROVE Fits(loop[v], slots[v])'
    BY <2>1, SameSettings DEF Fits, RoomInv
  <2> QED BY <2>1, <2>2 DEF RoomInv
<1> QED BY <1>1, <1>2, <1>3, <1>4 DEF Next

LEMMA RoomAlways == Spec => []RoomInv
BY RoomInit, RoomStep, PTL DEF Spec

\* A worker never holds more than one page beyond its concurrency, whatever the
\* settings, the order of reads, completions, crashes and restarts (Worker.run).
THEOREM ResidencyIsBounded == Spec => []ResidentNearlyBounded
<1>1. RoomInv => ResidentNearlyBounded
  <2> SUFFICES ASSUME RoomInv, NEW w \in Workers PROVE Both(running[w]) <= CONCURRENCY + 1
    BY DEF ResidentNearlyBounded
  <2>1. Both(running[w]) \in Nat /\ Both(running[w]) <= slots[w]
    BY BothFacts DEF RoomInv, Typed, Backed
  <2> QED BY <2>1, WorkerFacts
<1> QED BY <1>1, RoomAlways, PTL

-----------------------------------------------------------------------------
(* The entries in the pending lists.                                       *)

Pel(f, w) == {w} \X (1..Both(f[w]))
OtherPels(f, w) == UNION {Pel(f, v) : v \in Workers \ {w}}

LEMMA PelFacts ==
  ASSUME NEW f \in [Workers -> Counts], NEW w \in Workers
  PROVE  IsFiniteSet(Pel(f, w)) /\ Cardinality(Pel(f, w)) = Both(f[w]) /\ Both(f[w]) \in Nat
<1>1. IsFiniteSet({w}) /\ Cardinality({w}) = 1
  BY FS_Singleton
<1>2. Both(f[w]) \in Nat
  BY BothFacts
<1>3. IsFiniteSet(1..Both(f[w])) /\ Cardinality(1..Both(f[w])) = Both(f[w])
  BY <1>2, FS_Interval
<1>4. IsFiniteSet({w} \X (1..Both(f[w])))
      /\ Cardinality({w} \X (1..Both(f[w]))) = Cardinality({w}) * Cardinality(1..Both(f[w]))
  BY <1>1, <1>3, FS_Product
<1>5. Cardinality({w}) * Cardinality(1..Both(f[w])) = Both(f[w])
  BY <1>1, <1>2, <1>3
<1> QED BY <1>2, <1>4, <1>5 DEF Pel

LEMMA OtherPelsFinite ==
  ASSUME NEW f \in [Workers -> Counts], NEW w
  PROVE  IsFiniteSet(OtherPels(f, w)) /\ Cardinality(OtherPels(f, w)) \in Nat
<1> DEFINE S == Workers \ {w}
           T == {Pel(f, v) : v \in S}
           g == [v \in S |-> Pel(f, v)]
<1>1. IsFiniteSet(S)
  BY DispatchAssumption, FS_Subset
<1>2. g \in Surjection(S, T)
  BY DEF Surjection
<1>3. IsFiniteSet(T)
  BY <1>1, <1>2, FS_Surjection
<1>4. \A t \in T : IsFiniteSet(t)
  BY PelFacts
<1>5. IsFiniteSet(UNION T)
  BY <1>3, <1>4, FS_UNION
<1> QED BY <1>5, FS_CardinalityType DEF OtherPels

LEMMA PelSplit ==
  ASSUME NEW f \in [Workers -> Counts], NEW w \in Workers
  PROVE  Cardinality(InPels(f)) = Cardinality(OtherPels(f, w)) + Both(f[w])
<1>1. InPels(f) = OtherPels(f, w) \cup Pel(f, w)
  BY DEF InPels, OtherPels, Pel
<1>2. OtherPels(f, w) \cap Pel(f, w) = {}
  BY DEF OtherPels, Pel
<1>3. IsFiniteSet(OtherPels(f, w)) /\ Cardinality(OtherPels(f, w)) \in Nat
  BY OtherPelsFinite
<1>4. IsFiniteSet(Pel(f, w)) /\ Cardinality(Pel(f, w)) = Both(f[w]) /\ Both(f[w]) \in Nat
  BY PelFacts
<1>5. Cardinality(OtherPels(f, w) \cup Pel(f, w))
        = Cardinality(OtherPels(f, w)) + Cardinality(Pel(f, w))
          - Cardinality(OtherPels(f, w) \cap Pel(f, w))
  BY <1>3, <1>4, FS_Union
<1>6. Cardinality(OtherPels(f, w) \cap Pel(f, w)) = 0
  BY <1>2, FS_EmptySet
<1> QED BY <1>1, <1>3, <1>4, <1>5, <1>6

\* The pending entries change by what one worker gains or loses.
LEMMA PelUpdate ==
  ASSUME NEW f \in [Workers -> Counts], NEW g \in [Workers -> Counts], NEW w \in Workers,
         \A v \in Workers \ {w} : g[v] = f[v]
  PROVE  /\ Cardinality(InPels(g)) = Cardinality(InPels(f)) - Both(f[w]) + Both(g[w])
         /\ Cardinality(InPels(f)) \in Nat /\ Cardinality(InPels(g)) \in Nat
         /\ Both(f[w]) \in Nat /\ Both(g[w]) \in Nat
<1>1. OtherPels(g, w) = OtherPels(f, w)
  BY DEF OtherPels, Pel
<1>2. Cardinality(OtherPels(f, w)) \in Nat
  BY OtherPelsFinite
<1>3. Both(f[w]) \in Nat /\ Both(g[w]) \in Nat
  BY PelFacts
<1> QED BY <1>1, <1>2, <1>3, PelSplit

LEMMA NoPels ==
  ASSUME NEW f \in [Workers -> Counts], \A w \in Workers : Both(f[w]) = 0
  PROVE  Cardinality(InPels(f)) = 0
<1>1. InPels(f) = {}
  BY DEF InPels
<1> QED BY <1>1, FS_EmptySet

LEMMA ReadsConserve ==
  ASSUME Typed, Typed', Conserved, NEW w \in Workers, NEW k \in Counts, NEW bad \in Counts,
         Reads(w, k, bad)
  PROVE  Conserved'
<1>1. /\ Both(k) \in Nat /\ Both(bad) \in Nat /\ Both(backlog) \in Nat /\ Both(sent) \in Nat
      /\ gone \in Nat /\ readded \in Nat /\ Both(pending[w]) \in Nat
  BY BothFacts DEF Typed
<1>2. Both(backlog') = Both(backlog) - Both(k)
  <2>1. \A l \in Lanes : backlog[l] \in Nat /\ k[l] \in Nat /\ backlog'[l] = backlog[l] - k[l]
    BY DEF Reads, Typed, Counts
  <2> QED BY <2>1 DEF Both, Lanes
<1>3. Both(pending'[w]) = Both(pending[w]) + Both(k) - Both(bad)
  <2>1. \A l \in Lanes : /\ pending[w][l] \in Nat /\ k[l] \in Nat /\ bad[l] \in Nat
                         /\ pending'[w][l] = pending[w][l] + k[l] - bad[l]
    BY DEF Reads, Typed, Counts
  <2> QED BY <2>1 DEF Both, Lanes
<1>4. \A v \in Workers \ {w} : pending'[v] = pending[v]
  BY DEF Reads, Typed
<1>5. /\ Cardinality(InPels(pending')) = Cardinality(InPels(pending)) - Both(pending[w]) + Both(pending'[w])
      /\ Cardinality(InPels(pending)) \in Nat
  BY <1>4, PelUpdate DEF Typed
<1>6. gone' = gone + Both(bad) /\ readded' = readded /\ Both(sent') = Both(sent)
  BY DEF Reads
<1>7. Both(sent) + readded = Both(backlog) + gone + Cardinality(InPels(pending))
  BY DEF Conserved
<1>8. Both(sent') + readded' = Both(backlog') + gone' + Cardinality(InPels(pending'))
  BY <1>1, <1>2, <1>3, <1>5, <1>6, <1>7
<1> QED BY <1>8 DEF Conserved, InPels, Both

LEMMA ReadsExist ==
  ASSUME RoomInv, NEW w \in Workers, ReadLead(w) \/ ReadMain(w) \/ ReadBoth(w) \/ PollLead(w)
  PROVE  \E k, bad \in Counts : Reads(w, k, bad)
<1>1. loop[w].lead \in Nat /\ loop[w].main \in Nat /\ Typed /\ "lead" \in Lanes /\ "main" \in Lanes
  BY WorkerFacts DEF RoomInv, Lanes
<1>2. \E n \in Counts : \E some, none : Take(w, n, some, none)
  <2>1. CASE ReadLead(w) \/ PollLead(w)
    <3>1. Only("lead", loop[w].lead) \in Counts
      BY <1>1, OnlyFacts
    <3>2. \E some, none : Take(w, Only("lead", loop[w].lead), some, none)
      BY <2>1, Zenon DEF ReadLead, PollLead
    <3> QED BY <3>1, <3>2, Zenon
  <2>2. CASE ReadMain(w)
    <3>1. Only("main", loop[w].main) \in Counts
      BY <1>1, OnlyFacts
    <3>2. \E some, none : Take(w, Only("main", loop[w].main), some, none)
      BY <2>2, Zenon DEF ReadMain
    <3> QED BY <3>1, <3>2, Zenon
  <2>3. CASE ReadBoth(w)
    <3>1. [l \in Lanes |-> Share(loop[w].main)] \in Counts
      <4>1. PICK h \in Nat : h = loop[w].main \div 2
        BY <1>1
      <4>2. Share(loop[w].main) = IF 1 <= h THEN h ELSE 1
        BY <4>1, MaxFacts DEF Share
      <4> QED BY <4>2 DEF Counts
    <3>2. \E some, none : Take(w, [l \in Lanes |-> Share(loop[w].main)], some, none)
      BY <2>3, Zenon DEF ReadBoth
    <3> QED BY <3>1, <3>2, Zenon
  <2> QED BY <2>1, <2>2, <2>3
<1>3. PICK n \in Counts : \E some, none : Take(w, n, some, none)
  BY <1>2
<1>4. PICK some, none : Take(w, n, some, none)
  BY <1>3
<1> QED BY <1>1, <1>4, TakeReads

\* A copy joins the main lane and is counted, or nothing happens to the lanes.
LEMMA ReAddFacts ==
  ASSUME Typed, ReAdd \/ UNCHANGED <<backlog, readded>>
  PROVE  /\ Both(backlog') - readded' = Both(backlog) - readded
         /\ Both(backlog) \in Nat /\ readded \in Nat /\ Both(backlog') \in Nat /\ readded' \in Nat
<1>1. backlog["lead"] \in Nat /\ backlog["main"] \in Nat /\ readded \in Nat
  BY DEF Typed, Counts, Lanes
<1>2. CASE ReAdd
  <2>1. /\ backlog'["lead"] = backlog["lead"] /\ backlog'["main"] = backlog["main"] + 1
        /\ readded' = readded + 1
    BY <1>2 DEF ReAdd, Typed, Counts, Lanes
  <2> QED BY <1>1, <2>1 DEF Both
<1>3. CASE UNCHANGED <<backlog, readded>>
  BY <1>1, <1>3 DEF Both
<1> QED BY <1>2, <1>3

LEMMA HandlersConserve ==
  ASSUME Typed, Typed', Conserved, NEW w \in Workers, NEW l \in Lanes, Handled(w, l) \/ Reclaim(w, l)
  PROVE  Conserved'
<1>1. /\ Both(sent) \in Nat /\ gone \in Nat /\ Both(pending[w]) \in Nat
      /\ Both(backlog') - readded' = Both(backlog) - readded
      /\ Both(backlog) \in Nat /\ readded \in Nat /\ Both(backlog') \in Nat /\ readded' \in Nat
  BY BothFacts, ReAddFacts DEF Typed, Handled, Reclaim
<1>2. /\ \A v \in Workers \ {w} : pending'[v] = pending[v]
      /\ pending'[w][l] = pending[w][l] - 1
      /\ \A m \in Lanes \ {l} : pending'[w][m] = pending[w][m]
      /\ \A m \in Lanes : pending[w][m] \in Nat
  BY DEF Handled, Reclaim, Typed, Counts
<1>3. Both(pending'[w]) = Both(pending[w]) - 1
  BY <1>2 DEF Both, Lanes
<1>4. /\ Cardinality(InPels(pending')) = Cardinality(InPels(pending)) - Both(pending[w]) + Both(pending'[w])
      /\ Cardinality(InPels(pending)) \in Nat
  BY <1>2, PelUpdate DEF Typed
<1>5. gone' = gone + 1 /\ Both(sent') = Both(sent)
  BY DEF Handled, Reclaim
<1>6. Both(sent) + readded = Both(backlog) + gone + Cardinality(InPels(pending))
  BY DEF Conserved
<1>7. Both(sent') + readded' = Both(backlog') + gone' + Cardinality(InPels(pending'))
  BY <1>1, <1>3, <1>4, <1>5, <1>6
<1> QED BY <1>7 DEF Conserved, InPels, Both

\* Every entry is accounted for, for any number of workers: enqueue, two-lane
\* reads, quarantine, acknowledgement, requeue, crash and reclaim neither lose
\* an entry nor count one twice (PageQueue, Worker._handle).
THEOREM EntriesAreConserved == Spec => []Conserved
<1>1. Init => Conserved
  <2> SUFFICES ASSUME Init PROVE Conserved
    OBVIOUS
  <2>1. pending \in [Workers -> Counts] /\ \A w \in Workers : Both(pending[w]) = 0
    BY DEF Init, Counts, Both, Lanes
  <2>2. Both(sent) = 0 /\ Both(backlog) = 0 /\ readded = 0 /\ gone = 0
    BY DEF Init, Both, Lanes
  <2> QED BY <2>1, <2>2, NoPels DEF Conserved
<1>2. Conserved /\ RoomInv /\ [Next]_vars => Conserved'
  <2> SUFFICES ASSUME Conserved, RoomInv, [Next]_vars PROVE Conserved'
    OBVIOUS
  <2>1. Typed /\ Typed'
    BY RoomStep DEF RoomInv
  <2>2. CASE UNCHANGED <<sent, readded, backlog, gone, pending>>
    BY <2>2 DEF Conserved, InPels, Both
  <2>3. CASE Enqueue
    <3>1. PICK l \in Lanes : /\ sent' = [sent EXCEPT ![l] = @ + 1]
                             /\ backlog' = [backlog EXCEPT ![l] = @ + 1]
                             /\ UNCHANGED <<readded, gone, pending>>
      BY <2>3 DEF Enqueue
    <3>2. /\ sent["lead"] \in Nat /\ sent["main"] \in Nat
          /\ backlog["lead"] \in Nat /\ backlog["main"] \in Nat
      BY <2>1 DEF Typed, Counts, Lanes
    <3>3. Both(sent') = Both(sent) + 1 /\ Both(backlog') = Both(backlog) + 1
      <4>1. /\ sent'[l] = sent[l] + 1 /\ backlog'[l] = backlog[l] + 1
            /\ \A m \in Lanes \ {l} : sent'[m] = sent[m] /\ backlog'[m] = backlog[m]
        BY <3>1, <2>1 DEF Typed, Counts
      <4> QED BY <4>1, <3>2 DEF Both, Lanes
    <3>4. /\ Both(sent) \in Nat /\ Both(backlog) \in Nat /\ readded \in Nat /\ gone \in Nat
      BY <2>1, BothFacts DEF Typed
    <3>5. Cardinality(InPels(pending)) \in Nat
      <4>1. CASE Workers = {}
        <5>1. InPels(pending) = {}
          BY <4>1 DEF InPels
        <5> QED BY <5>1, FS_EmptySet
      <4>2. CASE Workers # {}
        BY <4>2, <2>1, PelUpdate DEF Typed
      <4> QED BY <4>1, <4>2
    <3>6. Both(sent) + readded = Both(backlog) + gone + Cardinality(InPels(pending))
      BY DEF Conserved
    <3>7. Both(sent') + readded' = Both(backlog') + gone' + Cardinality(InPels(pending'))
      BY <3>1, <3>3, <3>4, <3>5, <3>6
    <3> QED BY <3>7 DEF Conserved, InPels, Both
  <2>4. ASSUME NEW w \in Workers, Pass(w) \/ Stop(w) PROVE Conserved'
    <3>1. CASE Resume(w) \/ Plan(w) \/ Wait(w) \/ Drained(w) \/ Stop(w)
      BY <3>1, <2>2 DEF Resume, Plan, Wait, Drained, Stop, shared
    <3>2. CASE ReadLead(w) \/ ReadMain(w) \/ ReadBoth(w) \/ PollLead(w)
      BY <3>2, <2>1, ReadsExist, ReadsConserve
    <3> QED BY <2>4, <3>1, <3>2 DEF Pass
  <2>5. ASSUME NEW w \in Workers, Crash(w) PROVE Conserved'
    <3>1. /\ Both(backlog') - readded' = Both(backlog) - readded
          /\ Both(backlog) \in Nat /\ readded \in Nat /\ Both(backlog') \in Nat /\ readded' \in Nat
      BY <2>1, <2>5, ReAddFacts DEF Crash
    <3>2. Both(sent) \in Nat /\ gone \in Nat /\ Cardinality(InPels(pending)) \in Nat
      BY <2>1, BothFacts, PelUpdate DEF Typed
    <3>3. UNCHANGED <<sent, gone, pending>>
      BY <2>5 DEF Crash
    <3>4. Both(sent) + readded = Both(backlog) + gone + Cardinality(InPels(pending))
      BY DEF Conserved
    <3>5. Both(sent') + readded' = Both(backlog') + gone' + Cardinality(InPels(pending'))
      BY <3>1, <3>2, <3>3, <3>4
    <3> QED BY <3>5 DEF Conserved, InPels, Both
  <2>6. ASSUME NEW w \in Workers, NEW l \in Lanes, Handled(w, l) \/ Reclaim(w, l) PROVE Conserved'
    BY <2>6, <2>1, HandlersConserve
  <2>7. CASE UNCHANGED vars
    BY <2>7, <2>2 DEF vars
  <2> QED BY <2>3, <2>4, <2>5, <2>6, <2>7 DEF Next
<1> QED BY <1>1, <1>2, RoomAlways, PTL DEF Spec

=============================================================================

--------------------------- MODULE MockModelProofs ---------------------------
(***************************************************************************)
(* Proofs about MockModel, for any requests, keys, cache size and bucket.   *)
(***************************************************************************)
EXTENDS MockModel, FiniteSetTheorems, TLAPS

(* The provers a leaf that names none is given to, and in which order.     *)
USE SMT, ZenonT(30), SMTT(10), SMTT(20)

(* What the two ordered dictionaries do to the keys they hold.             *)

\* An order of keys: no key twice.
Lru(s) == s \in Seq(Keys) /\ IsInjective(s)

\* Deleting the entry at a position keeps every other entry, in order.
LEMMA RemoveAtFacts ==
  ASSUME NEW s, Lru(s), NEW i \in DOMAIN s
  PROVE  /\ Lru(RemoveAt(s, i)) /\ Len(RemoveAt(s, i)) = Len(s) - 1
         /\ Range(RemoveAt(s, i)) = Range(s) \ {s[i]}
<1> DEFINE a == SubSeq(s, 1, i - 1)
           b == SubSeq(s, i + 1, Len(s))
           r == a \o b
<1>1. s \in Seq(Keys) /\ Len(s) \in Nat /\ i \in 1..Len(s) /\ IsInjective(s)
  BY DEF Lru
<1>2. a \in Seq(Keys) /\ Len(a) = i - 1 /\ \A k \in 1..(i - 1) : a[k] = s[k]
  BY <1>1
<1>3. b \in Seq(Keys) /\ Len(b) = Len(s) - i /\ \A k \in 1..(Len(s) - i) : b[k] = s[i + k]
  BY <1>1
<1>4. RemoveAt(s, i) = r
  BY DEF RemoveAt
<1> HIDE DEF a, b
<1>5. r \in Seq(Keys) /\ Len(r) = Len(s) - 1
  BY <1>1, <1>2, <1>3
<1>6. \A k \in 1..Len(r) : r[k] = IF k < i THEN s[k] ELSE s[k + 1]
  BY <1>1, <1>2, <1>3
<1> HIDE DEF r
<1>7. IsInjective(r)
  BY <1>1, <1>5, <1>6 DEF IsInjective
<1>8. ASSUME NEW x \in Range(s) \ {s[i]}
      PROVE  x \in Range(r)
  <2>1. PICK j \in 1..Len(s) : s[j] = x /\ j # i
    BY <1>1 DEF Range
  <2> DEFINE k == IF j < i THEN j ELSE j - 1
  <2>2. k \in 1..Len(r) /\ (k < i <=> j < i)
    BY <1>1, <1>5, <2>1
  <2>3. r[k] = x
    BY <1>1, <1>5, <1>6, <2>1, <2>2
  <2> HIDE DEF k
  <2> QED BY <1>5, <2>2, <2>3 DEF Range
<1>9. ASSUME NEW x \in Range(r)
      PROVE  x \in Range(s) \ {s[i]}
  <2>1. PICK k \in 1..Len(r) : r[k] = x
    BY <1>5 DEF Range
  <2> DEFINE j == IF k < i THEN k ELSE k + 1
  <2>2. j \in 1..Len(s) /\ s[j] = x /\ j # i
    BY <1>1, <1>5, <1>6, <2>1
  <2> HIDE DEF j
  <2> QED BY <1>1, <2>2 DEF Range, IsInjective
<1> QED BY <1>4, <1>5, <1>7, <1>8, <1>9 DEF Lru

\* pop: the key is gone and every other key stays.
LEMMA Remove1Facts ==
  ASSUME NEW s, Lru(s), NEW k
  PROVE  /\ Lru(Remove1(s, k)) /\ Len(Remove1(s, k)) <= Len(s)
         /\ k \in Range(s) => Len(Remove1(s, k)) = Len(s) - 1
         /\ Range(Remove1(s, k)) = Range(s) \ {k}
<1>1. CASE k \in Range(s)
  <2> DEFINE i == CHOOSE j \in DOMAIN s : s[j] = k
  <2>1. i \in DOMAIN s /\ s[i] = k
    BY <1>1 DEF Range
  <2>2. Remove1(s, k) = RemoveAt(s, i)
    BY <1>1 DEF Remove1
  <2>3. Len(s) \in Nat
    BY DEF Lru
  <2> HIDE DEF i
  <2> QED BY <2>1, <2>2, <2>3, RemoveAtFacts
<1>2. CASE k \notin Range(s)
  BY <1>2 DEF Remove1, Lru
<1> QED BY <1>1, <1>2

\* move_to_end: no key leaves and none but k joins.
LEMMA FreshestFacts ==
  ASSUME NEW s, Lru(s), NEW k \in Keys
  PROVE  /\ Lru(Freshest(s, k)) /\ Range(Freshest(s, k)) = Range(s) \cup {k}
         /\ Len(Freshest(s, k)) <= Len(s) + 1
         /\ k \in Range(s) => Len(Freshest(s, k)) = Len(s)
<1> DEFINE r == Remove1(s, k)
           t == Append(r, k)
<1>1. Lru(r) /\ Range(r) = Range(s) \ {k} /\ r \in Seq(Keys) /\ Len(r) \in Nat
  BY Remove1Facts DEF Lru
<1>2. Len(r) <= Len(s) /\ (k \in Range(s) => Len(r) = Len(s) - 1) /\ Len(s) \in Nat
  BY Remove1Facts DEF Lru
<1>3. Freshest(s, k) = t
  BY DEF Freshest
<1> HIDE DEF r
<1>4. t \in Seq(Keys) /\ Len(t) = Len(r) + 1 /\ t[Len(r) + 1] = k
      /\ \A i \in 1..Len(r) : t[i] = r[i]
  BY <1>1
<1> HIDE DEF t
<1>5. \A i \in 1..Len(r) : r[i] # k
  BY <1>1 DEF Range
<1>6. IsInjective(t)
  BY <1>1, <1>4, <1>5 DEF IsInjective, Lru
<1>7. Range(t) = Range(r) \cup {k}
  <2>1. ASSUME NEW x \in Range(t) PROVE x \in Range(r) \cup {k}
    <3>1. PICK i \in 1..Len(t) : t[i] = x
      BY <1>4 DEF Range
    <3> QED BY <1>1, <1>4, <3>1 DEF Range
  <2>2. ASSUME NEW x \in Range(r) PROVE x \in Range(t)
    <3>1. PICK i \in 1..Len(r) : r[i] = x
      BY <1>1 DEF Range
    <3> QED BY <1>1, <1>4, <3>1 DEF Range
  <2>3. k \in Range(t)
    BY <1>1, <1>4 DEF Range
  <2> QED BY <2>1, <2>2, <2>3
<1> QED BY <1>1, <1>2, <1>3, <1>4, <1>6, <1>7 DEF Lru

\* Eviction shortens what is too long and invents nothing.
LEMMA EvictFacts ==
  ASSUME NEW s, Lru(s), Len(s) <= MAX_ENTRIES + 1, MAX_ENTRIES \in Nat \ {0}
  PROVE  /\ Lru(Evict(s)) /\ Len(Evict(s)) <= MAX_ENTRIES
         /\ Range(Evict(s)) \subseteq Range(s)
<1>1. CASE Len(s) > MAX_ENTRIES
  <2> DEFINE t == Tail(s)
  <2>1. s \in Seq(Keys) /\ Len(s) \in Nat /\ s # <<>>
    BY <1>1 DEF Lru
  <2>2. t \in Seq(Keys) /\ Len(t) = Len(s) - 1 /\ \A i \in 1..Len(t) : t[i] = s[i + 1]
    BY <2>1
  <2>3. Evict(s) = t
    BY <1>1 DEF Evict
  <2> HIDE DEF t
  <2>4. IsInjective(t)
    BY <2>1, <2>2 DEF IsInjective, Lru
  <2>5. Range(t) \subseteq Range(s)
    BY <2>1, <2>2 DEF Range
  <2> QED BY <2>1, <2>2, <2>3, <2>4, <2>5 DEF Lru
<1>2. CASE ~(Len(s) > MAX_ENTRIES)
  BY <1>2 DEF Evict, Lru
<1> QED BY <1>1, <1>2

-----------------------------------------------------------------------------
\* The control state of the requests and the handles.
ControlOK ==
  /\ pc \in [Requests -> {"new", "run", "join", "done"}]
  /\ key \in [Requests -> Keys \union {NoKey}]
  /\ handle \in [Requests -> Requests \union {NoRequest}]
  /\ outcome \in [Requests -> {"none", "body", "error"}]
  /\ answer \in [Requests -> {"none", "body", "error", "cut"}]
  /\ inflight \in [Keys -> Requests \union {NoRequest}]
  /\ \A q \in Requests : pc[q] = "join" => handle[q] \in Requests

\* The two dictionaries with their marks.
StoreOK ==
  /\ Lru(cache) /\ Len(cache) <= MAX_ENTRIES /\ stale \subseteq Range(cache)
  /\ Lru(tracked) /\ Len(tracked) <= MAX_ENTRIES
  /\ count \in [Keys -> Nat] /\ duplicates \in [Keys -> Nat]
  /\ ran \in [Keys -> Nat] /\ total \in [Keys -> Nat]

\* The bucket, the rule, and the counters.
EdgeOK ==
  /\ tokens \in 0..BURST /\ chaos \in {0, 429, 500} /\ resets \in 0..MaxResets
  /\ st \in Statistics /\ cut \in Nat

LEMMA Parts == ControlOK /\ StoreOK /\ EdgeOK => MockTypeOK
  BY DEF MockTypeOK, ControlOK, StoreOK, EdgeOK, LruOf, Lru

LEMMA Constants ==
  ASSUME TRUE
  PROVE  /\ NoKey \notin Keys /\ NoRequest \notin Requests /\ IsFiniteSet(Requests)
         /\ MAX_ENTRIES \in Nat \ {0} /\ BURST \in Nat \ {0} /\ MaxResets \in Nat
  BY MockAssumption DEF MockAssumption

\* What one request, or the world around them, does.
Act(q) == Arrive(q) \/ Succeed(q) \/ Fail(q) \/ Cancel(q) \/ Join(q)

World ==
  \/ \E k \in Keys : GrowOld(k)
  \/ \E s \in {0, 429, 500} : SetChaos(s)
  \/ Accrue \/ Reset

LEMMA ControlStep == ControlOK /\ [Next]_vars => ControlOK'
<1> SUFFICES ASSUME ControlOK, [Next]_vars PROVE ControlOK'
  OBVIOUS
<1> USE DEF ControlOK
<1>1. ASSUME NEW q \in Requests, NEW k \in Keys, Replay(q, k) PROVE ControlOK'
  BY <1>1 DEF Replay
<1>2. ASSUME NEW q \in Requests, NEW k \in Keys, Follow(q, k) PROVE ControlOK'
  BY <1>2 DEF Follow
<1>3. ASSUME NEW q \in Requests, NEW k \in Keys \union {NoKey}, Refuse(q, k)
      PROVE  ControlOK'
  BY <1>3 DEF Refuse, Executes
<1>4. ASSUME NEW q \in Requests, NEW k \in Keys \union {NoKey}, Start(q, k)
      PROVE  ControlOK'
  BY <1>4 DEF Start, Executes
<1>5. ASSUME NEW q \in Requests, Succeed(q) PROVE ControlOK'
  BY <1>5 DEF Succeed, Leave, Release
<1>6. ASSUME NEW q \in Requests, Fail(q) PROVE ControlOK'
  BY <1>6 DEF Fail, Leave, Release
<1>7. ASSUME NEW q \in Requests, Cancel(q) PROVE ControlOK'
  BY <1>7 DEF Cancel, Leave, Release
<1>8. ASSUME NEW q \in Requests, Join(q) PROVE ControlOK'
  BY <1>8 DEF Join, Leave, store
<1>9. CASE World
  BY <1>9 DEF World, GrowOld, SetChaos, Accrue, Reset, store, edge
<1>10. CASE UNCHANGED vars
  BY <1>10 DEF vars, store
<1> QED
  BY <1>1, <1>2, <1>3, <1>4, <1>5, <1>6, <1>7, <1>8, <1>9, <1>10 DEF Next, Arrive, World

LEMMA EdgeStep == EdgeOK /\ [Next]_vars => EdgeOK'
<1> SUFFICES ASSUME EdgeOK, [Next]_vars PROVE EdgeOK'
  OBVIOUS
<1> USE Constants DEF EdgeOK
<1>1. /\ \A s \in Statistics : Arrived(s) \in Statistics
      /\ [st EXCEPT !.replays = @ + 1] \in Statistics
      /\ [st EXCEPT !.rate_limited = @ + 1] \in Statistics
      /\ [st EXCEPT !.executions = @ + 1] \in Statistics
      /\ [st EXCEPT !.injected_failures = @ + 1] \in Statistics
      /\ NoStats \in Statistics
  BY DEF Statistics, NoStats, Arrived
<1>2. ASSUME NEW q \in Requests, NEW k \in Keys, Replay(q, k) \/ Follow(q, k)
      PROVE  EdgeOK'
  BY <1>1, <1>2 DEF Replay, Follow, edge
<1>3. ASSUME NEW q \in Requests, NEW k \in Keys \union {NoKey}, Refuse(q, k)
      PROVE  EdgeOK'
  BY <1>1, <1>3 DEF Refuse, edge
<1>4. ASSUME NEW q \in Requests, NEW k \in Keys \union {NoKey}, Start(q, k)
      PROVE  EdgeOK'
  BY <1>1, <1>4 DEF Start
<1>5. ASSUME NEW q \in Requests, Succeed(q) \/ Fail(q) \/ Cancel(q) \/ Join(q)
      PROVE  EdgeOK'
  BY <1>1, <1>5 DEF Succeed, Fail, Cancel, Join, edge
<1>6. CASE World
  BY <1>1, <1>6 DEF World, GrowOld, SetChaos, Accrue, Reset, edge
<1>7. CASE UNCHANGED vars
  BY <1>7 DEF vars, edge
<1> QED
  BY <1>2, <1>3, <1>4, <1>5, <1>6, <1>7 DEF Next, Arrive, World

\* Dropping a stale entry keeps the order of the others.
LEMMA DropStore ==
  ASSUME StoreOK, NEW k \in Keys, Drop(k)
  PROVE  /\ Lru(cache') /\ Len(cache') <= MAX_ENTRIES /\ stale' \subseteq Range(cache')
         /\ ran' \in [Keys -> Nat]
         /\ Range(cache') = IF k \in stale THEN Range(cache) \ {k} ELSE Range(cache)
<1> DEFINE r == Remove1(cache, k)
<1>1. /\ Lru(r) /\ Len(r) <= Len(cache) /\ Range(r) = Range(cache) \ {k}
      /\ Len(cache) <= MAX_ENTRIES
  BY Remove1Facts DEF StoreOK
<1>4. Len(r) \in Nat /\ Len(cache) \in Nat
  BY <1>1 DEF StoreOK, Lru
<1> HIDE DEF r
<1>2. CASE k \in stale
  <2>1. cache' = r /\ stale' = stale \ {k} /\ ran' = [ran EXCEPT ![k] = 0]
    BY <1>2 DEF Drop, r
  <2>2. Len(r) <= MAX_ENTRIES
    BY <1>1, <1>4, Constants
  <2>3. stale \subseteq Range(cache) /\ ran \in [Keys -> Nat]
    BY DEF StoreOK
  <2> QED BY <1>1, <1>2, <2>1, <2>2, <2>3
<1>3. CASE k \notin stale
  BY <1>3 DEF StoreOK, Drop
<1> QED BY <1>2, <1>3

LEMMA StoreStep == ControlOK /\ StoreOK /\ [Next]_vars => StoreOK'
<1> SUFFICES ASSUME ControlOK, StoreOK, [Next]_vars PROVE StoreOK'
  OBVIOUS
<1> USE Constants
<1>1. ASSUME NEW q \in Requests, NEW k \in Keys, Replay(q, k) PROVE StoreOK'
  <2>1. k \in Range(cache) /\ cache' = Freshest(cache, k)
    BY <1>1 DEF Replay, Cached
  <2>3. Lru(cache) /\ Len(cache) <= MAX_ENTRIES
    BY DEF StoreOK
  <2>4. /\ Lru(Freshest(cache, k)) /\ Len(Freshest(cache, k)) = Len(cache)
        /\ Range(Freshest(cache, k)) = Range(cache) \cup {k}
    BY <2>1, <2>3, FreshestFacts
  <2>2. Lru(cache') /\ Len(cache') <= MAX_ENTRIES /\ Range(cache') = Range(cache)
    BY <2>1, <2>3, <2>4
  <2> QED BY <1>1, <2>2 DEF Replay, StoreOK
<1>2. ASSUME NEW q \in Requests, NEW k \in Keys, Follow(q, k) PROVE StoreOK'
  BY <1>2, DropStore DEF Follow, StoreOK
<1>3. ASSUME NEW q \in Requests, NEW k \in Keys \union {NoKey}, Refuse(q, k) \/ Start(q, k)
      PROVE  StoreOK'
  <2>1. Executes(q, k) /\ UNCHANGED <<tracked, count, duplicates, total>>
    BY <1>3 DEF Refuse, Start
  <2>2. CASE k = NoKey
    BY <2>1, <2>2 DEF Executes, StoreOK
  <2>3. CASE k \in Keys
    BY <2>1, <2>3, DropStore DEF Executes, StoreOK
  <2> QED BY <2>2, <2>3
<1>4. ASSUME NEW q \in Requests, Succeed(q) PROVE StoreOK'
  <2>1. CASE key[q] = NoKey
    BY <1>4, <2>1 DEF Succeed, StoreOK
  <2>2. ASSUME NEW k \in Keys, key[q] = k PROVE StoreOK'
    <3>1. record_execution(k) /\ put(k) /\ total' = [total EXCEPT ![k] = @ + 1]
      BY <1>4, <2>2 DEF Succeed
    <3>2. \A s : Lru(s) /\ Len(s) <= MAX_ENTRIES =>
            /\ Lru(Evict(Freshest(s, k))) /\ Len(Evict(Freshest(s, k))) <= MAX_ENTRIES
      <4>1. SUFFICES ASSUME NEW s, Lru(s), Len(s) <= MAX_ENTRIES
            PROVE  /\ Lru(Evict(Freshest(s, k)))
                   /\ Len(Evict(Freshest(s, k))) <= MAX_ENTRIES
        OBVIOUS
      <4>2. Lru(Freshest(s, k)) /\ Len(Freshest(s, k)) <= Len(s) + 1 /\ Len(s) \in Nat
            /\ Len(Freshest(s, k)) \in Nat
        BY <4>1, FreshestFacts DEF Lru
      <4>3. Len(Freshest(s, k)) <= MAX_ENTRIES + 1
        BY <4>1, <4>2
      <4> QED BY <4>2, <4>3, EvictFacts
    <3>3. cache' = Evict(Freshest(cache, k)) /\ tracked' = Evict(Freshest(tracked, k))
          /\ stale' \subseteq Range(cache')
      BY <3>1 DEF record_execution, put
    <3>4. ran' \in [Keys -> Nat] /\ total' \in [Keys -> Nat]
      BY <3>1 DEF put, Forget, StoreOK
    <3>5. count' \in [Keys -> Nat] /\ duplicates' \in [Keys -> Nat]
      BY <3>1 DEF record_execution, Forget, StoreOK
    <3> QED BY <3>2, <3>3, <3>4, <3>5 DEF StoreOK
  <2> QED BY <2>1, <2>2 DEF ControlOK
<1>5. ASSUME NEW q \in Requests, Fail(q) \/ Cancel(q) \/ Join(q) PROVE StoreOK'
  BY <1>5 DEF Fail, Cancel, Join, store, StoreOK
<1>6. CASE Reset
  <2>1. Lru(<<>>) /\ Len(<<>>) = 0 /\ Range(<<>>) = {}
    BY DEF Lru, IsInjective, Range
  <2> QED BY <1>6, <2>1 DEF Reset, StoreOK
<1>7. ASSUME NEW k \in Keys, GrowOld(k) PROVE StoreOK'
  BY <1>7 DEF GrowOld, Cached, StoreOK
<1>8. CASE UNCHANGED <<store, ran, total>>
  BY <1>8 DEF store, StoreOK
<1> QED
  BY <1>1, <1>2, <1>3, <1>4, <1>5, <1>6, <1>7, <1>8
     DEF Next, Arrive, SetChaos, Accrue, vars

\* Everything the theorems below rest on: the types, and who owns a handle.
Inv == ControlOK /\ StoreOK /\ EdgeOK /\ SingleFlight

LEMMA InitOK == Init => Inv
<1>1. Lru(<<>>) /\ Len(<<>>) = 0 /\ Range(<<>>) = {}
  BY DEF Lru, IsInjective, Range
<1> QED
  BY <1>1, Constants
     DEF Init, Inv, ControlOK, StoreOK, EdgeOK, SingleFlight, Statistics, NoStats

\* Only the request that holds a key's handle opens or closes it.
LEMMA FlightStep == ControlOK /\ SingleFlight /\ [Next]_vars => SingleFlight'
<1> SUFFICES ASSUME ControlOK, SingleFlight, [Next]_vars PROVE SingleFlight'
  OBVIOUS
<1> USE Constants DEF ControlOK, SingleFlight
<1>1. ASSUME NEW q \in Requests, NEW k \in Keys, Replay(q, k) \/ Follow(q, k)
      PROVE  SingleFlight'
  BY <1>1 DEF Replay, Follow
<1>3. ASSUME NEW q \in Requests, NEW k \in Keys \union {NoKey}, Refuse(q, k)
      PROVE  SingleFlight'
  BY <1>3 DEF Refuse, Executes
<1>4. ASSUME NEW q \in Requests, NEW k \in Keys \union {NoKey}, Start(q, k)
      PROVE  SingleFlight'
  BY <1>4 DEF Start, Executes
<1>5. ASSUME NEW q \in Requests, Succeed(q) PROVE SingleFlight'
  BY <1>5 DEF Succeed, Leave, Release
<1>6. ASSUME NEW q \in Requests, Fail(q) PROVE SingleFlight'
  BY <1>6 DEF Fail, Leave, Release
<1>7. ASSUME NEW q \in Requests, Cancel(q) PROVE SingleFlight'
  BY <1>7 DEF Cancel, Leave, Release
<1>8. ASSUME NEW q \in Requests, Join(q) PROVE SingleFlight'
  BY <1>8 DEF Join, Leave, store
<1>9. CASE World
  BY <1>9 DEF World, GrowOld, SetChaos, Accrue, Reset, store
<1>10. CASE UNCHANGED vars
  BY <1>10 DEF vars, store
<1> QED
  BY <1>1, <1>3, <1>4, <1>5, <1>6, <1>7, <1>8, <1>9, <1>10 DEF Next, Arrive, World

LEMMA InvHolds == Spec => []Inv
<1>1. Inv /\ [Next]_vars => Inv'
  BY ControlStep, StoreStep, EdgeStep, FlightStep
     DEF Inv, ControlStep, StoreStep, EdgeStep, FlightStep
<1> QED BY <1>1, InitOK, PTL DEF Spec, InitOK

(* Every variable keeps its type: in particular the response cache and the  *)
(* execution evidence stay within max_entries and never hold a key twice,   *)
(* whatever put, get, record_execution and reset do in between.             *)
THEOREM MockTyped == Spec => []MockTypeOK
  BY InvHolds, Parts, PTL DEF Inv, InvHolds, Parts

(* begin, finish and abandon keep at most one execution of a key open, for  *)
(* any number of requests and keys: the table names the request that is     *)
(* executing the key, and names nobody when nobody is.                      *)
THEOREM OneFlightPerKey == Spec => []SingleFlight
  BY InvHolds, PTL DEF Inv, InvHolds

-----------------------------------------------------------------------------
(* A key runs once while its response is remembered.                       *)

\* A response counted as run is still cached, and nobody executes a key
\* whose response is cached, be it stale.
Once ==
  \A k \in Keys : /\ ran[k] <= 1
                  /\ ran[k] > 0 => k \in Range(cache)
                  /\ inflight[k] # NoRequest => k \notin Range(cache)

\* What storing a response does to the cache: the key is added, and only
\* old ones leave.
LEMMA PutRange ==
  ASSUME StoreOK, NEW k \in Keys, put(k)
  PROVE  Range(cache') \subseteq Range(cache) \cup {k}
<1> DEFINE f == Freshest(cache, k)
<1>0. Lru(cache) /\ Len(cache) <= MAX_ENTRIES
  BY DEF StoreOK
<1>1. /\ Lru(f) /\ Range(f) = Range(cache) \cup {k} /\ Len(f) <= Len(cache) + 1
  BY <1>0, FreshestFacts
<1>2. Len(f) \in Nat /\ Len(cache) \in Nat
  BY <1>0, <1>1 DEF Lru
<1>3. cache' = Evict(f)
  BY DEF put
<1> HIDE DEF f
<1>4. Len(f) <= MAX_ENTRIES + 1
  BY <1>0, <1>1, <1>2, Constants
<1> QED BY <1>1, <1>3, <1>4, EvictFacts, Constants

LEMMA ReplayRange ==
  ASSUME StoreOK, NEW q \in Requests, NEW k \in Keys, Replay(q, k)
  PROVE  Range(cache') = Range(cache)
<1>1. k \in Range(cache) /\ cache' = Freshest(cache, k) /\ Lru(cache)
  BY DEF Replay, Cached, StoreOK
<1>2. Range(Freshest(cache, k)) = Range(cache) \cup {k}
  BY <1>1, FreshestFacts
<1> QED BY <1>1, <1>2

LEMMA OnceStep == Inv /\ Once /\ [Next]_vars => Once'
<1> SUFFICES ASSUME Inv, Once, [Next]_vars PROVE Once'
  OBVIOUS
<1> USE Constants
<1>0. ControlOK /\ StoreOK /\ SingleFlight /\ ran \in [Keys -> Nat]
      /\ inflight \in [Keys -> Requests \cup {NoRequest}]
  BY DEF Inv, StoreOK, ControlOK
<1>1. ASSUME NEW q \in Requests, NEW k \in Keys, Replay(q, k) PROVE Once'
  BY <1>0, <1>1, ReplayRange DEF Replay, Once
<1>2. ASSUME NEW k \in Keys, Drop(k) PROVE
        \A j \in Keys : /\ ran'[j] <= 1
                        /\ ran'[j] > 0 => j \in Range(cache')
                        /\ j \in Range(cache') => j \in Range(cache)
                        /\ ~Cached(k) => k \notin Range(cache')
  <2>1. CASE k \in stale
    <3>1. Range(cache') = Range(cache) \ {k}
      BY <1>0, <1>2, <2>1, DropStore
    <3>2. ran' = [ran EXCEPT ![k] = 0]
      BY <1>2, <2>1 DEF Drop
    <3> QED BY <1>0, <3>1, <3>2 DEF Once
  <2>2. CASE k \notin stale
    <3>1. cache' = cache /\ ran' = ran
      BY <1>2, <2>2 DEF Drop
    <3> QED BY <1>0, <2>2, <3>1 DEF Once, Cached
  <2> QED BY <2>1, <2>2
<1>3. ASSUME NEW q \in Requests, NEW k \in Keys, Follow(q, k) PROVE Once'
  BY <1>2, <1>3 DEF Follow, Once
<1>4. ASSUME NEW q \in Requests, NEW k \in Keys \union {NoKey}, Refuse(q, k) PROVE Once'
  <2>1. CASE k = NoKey
    BY <1>4, <2>1 DEF Refuse, Executes, Once
  <2>2. CASE k \in Keys
    <3>1. Drop(k) /\ inflight' = inflight
      BY <1>4, <2>2 DEF Refuse, Executes
    <3> QED BY <1>2, <2>2, <3>1 DEF Once
  <2> QED BY <2>1, <2>2
<1>5. ASSUME NEW q \in Requests, NEW k \in Keys \union {NoKey}, Start(q, k) PROVE Once'
  <2>1. CASE k = NoKey
    BY <1>5, <2>1 DEF Start, Executes, Once
  <2>2. CASE k \in Keys
    <3>1. Drop(k) /\ ~Cached(k) /\ inflight' = [inflight EXCEPT ![k] = q]
      BY <1>5, <2>2 DEF Start, Executes
    <3>2. /\ \A j \in Keys : ran'[j] <= 1 /\ (ran'[j] > 0 => j \in Range(cache'))
          /\ \A j \in Keys : j \in Range(cache') => j \in Range(cache)
          /\ k \notin Range(cache')
      BY <1>2, <2>2, <3>1
    <3>3. ASSUME NEW j \in Keys, inflight'[j] # NoRequest PROVE j \notin Range(cache')
      BY <1>0, <2>2, <3>1, <3>2, <3>3 DEF Once
    <3> QED BY <3>2, <3>3 DEF Once
  <2> QED BY <2>1, <2>2
<1>6. ASSUME NEW q \in Requests, Succeed(q) PROVE Once'
  <2>0. inflight' = [j \in Keys |-> IF inflight[j] = q THEN NoRequest ELSE inflight[j]]
    BY <1>6 DEF Succeed, Release
  <2>1. CASE key[q] = NoKey
    BY <1>6, <2>0, <2>1 DEF Succeed, Once
  <2>2. ASSUME NEW k \in Keys, key[q] = k PROVE Once'
    <3>1. put(k) /\ pc[q] = "run"
      BY <1>6, <2>2 DEF Succeed
    <3>2. inflight[k] = q
      BY <2>2, <3>1, <1>0 DEF SingleFlight
    <3>3. ran[k] = 0
      BY <1>0, <3>2 DEF Once
    <3>4. Range(cache') \subseteq Range(cache) \cup {k}
      BY <1>0, <3>1, PutRange
    <3>5. \A j \in Keys : ran'[j] = IF j \in Range(cache')
                                    THEN (IF j = k THEN ran[k] + 1 ELSE ran[j]) ELSE 0
      BY <1>0, <3>1 DEF put, Forget
    <3> QED BY <1>0, <2>0, <3>2, <3>3, <3>4, <3>5 DEF Once
  <2> QED BY <1>0, <2>1, <2>2 DEF ControlOK
<1>7. ASSUME NEW q \in Requests, Fail(q) \/ Cancel(q) \/ Join(q) PROVE Once'
  BY <1>0, <1>7 DEF Fail, Cancel, Join, Release, store, Once
<1>8. CASE Reset
  <2>1. Range(<<>>) = {}
    BY DEF Range
  <2>2. \A j \in Keys : inflight[j] = NoRequest
    BY <1>0, <1>8 DEF Reset, SingleFlight, ControlOK
  <2> QED BY <1>8, <2>1, <2>2 DEF Reset, Once
<1>9. CASE UNCHANGED <<cache, inflight, ran>>
  BY <1>9 DEF Once
<1> QED
  BY <1>1, <1>3, <1>4, <1>5, <1>6, <1>7, <1>8, <1>9
     DEF Next, Arrive, GrowOld, SetChaos, Accrue, vars, store

(* "Same key, model runs once": for any number of requests, keys and cache  *)
(* entries, a key is executed again only after its response has expired,    *)
(* been evicted or been reset (idempotency.py).                             *)
THEOREM KeysRunOnce == Spec => []RunsOnceWhileRemembered
<1>1. Init => Once
  BY Constants DEF Init, Once
<1>2. Once => RunsOnceWhileRemembered
  BY DEF Once, RunsOnceWhileRemembered
<1> QED BY <1>1, <1>2, OnceStep, InvHolds, PTL DEF Spec, OnceStep, InvHolds

-----------------------------------------------------------------------------
(* A body was produced by the model, and the evidence is sound.            *)

\* A follower waits on a request of its own key, and whatever could answer
\* with a body, a cached response or a closed handle, comes from a run.
Bodies ==
  /\ \A q \in Requests : pc[q] = "new" => answer[q] = "none" /\ outcome[q] = "none"
  /\ \A q \in Requests : pc[q] = "join" =>
       /\ key[q] \in Keys /\ key[handle[q]] = key[q] /\ pc[handle[q]] # "new"
  /\ \A q \in Requests : key[q] \in Keys =>
       /\ answer[q] = "body" => total[key[q]] > 0
       /\ outcome[q] = "body" => total[key[q]] > 0
  /\ \A k \in Keys : k \in Range(cache) => total[k] > 0

LEMMA BodiesStep == Inv /\ Bodies /\ [Next]_vars => Bodies'
<1> SUFFICES ASSUME Inv, Bodies, [Next]_vars PROVE Bodies'
  OBVIOUS
<1> USE Constants
<1>0. StoreOK /\ SingleFlight /\ ControlOK
  BY DEF Inv
<1>c. /\ pc \in [Requests -> {"new", "run", "join", "done"}]
      /\ key \in [Requests -> Keys \union {NoKey}]
      /\ handle \in [Requests -> Requests \union {NoRequest}]
      /\ outcome \in [Requests -> {"none", "body", "error"}]
      /\ answer \in [Requests -> {"none", "body", "error", "cut"}]
      /\ inflight \in [Keys -> Requests \union {NoRequest}]
      /\ total \in [Keys -> Nat]
      /\ \A q \in Requests : pc[q] = "join" => handle[q] \in Requests
  BY <1>0 DEF ControlOK, StoreOK
<1>1. ASSUME NEW q \in Requests, NEW k \in Keys, Replay(q, k) PROVE Bodies'
  <2>1. Range(cache') = Range(cache) /\ k \in Range(cache)
    BY <1>0, <1>1, ReplayRange DEF Replay, Cached
  <2> QED BY <1>c, <1>1, <2>1 DEF Replay, Bodies
<1>2. ASSUME NEW k \in Keys, Drop(k) PROVE Range(cache') \subseteq Range(cache)
  BY <1>0, <1>2, DropStore
<1>3. ASSUME NEW q \in Requests, NEW k \in Keys, Follow(q, k) PROVE Bodies'
  <2>1. Range(cache') \subseteq Range(cache)
    BY <1>2, <1>3 DEF Follow
  <2>2. inflight[k] \in Requests /\ pc[inflight[k]] = "run" /\ key[inflight[k]] = k
    BY <1>0, <1>c, <1>3 DEF Follow, SingleFlight
  <2> QED BY <1>c, <1>3, <2>1, <2>2 DEF Follow, Bodies
<1>4. ASSUME NEW q \in Requests, NEW k \in Keys \union {NoKey}, Refuse(q, k) \/ Start(q, k)
      PROVE  Bodies'
  <2>1. Range(cache') \subseteq Range(cache)
    BY <1>2, <1>4 DEF Refuse, Start, Executes
  <2>2. pc[q] = "new" /\ key' = [key EXCEPT ![q] = k]
    BY <1>4 DEF Refuse, Start, Executes
  <2>3. UNCHANGED <<handle, outcome, total>>
    BY <1>4 DEF Refuse, Start
  <2>4. \/ pc' = [pc EXCEPT ![q] = "done"] /\ answer' = [answer EXCEPT ![q] = "error"]
        \/ pc' = [pc EXCEPT ![q] = "run"] /\ answer' = answer
    BY <1>4 DEF Refuse, Start
  <2> QED BY <1>c, <2>1, <2>2, <2>3, <2>4 DEF Bodies
<1>5. ASSUME NEW q \in Requests, Succeed(q) PROVE Bodies'
  <2>1. /\ pc' = [pc EXCEPT ![q] = "done"] /\ answer' = [answer EXCEPT ![q] = "body"]
        /\ outcome' = [outcome EXCEPT ![q] = "body"] /\ UNCHANGED <<key, handle>>
    BY <1>5 DEF Succeed, Leave, Release
  <2>2. CASE key[q] = NoKey
    <3>1. UNCHANGED <<cache, total>>
      BY <1>5, <2>2 DEF Succeed
    <3> QED BY <1>c, <2>1, <2>2, <3>1 DEF Bodies
  <2>3. ASSUME NEW k \in Keys, key[q] = k PROVE Bodies'
    <3>1. put(k) /\ total' = [total EXCEPT ![k] = @ + 1]
      BY <1>5, <2>3 DEF Succeed
    <3>2. Range(cache') \subseteq Range(cache) \cup {k}
      BY <1>0, <3>1, PutRange
    <3> HIDE DEF put
    <3>3. /\ total'[k] > 0
          /\ \A j \in Keys : total[j] > 0 => total'[j] > 0
      BY <1>c, <3>1
    <3> QED BY <1>c, <2>1, <2>3, <3>2, <3>3 DEF Bodies
  <2> QED BY <1>c, <2>2, <2>3
<1>6. ASSUME NEW q \in Requests, Fail(q) PROVE Bodies'
  BY <1>c, <1>6 DEF Fail, Leave, Release, Bodies
<1>7. ASSUME NEW q \in Requests, Cancel(q) PROVE Bodies'
  BY <1>c, <1>7 DEF Cancel, Leave, Release, Bodies
<1>8. ASSUME NEW q \in Requests, Join(q) PROVE Bodies'
  BY <1>c, <1>8 DEF Join, Leave, store, Bodies
<1>9. CASE Reset
  <2>1. Range(<<>>) = {}
    BY DEF Range
  <2> QED BY <1>9, <2>1 DEF Reset, Bodies
<1>10. CASE UNCHANGED <<pc, key, handle, outcome, answer, cache, total>>
  BY <1>10 DEF Bodies
<1> QED
  BY <1>1, <1>3, <1>4, <1>5, <1>6, <1>7, <1>8, <1>9, <1>10
     DEF Next, Arrive, GrowOld, SetChaos, Accrue, vars, store

(* A caller of a key is given a body only if the model has produced one for *)
(* that key: a replay, a coalesced answer and a first answer alike          *)
(* (idempotency.py, join: "reporting success would be a lie").              *)
THEOREM BodiesAreReal == Spec => []BodyMeansRan
<1>1. Init => Bodies
  BY Constants DEF Init, Bodies, Range
<1>2. Bodies => BodyMeansRan
  BY DEF Bodies, BodyMeansRan
<1> QED BY <1>1, <1>2, BodiesStep, InvHolds, PTL DEF Spec, BodiesStep, InvHolds

LEMMA EvidenceStep == Inv /\ EvidenceSound /\ [Next]_vars => EvidenceSound'
<1> SUFFICES ASSUME Inv, EvidenceSound, [Next]_vars PROVE EvidenceSound'
  OBVIOUS
<1>0. /\ count \in [Keys -> Nat] /\ duplicates \in [Keys -> Nat] /\ total \in [Keys -> Nat]
      /\ key \in [Requests -> Keys \union {NoKey}]
  BY DEF Inv, StoreOK, ControlOK
<1>1. ASSUME NEW q \in Requests, Succeed(q) PROVE EvidenceSound'
  <2>1. CASE key[q] = NoKey
    BY <1>1, <2>1, Constants DEF Succeed, EvidenceSound
  <2>2. ASSUME NEW k \in Keys, key[q] = k PROVE EvidenceSound'
    <3>1. record_execution(k) /\ total' = [total EXCEPT ![k] = @ + 1]
      BY <1>1, <2>2, Constants DEF Succeed
    <3>2. \A j \in Keys : \/ count'[j] = 0
                          \/ count'[j] = IF j = k THEN count[k] + 1 ELSE count[j]
      BY <1>0, <3>1 DEF record_execution, Forget
    <3>3. \A j \in Keys : \/ duplicates'[j] = duplicates[j]
                          \/ j = k /\ duplicates'[j] = count[k] + 1 /\ count[k] + 1 > 1
      <4>1. duplicates' = IF count[k] + 1 > 1
                            THEN [duplicates EXCEPT ![k] = count[k] + 1] ELSE duplicates
        BY <3>1 DEF record_execution
      <4>2. CASE count[k] + 1 > 1
        BY <1>0, <4>1, <4>2
      <4>3. CASE ~(count[k] + 1 > 1)
        BY <4>1, <4>3
      <4> QED BY <4>2, <4>3
    <3>4. \A j \in Keys : total'[j] = IF j = k THEN total[k] + 1 ELSE total[j]
      BY <1>0, <3>1
    <3> QED BY <1>0, <3>2, <3>3, <3>4 DEF EvidenceSound
  <2> QED BY <1>0, <2>1, <2>2
<1>2. CASE Reset
  BY <1>0, <1>2 DEF Reset, EvidenceSound
<1>3. CASE UNCHANGED <<count, duplicates, total>>
  BY <1>3 DEF EvidenceSound
<1> QED
  BY <1>1, <1>2, <1>3
     DEF Next, Arrive, Replay, Follow, Refuse, Start, Fail, Cancel, Join, GrowOld,
         SetChaos, Accrue, vars, store

(* The evidence of /admin/call-counts never accuses wrongly: a key listed   *)
(* in duplicate_executions really ran more than once, and no recorded count *)
(* is ahead of the runs, whatever record_execution evicts.                  *)
THEOREM EvidenceIsSound == Spec => []EvidenceSound
<1>1. Init => EvidenceSound
  BY DEF Init, EvidenceSound
<1> QED BY <1>1, EvidenceStep, InvHolds, PTL DEF Spec, EvidenceStep, InvHolds

-----------------------------------------------------------------------------
(* The counters account for every request.                                 *)

Running == {q \in Requests : pc[q] = "run"}

LEMMA RunningFacts ==
  ASSUME NEW q \in Requests
  PROVE  /\ IsFiniteSet(Running) /\ Cardinality(Running) \in Nat
         /\ q \notin Running => Cardinality(Running \cup {q}) = Cardinality(Running) + 1
         /\ q \in Running => Cardinality(Running \ {q}) = Cardinality(Running) - 1
<1>1. IsFiniteSet(Running)
  BY FS_Subset, Constants DEF Running
<1> QED BY <1>1, FS_CardinalityType, FS_AddElement, FS_RemoveElement

\* The two sides of Accounted.
Answered == st.executions + st.replays + st.rate_limited + st.injected_failures

LEMMA AccountedStep == Inv /\ Accounted /\ [Next]_vars => Accounted'
<1> SUFFICES ASSUME Inv, Accounted, [Next]_vars PROVE Accounted'
  OBVIOUS
<1>0. /\ st \in Statistics /\ cut \in Nat
      /\ pc \in [Requests -> {"new", "run", "join", "done"}]
  BY DEF Inv, EdgeOK, ControlOK
<1> DEFINE n == Cardinality(Running)
<1>a. st.requests = Answered + n + cut
  BY DEF Accounted, Answered, Running
<1>b. SUFFICES st'.requests = Answered' + n' + cut'
  BY DEF Accounted, Answered, Running
<1>c. /\ st.requests \in Nat /\ st.executions \in Nat /\ st.replays \in Nat
      /\ st.rate_limited \in Nat /\ st.injected_failures \in Nat /\ Answered \in Nat
  BY <1>0 DEF Statistics, Answered
<1>d. ASSUME NEW q \in Requests, pc[q] = "new", pc' = [pc EXCEPT ![q] = "run"]
      PROVE  n \in Nat /\ n' = n + 1
  <2>1. Running' = Running \cup {q} /\ q \notin Running
    BY <1>0, <1>d DEF Running
  <2> QED BY <2>1, RunningFacts
<1>e. ASSUME NEW q \in Requests, pc[q] = "run", pc' = [pc EXCEPT ![q] = "done"]
      PROVE  n \in Nat /\ n' = n - 1
  <2>1. Running' = Running \ {q} /\ q \in Running
    BY <1>0, <1>e DEF Running
  <2> QED BY <2>1, RunningFacts
<1>f. ASSUME NEW q \in Requests, pc[q] # "run",
             pc' = [pc EXCEPT ![q] = "done"] \/ pc' = [pc EXCEPT ![q] = "join"]
      PROVE  n \in Nat /\ n' = n
  <2>1. Running' = Running
    BY <1>0, <1>f DEF Running
  <2> QED BY <2>1, RunningFacts
<1> HIDE DEF n
<1>1. ASSUME NEW q \in Requests, NEW k \in Keys, Replay(q, k) \/ Follow(q, k)
      PROVE  st'.requests = Answered' + n' + cut'
  <2>1. n \in Nat /\ n' = n /\ cut' = cut
    BY <1>1, <1>f DEF Replay, Follow
  <2>2. st' = Arrived([st EXCEPT !.replays = @ + 1])
    BY <1>1 DEF Replay, Follow
  <2>3. st'.requests = st.requests + 1 /\ Answered' = Answered + 1
    BY <1>0, <1>c, <2>2 DEF Arrived, Answered, Statistics
  <2> QED BY <1>0, <1>a, <1>c, <2>1, <2>3
<1>2. ASSUME NEW q \in Requests, NEW k \in Keys \union {NoKey}, Refuse(q, k)
      PROVE  st'.requests = Answered' + n' + cut'
  <2>1. n \in Nat /\ n' = n /\ cut' = cut
    BY <1>2, <1>f DEF Refuse, Executes
  <2>2. \/ st' = Arrived([st EXCEPT !.rate_limited = @ + 1])
        \/ st' = Arrived([st EXCEPT !.injected_failures = @ + 1])
    BY <1>2 DEF Refuse
  <2>3. st'.requests = st.requests + 1 /\ Answered' = Answered + 1
    <3>1. CASE st' = Arrived([st EXCEPT !.rate_limited = @ + 1])
      BY <1>0, <1>c, <3>1 DEF Arrived, Answered, Statistics
    <3>2. CASE st' = Arrived([st EXCEPT !.injected_failures = @ + 1])
      BY <1>0, <1>c, <3>2 DEF Arrived, Answered, Statistics
    <3> QED BY <2>2, <3>1, <3>2
  <2> QED BY <1>0, <1>a, <1>c, <2>1, <2>3
<1>3. ASSUME NEW q \in Requests, NEW k \in Keys \union {NoKey}, Start(q, k)
      PROVE  st'.requests = Answered' + n' + cut'
  <2>1. n \in Nat /\ n' = n + 1 /\ cut' = cut /\ st' = Arrived(st)
    BY <1>3, <1>d DEF Start, Executes
  <2>2. st'.requests = st.requests + 1 /\ Answered' = Answered
    BY <1>0, <1>c, <2>1 DEF Arrived, Answered, Statistics
  <2> QED BY <1>0, <1>a, <1>c, <2>1, <2>2
<1>4. ASSUME NEW q \in Requests, Succeed(q) \/ Fail(q)
      PROVE  st'.requests = Answered' + n' + cut'
  <2>1. n \in Nat /\ n' = n - 1 /\ cut' = cut
    BY <1>4, <1>e DEF Succeed, Fail, Leave
  <2>2. \/ st' = [st EXCEPT !.executions = @ + 1]
        \/ st' = [st EXCEPT !.injected_failures = @ + 1]
    BY <1>4 DEF Succeed, Fail
  <2>3. st'.requests = st.requests /\ Answered' = Answered + 1
    BY <1>0, <1>c, <2>2 DEF Answered, Statistics
  <2> QED BY <1>0, <1>a, <1>c, <2>1, <2>3
<1>5. ASSUME NEW q \in Requests, Cancel(q)
      PROVE  st'.requests = Answered' + n' + cut'
  <2>1. CASE pc[q] = "run"
    <3>1. n \in Nat /\ n' = n - 1 /\ cut' = cut + 1 /\ st' = st
      BY <1>5, <2>1, <1>e DEF Cancel, Leave
    <3> QED BY <1>0, <1>a, <1>c, <3>1 DEF Answered
  <2>2. CASE pc[q] # "run"
    <3>1. n \in Nat /\ n' = n /\ cut' = cut /\ st' = st
      BY <1>5, <2>2, <1>f DEF Cancel, Leave
    <3> QED BY <1>a, <3>1 DEF Answered
  <2> QED BY <2>1, <2>2
<1>6. ASSUME NEW q \in Requests, Join(q)
      PROVE  st'.requests = Answered' + n' + cut'
  <2>1. n' = n /\ cut' = cut /\ st' = st
    BY <1>6, <1>f DEF Join, Leave
  <2> QED BY <1>a, <2>1 DEF Answered
<1>7. CASE Reset
  <2>1. Running = {} /\ Running' = {}
    BY <1>7 DEF Reset, Running
  <2>2. n' = 0
    BY <2>1, FS_EmptySet DEF n
  <2> QED BY <1>7, <2>2 DEF Reset, NoStats, Answered
<1>8. CASE UNCHANGED <<pc, st, cut>>
  BY <1>a, <1>8 DEF n, Running, Answered
<1> QED
  BY <1>1, <1>2, <1>3, <1>4, <1>5, <1>6, <1>7, <1>8
     DEF Next, Arrive, GrowOld, SetChaos, Accrue, vars

(* The counters of /admin/call-counts account for every request: one is     *)
(* executing, was cut off inside the model, or was counted exactly once as  *)
(* an execution, a replay, a refusal or a failure.                          *)
THEOREM RequestsAreAccounted == Spec => []Accounted
<1>1. Init => Accounted
  <2>1. ASSUME Init PROVE {q \in Requests : pc[q] = "run"} = {}
    BY <2>1 DEF Init
  <2>2. Cardinality({}) = 0
    BY FS_EmptySet
  <2>3. ASSUME Init PROVE Accounted
    <3>1. Cardinality({q \in Requests : pc[q] = "run"}) = 0
      BY <2>1, <2>2, <2>3
    <3>2. cut = 0 /\ st = NoStats
      BY <2>3 DEF Init
    <3> QED BY <3>1, <3>2 DEF Accounted, NoStats
  <2> QED BY <2>3
<1> QED BY <1>1, AccountedStep, InvHolds, PTL DEF Spec, AccountedStep, InvHolds
=============================================================================

------------------------- MODULE SubscriptionProofs --------------------------
(***************************************************************************)
(* Proofs about Subscription, for any job, clients, limits and stream       *)
(* lengths.                                                                 *)
(***************************************************************************)
EXTENDS Subscription, FiniteSetTheorems, TLAPS

(* The provers a leaf that names none is given to, and in which order.     *)
USE SMT, ZenonT(30), SMTT(10), SMTT(20)

States == {"off", "accepted", "gap", "open", "history", "tail", "progress",
           "complete", "derived"}
Connection == [pc : States, from : Nat, resync : BOOLEAN]

Events == [event : {"page.partial", "page.final"}, page : Pages] \cup {Complete}

(* The generator holds a slot.                                             *)
Serving(k) == k.pc \in {"accepted", "gap", "open", "history", "tail", "progress"}

(* Positions refer to events that were published.                          *)
Typed ==
  /\ outcome \in [Pages -> Job!Outcomes] /\ count \in Nat
  /\ log \in Seq(Events)
  /\ lo \in Nat /\ 1 <= lo /\ lo <= Len(log) + 1
  /\ log # <<>> => lo <= Len(log)
  /\ conn \in [Clients -> Connection]
  /\ cursor \in [Clients -> Nat] /\ known \in [Clients -> SUBSET DOMAIN log]
  /\ \A c \in Clients : conn[c].from <= Len(log) /\ cursor[c] <= Len(log)
  /\ active \in Nat /\ connects \in Nat /\ drops \in Nat /\ faults \in Nat

(* The counter counts the settled pages, and job.complete follows them.    *)
SettledPages == {p \in Pages : outcome[p] \in Job!Settled}

JobInv ==
  /\ count = Cardinality(SettledPages)
  /\ (\E i \in DOMAIN log : log[i] = Complete) => SettledPages = Pages

(* What a client was sent, or told it may have missed: all up to the       *)
(* position its generator reads from, and from the replay on all that was  *)
(* trimmed.  Between the check for a gap and the opening frames the        *)
(* position is still covered by what is retained.                          *)
Tells(k, u, S) ==
  /\ 1..u \subseteq S
  /\ Serving(k) => 1..k.from \subseteq S
  /\ k.pc = "open" /\ k.from # 0 => lo <= k.from + 1
  /\ k.pc \in {"history", "tail", "progress"} => 1..(lo - 1) \subseteq S

Told(c) == Tells(conn[c], cursor[c], known[c])

ToldInv == \A c \in Clients : Told(c)

-----------------------------------------------------------------------------
(* Reading the stream.  What is retained is an interval of positions, and   *)
(* so is what a read returns and what a client has received of it.         *)

LEMMA MaxOfTwo ==
  ASSUME NEW a \in Int, NEW b \in Int
  PROVE  Max({a, b}) = IF a >= b THEN a ELSE b
BY DEF Max

LEMMA MaxOfInterval ==
  ASSUME NEW a \in Int, NEW b \in Int, a <= b
  PROVE  Max(a..b) = b
<1>1. b \in a..b /\ \A y \in a..b : b >= y
  OBVIOUS
<1>2. \A x \in a..b : (\A y \in a..b : x >= y) => x = b
  BY <1>1
<1> QED BY <1>1, <1>2 DEF Max

LEMMA IntervalSize ==
  ASSUME NEW a \in Nat, NEW b \in Nat, a <= b
  PROVE  IsFiniteSet((a + 1)..b) /\ Cardinality((a + 1)..b) = b - a
<1>1. a + 1 \in Int /\ b \in Int
  OBVIOUS
<1>2. /\ IsFiniteSet((a + 1)..b)
      /\ Cardinality((a + 1)..b) = IF a + 1 > b THEN 0 ELSE b - (a + 1) + 1
  BY <1>1, FS_Interval
<1> QED BY <1>2

(* The position a read effectively starts from.                            *)
Base(from) == IF from >= lo THEN from ELSE lo - 1

LEMMA AfterInterval ==
  ASSUME Typed, NEW from \in Nat, from <= Len(log), NEW n \in Nat
  PROVE  \E b \in Nat :
           /\ Base(from) \in Nat /\ Base(from) <= b /\ b <= Len(log)
           /\ After(from, n) = (Base(from) + 1)..b
           /\ Cardinality(After(from, n)) = b - Base(from)
           /\ IsFiniteSet(After(from, n))
<1> DEFINE a == Base(from)
           b == IF a + n <= Len(log) THEN a + n ELSE Len(log)
<1>1. /\ Len(log) \in Nat /\ DOMAIN log = 1..Len(log)
      /\ lo \in Nat /\ 1 <= lo /\ lo <= Len(log) + 1
  BY DEF Typed
<1>2. a \in Nat /\ a <= Len(log) /\ from <= a /\ lo <= a + 1
  BY <1>1 DEF Base
<1>3. \A i \in Int : i \in Retained /\ i > from <=> i \in (a + 1)..Len(log)
  BY <1>1 DEF Retained, Base
<1>4. ASSUME NEW i \in (a + 1)..Len(log)
      PROVE  Cardinality({j \in Retained : from < j /\ j <= i}) = i - a
  <2>1. {j \in Retained : from < j /\ j <= i} = (a + 1)..i
    <3>1. Retained \subseteq Int
      BY <1>1 DEF Retained
    <3>2. \A j \in Int : j \in (a + 1)..i <=> j \in (a + 1)..Len(log) /\ j <= i
      BY <1>1, <1>2, <1>4
    <3>3. \A j \in Int : j \in (a + 1)..i <=> j \in Retained /\ from < j /\ j <= i
      BY <3>2, <1>3
    <3>4. (a + 1)..i \subseteq Int
      OBVIOUS
    <3> HIDE DEF a
    <3> QED BY <3>1, <3>3, <3>4
  <2>2. Cardinality((a + 1)..i) = i - a
    BY <1>1, <1>2, <1>4, IntervalSize
  <2> QED BY <2>1, <2>2
<1> HIDE DEF a
<1>5. After(from, n) = (a + 1)..b
  <2>1. Retained \subseteq Int
    BY <1>1 DEF Retained
  <2>2. ASSUME NEW i \in Int
        PROVE  i \in After(from, n) <=> i \in (a + 1)..b
    <3>1. CASE i \in (a + 1)..Len(log)
      <4>1. i \in After(from, n) <=> i - a <= n
        BY <1>3, <1>4, <3>1 DEF After
      <4> QED BY <4>1, <3>1, <1>1, <1>2
    <3>2. CASE i \notin (a + 1)..Len(log)
      <4>1. i \notin After(from, n)
        BY <1>3, <3>2 DEF After
      <4>2. b <= Len(log) /\ b \in Int
        BY <1>1, <1>2
      <4> QED BY <4>1, <4>2, <3>2, <1>1, <1>2
    <3> QED BY <3>1, <3>2
  <2>3. After(from, n) \subseteq Int
    BY <2>1 DEF After
  <2>4. (a + 1)..b \subseteq Int
    OBVIOUS
  <2> HIDE DEF b
  <2> QED BY <2>2, <2>3, <2>4
<1>6. b \in Nat /\ a <= b /\ b <= Len(log)
  BY <1>1, <1>2
<1> HIDE DEF b
<1>7. Cardinality((a + 1)..b) = b - a /\ IsFiniteSet((a + 1)..b)
  BY <1>2, <1>6, IntervalSize
<1> QED BY <1>2, <1>5, <1>6, <1>7 DEF a

(* What a client has received when it got the first n frames.              *)
LEMMA SeenInterval ==
  ASSUME NEW a \in Nat, NEW b \in Nat, a <= b, NEW n \in 0..(b - a)
  PROVE  {i \in (a + 1)..b : Cardinality({j \in (a + 1)..b : j <= i}) <= n} = (a + 1)..(a + n)
<1>1. ASSUME NEW i \in (a + 1)..b
      PROVE  Cardinality({j \in (a + 1)..b : j <= i}) = i - a
  <2>1. {j \in (a + 1)..b : j <= i} = (a + 1)..i
    BY <1>1
  <2>2. Cardinality((a + 1)..i) = i - a
    BY <1>1, IntervalSize
  <2> QED BY <2>1, <2>2
<1>2. {i \in (a + 1)..b : Cardinality({j \in (a + 1)..b : j <= i}) <= n}
        = {i \in (a + 1)..b : i - a <= n}
  BY <1>1
<1> QED BY <1>2

(* A read of at most n entries: the frames of an interval of positions go  *)
(* out, up to position m.                                                  *)
Received(c, k, m) ==
  LET a == Base(conn[c].from)
  IN  /\ a \in Nat /\ a <= m /\ m <= Len(log)
      /\ conn' = [conn EXCEPT ![c] = k]
      /\ cursor' = [cursor EXCEPT ![c] = IF m = a THEN @ ELSE m]
      /\ known' = [known EXCEPT ![c] = @ \cup (a + 1)..m]
      /\ \/ /\ k.pc = "tail" /\ UNCHANGED active
            /\ k.from = IF m = a THEN conn[c].from ELSE m
         \/ k.pc = "off" /\ k.from = 0 /\ release
         \/ /\ k.pc = "complete" /\ k.from = 0 /\ release
            /\ \E i \in DOMAIN log : log[i] = Complete

LEMMA DeliverReceived ==
  ASSUME Typed, NEW c \in Clients, NEW n \in Nat,
         Deliver(c, After(conn[c].from, n))
  PROVE  \E k \in Connection, m \in Nat : Received(c, k, m)
<1> DEFINE from == conn[c].from
           ids == After(from, n)
           a == Base(from)
<1>1. from \in Nat /\ from <= Len(log) /\ conn[c] \in Connection
  BY DEF Typed, Connection
<1>2. PICK b \in Nat : /\ a \in Nat /\ a <= b /\ b <= Len(log) /\ ids = (a + 1)..b
                       /\ Cardinality(ids) = b - a
  BY <1>1, AfterInterval
<1> DEFINE seen(g) == {i \in ids : Cardinality({j \in ids : j <= i}) <= g}
           over == \E i \in ids : log[i] = Complete
<1>3. PICK g \in 0..Cardinality(ids) :
        /\ known' = [known EXCEPT ![c] = @ \cup seen(g)]
        /\ cursor' = [cursor EXCEPT ![c] = IF seen(g) = {} THEN @ ELSE Max(seen(g))]
        /\ \/ /\ g < Cardinality(ids)
              /\ conn' = [conn EXCEPT ![c] = NoConn] /\ release
           \/ /\ g = Cardinality(ids) /\ over
              /\ conn' = [conn EXCEPT ![c] = [NoConn EXCEPT !.pc = "complete"]]
              /\ release
           \/ /\ g = Cardinality(ids) /\ ~over
              /\ conn' = [conn EXCEPT ![c] = [conn[c] EXCEPT !.pc = "tail",
                            !.from = IF ids = {} THEN conn[c].from ELSE Max(ids)]]
              /\ UNCHANGED active
  BY DEF Deliver
<1> HIDE DEF ids, a, from
<1>4. g \in 0..(b - a) /\ a + g \in Nat /\ a <= a + g /\ a + g <= Len(log)
  <2>1. g \in 0..(b - a) /\ Len(log) \in Nat
    BY <1>2, <1>3 DEF Typed
  <2> QED BY <2>1, <1>2
<1>5. seen(g) = (a + 1)..(a + g)
  BY <1>2, <1>4, SeenInterval
<1>6. /\ seen(g) = {} <=> a + g = a
      /\ a + g # a => Max(seen(g)) = a + g
  <2>1. CASE g = 0
    BY <2>1, <1>2, <1>5
  <2>2. CASE g # 0
    <3>1. a + 1 \in Int /\ a + g \in Int /\ a + 1 <= a + g /\ a + g # a
      BY <2>2, <1>2, <1>4
    <3>2. a + 1 \in (a + 1)..(a + g)
      BY <3>1
    <3> QED BY <3>1, <3>2, <1>5, MaxOfInterval
  <2> QED BY <2>1, <2>2
<1>7. /\ ids = {} <=> b = a
      /\ b # a => Max(ids) = b
  BY <1>2, MaxOfInterval
<1> HIDE DEF seen
<1>8. /\ known' = [known EXCEPT ![c] = @ \cup (a + 1)..(a + g)]
      /\ cursor' = [cursor EXCEPT ![c] = IF a + g = a THEN @ ELSE a + g]
  BY <1>3, <1>5, <1>6
<1>9. CASE g < Cardinality(ids) /\ conn' = [conn EXCEPT ![c] = NoConn] /\ release
  <2>1. NoConn \in Connection /\ NoConn.pc = "off" /\ NoConn.from = 0
    BY DEF NoConn, Connection, States
  <2>2. Received(c, NoConn, a + g)
    BY <1>2, <1>4, <1>8, <1>9, <2>1 DEF Received, a, from
  <2> QED BY <1>4, <2>1, <2>2
<1>10. CASE /\ g = Cardinality(ids) /\ over
            /\ conn' = [conn EXCEPT ![c] = [NoConn EXCEPT !.pc = "complete"]]
            /\ release
  <2> DEFINE k == [NoConn EXCEPT !.pc = "complete"]
  <2>1. k \in Connection /\ k.pc = "complete" /\ k.from = 0
    BY DEF NoConn, Connection, States
  <2>2. \E i \in DOMAIN log : log[i] = Complete
    BY <1>2, <1>10 DEF Typed
  <2>3. conn' = [conn EXCEPT ![c] = k]
    BY <1>10
  <2> HIDE DEF k
  <2>4. Received(c, k, a + g)
    BY <1>2, <1>4, <1>8, <1>10, <2>1, <2>2, <2>3 DEF Received, a, from
  <2> QED BY <1>4, <2>1, <2>4
<1>11. CASE /\ g = Cardinality(ids) /\ ~over
            /\ conn' = [conn EXCEPT ![c] = [conn[c] EXCEPT !.pc = "tail",
                          !.from = IF ids = {} THEN conn[c].from ELSE Max(ids)]]
            /\ UNCHANGED active
  <2> DEFINE f == IF ids = {} THEN from ELSE Max(ids)
             k == [conn[c] EXCEPT !.pc = "tail", !.from = f]
  <2>1. a + g = b
    BY <1>2, <1>11
  <2>2. f \in Nat /\ f = IF a + g = a THEN from ELSE a + g
    BY <1>1, <1>2, <1>7, <2>1
  <2>3. conn' = [conn EXCEPT ![c] = k]
    BY <1>11 DEF from
  <2> HIDE DEF f
  <2>4. k \in Connection /\ k.pc = "tail" /\ k.from = f
    BY <1>1, <2>2 DEF Connection, States
  <2> HIDE DEF k
  <2>5. Received(c, k, a + g)
    BY <1>2, <1>4, <1>8, <1>11, <2>2, <2>3, <2>4 DEF Received, a, from
  <2> QED BY <1>4, <2>4, <2>5
<1> QED BY <1>3, <1>9, <1>10, <1>11

-----------------------------------------------------------------------------
(* The steps of a connection: what becomes of its generator, its client's   *)
(* cursor and knowledge, and the slots.                                    *)
Read(c) == Connect(c) \/ Drop(c) \/ Serve(c) \/ Leave(c) \/ RedisFails(c)

(* How a step of a connection that becomes k counts the slots.             *)
Slots(c, k) ==
  \/ (Serving(k) <=> Serving(conn[c])) /\ UNCHANGED <<active, drops>>
  \/ /\ ~Serving(conn[c]) /\ Serving(k)
     /\ active < LIMIT /\ active' = active + 1 /\ UNCHANGED drops
  \/ Serving(conn[c]) /\ ~Serving(k) /\ release /\ UNCHANGED drops
  \/ Serving(conn[c]) /\ ~Serving(k) /\ UNCHANGED active /\ drops' = drops + 1

(* How it may come to its end.                                             *)
Ended(c, k) ==
  /\ k.pc = "complete" => \/ conn[c].pc = "complete"
                          \/ \E i \in DOMAIN log : log[i] = Complete
  /\ k.pc = "derived" => conn[c].pc = "derived" \/ count >= Cardinality(Pages)

Turn(c, k, u, S) ==
  /\ conn' = [conn EXCEPT ![c] = k]
  /\ cursor' = [cursor EXCEPT ![c] = u]
  /\ known' = [known EXCEPT ![c] = S]
  /\ k.from <= Len(log) /\ u <= Len(log)
  /\ Slots(c, k) /\ Ended(c, k)
  /\ Told(c) => Tells(k, u, S)

LEMMA ConnectTurn ==
  ASSUME Typed, NEW c \in Clients, Connect(c)
  PROVE  \E k \in Connection, u \in Nat, S \in SUBSET DOMAIN log : Turn(c, k, u, S)
<1>1. /\ conn[c] \in Connection /\ cursor[c] \in Nat /\ known[c] \in SUBSET DOMAIN log
      /\ conn[c].from <= Len(log) /\ cursor[c] <= Len(log) /\ conn[c].pc = "off"
      /\ Len(log) \in Nat
  BY DEF Typed, Connect
<1>2. /\ cursor' = [cursor EXCEPT ![c] = cursor[c]]
      /\ known' = [known EXCEPT ![c] = known[c]] /\ UNCHANGED drops
  BY DEF Typed, Connect
<1>3. CASE UNCHANGED <<active, conn>>
  <2>1. conn' = [conn EXCEPT ![c] = conn[c]]
    BY <1>3 DEF Typed
  <2>2. Slots(c, conn[c]) /\ Ended(c, conn[c])
    <3>1. (Serving(conn[c]) <=> Serving(conn[c])) /\ UNCHANGED <<active, drops>>
      BY <1>2, <1>3
    <3> QED BY <3>1 DEF Slots, Ended
  <2>3. Turn(c, conn[c], cursor[c], known[c])
    BY <1>1, <1>2, <2>1, <2>2 DEF Turn, Told
  <2> QED BY <1>1, <2>3
<1>4. CASE active < LIMIT /\ active' = active + 1 /\ \E from \in {0, cursor[c]} :
             conn' = [conn EXCEPT ![c] = [NoConn EXCEPT !.pc = "accepted", !.from = from]]
  <2>1. PICK from \in {0, cursor[c]} :
             conn' = [conn EXCEPT ![c] = [NoConn EXCEPT !.pc = "accepted", !.from = from]]
    BY <1>4
  <2> DEFINE k == [NoConn EXCEPT !.pc = "accepted", !.from = from]
  <2>4. from \in Nat /\ from <= Len(log) /\ (from = 0 \/ from = cursor[c])
    BY <1>1
  <2>2. k \in Connection /\ k.pc = "accepted" /\ k.from = from
    BY <2>4 DEF NoConn, Connection, States
  <2>3. conn' = [conn EXCEPT ![c] = k]
    BY <2>1
  <2> HIDE DEF k
  <2>5. Told(c) => Tells(k, cursor[c], known[c])
    BY <1>1, <2>2, <2>4 DEF Told, Tells
  <2>6. Turn(c, k, cursor[c], known[c])
    BY <1>1, <1>2, <1>4, <2>2, <2>3, <2>4, <2>5 DEF Turn, Slots, Ended, Serving
  <2> QED BY <1>1, <2>2, <2>6
<1> QED BY <1>3, <1>4 DEF Connect

(* The steps that leave the cursor alone.                                  *)
LEMMA QuietTurn ==
  ASSUME Typed, NEW c \in Clients, NEW k \in Connection, NEW S \in SUBSET DOMAIN log,
         known[c] \subseteq S, conn' = [conn EXCEPT ![c] = k], UNCHANGED cursor,
         known' = [known EXCEPT ![c] = S], k.from <= Len(log),
         Slots(c, k), Ended(c, k),
         Serving(k) => /\ Serving(conn[c])
                       /\ k.from = 0 \/ k.from = conn[c].from,
         k.pc = "open" /\ k.from # 0 => lo <= k.from + 1,
         k.pc \in {"history", "tail", "progress"} /\ Told(c) => 1..(lo - 1) \subseteq S
  PROVE  \E l \in Connection, u \in Nat, T \in SUBSET DOMAIN log : Turn(c, l, u, T)
<1>1. /\ cursor' = [cursor EXCEPT ![c] = cursor[c]]
      /\ cursor[c] \in Nat /\ cursor[c] <= Len(log)
  BY DEF Typed
<1>2. Told(c) => Tells(k, cursor[c], S)
  BY DEF Told, Tells
<1>3. Turn(c, k, cursor[c], S)
  BY <1>1, <1>2 DEF Turn
<1> QED BY <1>1, <1>3

LEMMA ReadTurn ==
  ASSUME Typed, NEW c \in Clients, Read(c)
  PROVE  \E k \in Connection, u \in Nat, S \in SUBSET DOMAIN log : Turn(c, k, u, S)
<1> DEFINE Goal == \E k \in Connection, u \in Nat, S \in SUBSET DOMAIN log : Turn(c, k, u, S)
<1>1. /\ conn[c] \in Connection /\ cursor[c] \in Nat /\ known[c] \in SUBSET DOMAIN log
      /\ conn[c].from \in Nat /\ conn[c].from <= Len(log) /\ cursor[c] <= Len(log)
      /\ Len(log) \in Nat /\ lo \in Nat /\ 1 <= lo /\ DOMAIN log = 1..Len(log)
  BY DEF Typed, Connection
<1>2. PICK off \in Connection : off = NoConn /\ off.pc = "off" /\ off.from <= Len(log)
  <2>1. 0 <= Len(log)
    BY <1>1
  <2>2. NoConn \in Connection /\ NoConn.pc = "off" /\ NoConn.from = 0
    BY DEF NoConn, Connection, States
  <2> QED BY <2>1, <2>2
<1>3. UNCHANGED known => known' = [known EXCEPT ![c] = known[c]]
  BY DEF Typed
<1>4. ASSUME NEW p \in States
      PROVE  /\ [conn[c] EXCEPT !.pc = p] \in Connection
             /\ [conn[c] EXCEPT !.pc = p].pc = p
             /\ [conn[c] EXCEPT !.pc = p].from = conn[c].from
             /\ [NoConn EXCEPT !.pc = p] \in Connection
             /\ [NoConn EXCEPT !.pc = p].pc = p /\ [NoConn EXCEPT !.pc = p].from = 0
  BY <1>1, <1>4 DEF Connection, States, NoConn
<1>5. CASE Drop(c)
  <2>1. Slots(c, off) /\ Ended(c, off) /\ ~Serving(off)
    BY <1>2, <1>5 DEF Drop, Slots, Ended, Serving
  <2> QED BY <1>1, <1>2, <1>3, <1>5, <2>1, QuietTurn DEF Drop
<1>6. CASE Begin(c)
  <2>1. PICK p \in States : p = IF conn[c].from # 0 THEN "gap" ELSE "open"
    BY DEF States
  <2>2. PICK k \in Connection : k.pc = p /\ k.from = conn[c].from
                                /\ conn' = [conn EXCEPT ![c] = k]
    BY <1>4, <1>6, <2>1 DEF Begin
  <2>3. Serving(k) /\ Serving(conn[c]) /\ Slots(c, k) /\ Ended(c, k)
    BY <2>1, <2>2, <1>6 DEF Begin, Slots, Ended, Serving
  <2> QED BY <1>1, <1>3, <1>6, <2>1, <2>2, <2>3, QuietTurn DEF Begin
<1>7. CASE CheckGap(c)
  <2>1. "open" \in States
    BY DEF States
  <2>2. CASE gap_after(conn[c].from)
    <3> DEFINE k == [pc |-> "open", from |-> 0, resync |-> TRUE]
    <3>1. k \in Connection /\ k.pc = "open" /\ k.from = 0 /\ k.from <= Len(log)
      BY <1>1 DEF Connection, States
    <3>2. conn' = [conn EXCEPT ![c] = k]
      BY <1>7, <2>2 DEF CheckGap
    <3> HIDE DEF k
    <3>3. Serving(k) /\ Serving(conn[c]) /\ Slots(c, k) /\ Ended(c, k)
      BY <3>1, <1>7 DEF CheckGap, Slots, Ended, Serving
    <3> QED BY <1>1, <1>3, <1>7, <3>1, <3>2, <3>3, QuietTurn DEF CheckGap
  <2>3. CASE ~gap_after(conn[c].from)
    <3>1. PICK k \in Connection : k.pc = "open" /\ k.from = conn[c].from
                                  /\ conn' = [conn EXCEPT ![c] = k]
      BY <1>4, <1>7, <2>1, <2>3 DEF CheckGap
    <3>2. Serving(k) /\ Serving(conn[c]) /\ Slots(c, k) /\ Ended(c, k)
      BY <3>1, <1>7 DEF CheckGap, Slots, Ended, Serving
    <3>3. k.from # 0 => lo <= k.from + 1
      <4>1. k.from # 0 => lo <= Len(log)
        BY <1>1, <3>1 DEF Typed
      <4>2. k.from # 0 => lo \in Retained
        BY <1>1, <4>1 DEF Retained
      <4> QED BY <1>1, <2>3, <3>1, <4>2 DEF gap_after
    <3> QED BY <1>1, <1>3, <1>7, <3>1, <3>2, <3>3, QuietTurn DEF CheckGap
  <2> QED BY <2>2, <2>3
<1>8. CASE Open(c)
  <2>1. "history" \in States
    BY DEF States
  <2>2. PICK k \in Connection : k.pc = "history" /\ k.from = conn[c].from
                                /\ conn' = [conn EXCEPT ![c] = k]
    BY <1>4, <1>8, <2>1 DEF Open
  <2>3. Serving(k) /\ Serving(conn[c]) /\ Slots(c, k) /\ Ended(c, k)
    BY <2>2, <1>8 DEF Open, Slots, Ended, Serving
  <2> DEFINE S == IF conn[c].from = 0 THEN known[c] \cup 1..(lo - 1) ELSE known[c]
  <2>4. S \in SUBSET DOMAIN log /\ known[c] \subseteq S
    BY <1>1 DEF Typed
  <2>5. known' = [known EXCEPT ![c] = S]
    BY <1>8 DEF Open, Typed
  <2>6. Told(c) => 1..(lo - 1) \subseteq S
    BY <1>1, <1>8 DEF Open, Told, Tells, Serving
  <2> HIDE DEF S
  <2> QED BY <1>1, <1>8, <2>2, <2>3, <2>4, <2>5, <2>6, QuietTurn DEF Open
<1>9. ASSUME NEW n \in Nat, conn[c].pc \in {"history", "tail"},
             Deliver(c, After(conn[c].from, n)), UNCHANGED drops
      PROVE  Goal
  <2>1. PICK k \in Connection, m \in Nat : Received(c, k, m)
    BY <1>9, DeliverReceived
  <2> DEFINE a == Base(conn[c].from)
             u == IF m = a THEN cursor[c] ELSE m
             S == known[c] \cup (a + 1)..m
  <2>2. a \in Nat /\ a <= m /\ m <= Len(log)
    BY <2>1 DEF Received
  <2>3. /\ conn' = [conn EXCEPT ![c] = k]
        /\ cursor' = [cursor EXCEPT ![c] = u]
        /\ known' = [known EXCEPT ![c] = S]
    BY <2>1 DEF Received
  <2>4. S \in SUBSET DOMAIN log /\ u \in Nat /\ u <= Len(log)
    BY <1>1, <2>2
  <2>5. k.from <= Len(log) /\ (k.pc = "tail" => k.from = IF m = a THEN conn[c].from ELSE m)
    BY <1>1, <2>1, <2>2 DEF Received
  <2>6. Slots(c, k) /\ Ended(c, k)
    BY <1>9, <2>1 DEF Received, Slots, Ended, Serving
  <2>7. Told(c) => 1..m \subseteq S
    <3>1. Told(c) => 1..(lo - 1) \subseteq known[c] /\ 1..conn[c].from \subseteq known[c]
      BY <1>9 DEF Told, Tells, Serving
    <3>2. Told(c) => 1..a \subseteq known[c]
      BY <3>1 DEF Base
    <3> HIDE DEF a
    <3> QED BY <3>2, <2>2
  <2>8. lo - 1 <= a /\ conn[c].from <= a
    BY <1>1 DEF Base
  <2>9. k.pc \in {"tail", "off", "complete"}
    BY <2>1 DEF Received
  <2>10. Told(c) => Tells(k, u, S)
    <3> HIDE DEF a
    <3>1. Told(c) => 1..u \subseteq S
      BY <2>7 DEF Told, Tells
    <3>2. Told(c) => 1..(lo - 1) \subseteq S
      BY <1>1, <2>2, <2>7, <2>8
    <3>3. Told(c) /\ k.pc = "tail" => 1..k.from \subseteq S
      BY <1>1, <2>2, <2>5, <2>7, <2>8
    <3> QED BY <2>9, <3>1, <3>2, <3>3 DEF Tells, Serving
  <2> HIDE DEF S, u
  <2>11. Turn(c, k, u, S)
    BY <2>3, <2>4, <2>5, <2>6, <2>10 DEF Turn
  <2> QED BY <2>4, <2>11
<1>10. CASE Replay(c)
  BY <1>9, <1>10, SubscriptionAssumption DEF Replay
<1>11. CASE ReadTail(c)
  <2>1. CASE Deliver(c, After(conn[c].from, BATCH))
    BY <1>9, <1>11, <2>1, SubscriptionAssumption DEF ReadTail
  <2>2. CASE /\ conn' = [conn EXCEPT ![c].pc = "progress"]
             /\ UNCHANGED <<cursor, known, active>>
    <3>1. "progress" \in States
      BY DEF States
    <3>2. PICK k \in Connection : k.pc = "progress" /\ k.from = conn[c].from
                                  /\ conn' = [conn EXCEPT ![c] = k]
      BY <1>4, <2>2, <3>1
    <3>3. Serving(k) /\ Serving(conn[c]) /\ Slots(c, k) /\ Ended(c, k)
      BY <3>2, <1>11, <2>2 DEF ReadTail, Slots, Ended, Serving
    <3>4. Told(c) => 1..(lo - 1) \subseteq known[c]
      BY <1>11 DEF ReadTail, Told, Tells
    <3> QED BY <1>1, <1>3, <2>2, <3>2, <3>3, <3>4, QuietTurn
  <2> QED BY <1>11, <2>1, <2>2 DEF ReadTail
<1>12. CASE Progress(c)
  <2>1. CASE count >= Cardinality(Pages)
    <3>1. "derived" \in States
      BY DEF States
    <3>2. PICK k \in Connection : k.pc = "derived" /\ k.from <= Len(log)
                                  /\ conn' = [conn EXCEPT ![c] = k]
      <4>1. 0 <= Len(log)
        BY <1>1
      <4> QED BY <1>4, <1>12, <2>1, <3>1, <4>1 DEF Progress
    <3>3. ~Serving(k) /\ Slots(c, k) /\ Ended(c, k)
      BY <3>2, <1>12, <2>1 DEF Progress, Slots, Ended, Serving
    <3> QED BY <1>1, <1>3, <1>12, <3>2, <3>3, QuietTurn DEF Progress
  <2>2. CASE ~(count >= Cardinality(Pages))
    <3>1. "tail" \in States
      BY DEF States
    <3>2. PICK k \in Connection : k.pc = "tail" /\ k.from = conn[c].from
                                  /\ conn' = [conn EXCEPT ![c] = k]
      BY <1>4, <1>12, <2>2, <3>1 DEF Progress
    <3>3. Serving(k) /\ Serving(conn[c]) /\ Slots(c, k) /\ Ended(c, k)
      BY <3>2, <1>12, <2>2 DEF Progress, Slots, Ended, Serving
    <3>4. Told(c) => 1..(lo - 1) \subseteq known[c]
      BY <1>12 DEF Progress, Told, Tells
    <3> QED BY <1>1, <1>3, <1>12, <3>2, <3>3, <3>4, QuietTurn DEF Progress
  <2> QED BY <2>1, <2>2
<1>13. CASE Leave(c)
  <2>1. Slots(c, off) /\ Ended(c, off) /\ ~Serving(off)
    BY <1>2, <1>13 DEF Leave, Slots, Ended, Serving
  <2> QED BY <1>1, <1>2, <1>3, <1>13, <2>1, QuietTurn DEF Leave
<1>14. CASE RedisFails(c)
  <2>1. Slots(c, off) /\ Ended(c, off) /\ ~Serving(off)
    BY <1>2, <1>14 DEF RedisFails, Slots, Ended, Serving, Streaming
  <2> DEFINE S == known[c] \cup DOMAIN log
  <2>2. S \in SUBSET DOMAIN log /\ known[c] \subseteq S
    BY <1>1
  <2>3. known' = [known EXCEPT ![c] = S]
    BY <1>14 DEF RedisFails
  <2> HIDE DEF S
  <2> QED BY <1>1, <1>2, <1>14, <2>1, <2>2, <2>3, QuietTurn DEF RedisFails
<1> QED BY <1>5, <1>6, <1>7, <1>8, <1>10, <1>11, <1>12, <1>13, <1>14, ConnectTurn
        DEF Read, Serve

LEMMA ReadFrame ==
  ASSUME Typed, NEW c \in Clients, Read(c)
  PROVE  /\ UNCHANGED <<outcome, count, log, lo>>
         /\ connects' \in Nat /\ faults' \in Nat
<1>1. UNCHANGED <<outcome, count, log, lo>>
  BY DEF Read, Connect, Drop, Serve, Begin, CheckGap, Open, Replay, ReadTail, Progress,
         Leave, RedisFails, jobVars, stream
<1>2. connects' \in {connects, connects + 1}
  BY DEF Read, Connect, Drop, Serve, Begin, CheckGap, Open, Replay, ReadTail, Progress,
         Leave, RedisFails
<1>3. faults' \in {faults, faults + 1}
  BY DEF Read, Connect, Drop, Serve, Begin, CheckGap, Open, Replay, ReadTail, Progress,
         Leave, RedisFails
<1> QED BY <1>1, <1>2, <1>3 DEF Typed

(* An XADD adds a position and may trim others, never the new one.         *)
LEMMA PublishFacts ==
  ASSUME Typed, NEW ev \in Events, publish(ev)
  PROVE  /\ log' \in Seq(Events) /\ Len(log') = Len(log) + 1
         /\ \A i \in 1..Len(log) : log'[i] = log[i]
         /\ log'[Len(log) + 1] = ev
         /\ lo' \in Nat /\ lo <= lo' /\ lo' <= Len(log')
         /\ UNCHANGED <<conn, cursor, known, active, connects, drops, faults>>
<1>1. log' = Append(log, ev) /\ log \in Seq(Events) /\ Len(log) \in Nat
  BY DEF publish, Typed
<1>2. /\ log' \in Seq(Events) /\ Len(log') = Len(log) + 1
      /\ \A i \in 1..Len(log) : log'[i] = log[i]
      /\ log'[Len(log) + 1] = ev
  BY <1>1
<1>3. lo \in Nat /\ Len(log) + 2 - MAXLEN \in Int /\ Len(log) + 2 - MAXLEN <= Len(log) + 1
      /\ lo <= Len(log) + 1
  BY <1>1, SubscriptionAssumption DEF Typed
<1>4. Max({lo, Len(log) + 2 - MAXLEN}) \in Int /\ Max({lo, Len(log) + 2 - MAXLEN}) <= Len(log) + 1
  BY <1>1, <1>3, MaxOfTwo
<1>5. lo' \in lo..Max({lo, Len(log) + 2 - MAXLEN})
  BY DEF publish
<1>6. lo' \in Nat /\ lo <= lo' /\ lo' <= Len(log) + 1
  <2> DEFINE m == Max({lo, Len(log) + 2 - MAXLEN})
  <2> HIDE DEF m
  <2> QED BY <1>1, <1>3, <1>4, <1>5 DEF m
<1> QED BY <1>2, <1>6 DEF publish, client

(* The steps of Next, by who takes them.                                   *)
Published(ev) ==
  publish(ev) /\ UNCHANGED <<outcome, count>> /\ (ev = Complete => SettledPages = Pages)

LEMMA NextCases ==
  ASSUME Next
  PROVE  \/ JobStep
         \/ \E ev \in Events : Published(ev)
         \/ \E c \in Clients : Read(c)
<1>1. ASSUME NEW p \in Pages, PublishPartial(p)
      PROVE  \E ev \in Events : Published(ev)
  <2>1. Partial(p) \in Events /\ Partial(p) # Complete
    <3>1. Partial(p).event # Complete.event
      BY DEF Partial, Complete
    <3> QED BY <3>1 DEF Events, Partial
  <2> QED BY <1>1, <2>1 DEF PublishPartial, Published, jobVars
<1>2. ASSUME NEW p \in Pages, PublishFinal(p)
      PROVE  \E ev \in Events : Published(ev)
  <2>1. Final(p) \in Events /\ Final(p) # Complete
    <3>1. Final(p).event # Complete.event
      BY DEF Final, Complete
    <3> QED BY <3>1 DEF Events, Final
  <2> QED BY <1>2, <2>1 DEF PublishFinal, Published, Job!Announce
<1>3. CASE PublishComplete
  <2>1. Complete \in Events
    BY DEF Events
  <2>2. SettledPages = Pages
    BY <1>3 DEF PublishComplete, Job!Close, SettledPages
  <2> QED BY <1>3, <2>1, <2>2 DEF PublishComplete, Published, Job!Close
<1> QED BY <1>1, <1>2, <1>3 DEF Next, Read

LEMMA JobStepFacts ==
  ASSUME Typed, JobStep
  PROVE  /\ outcome' \in [Pages -> Job!Outcomes]
         /\ UNCHANGED <<log, lo, conn, cursor, known, active, connects, drops, faults>>
         /\ \/ SettledPages' = SettledPages /\ UNCHANGED count
            \/ \E p \in Pages \ SettledPages :
                 SettledPages' = SettledPages \cup {p} /\ count' = count + 1
<1>1. UNCHANGED <<log, lo, conn, cursor, known, active, connects, drops, faults>>
  BY DEF JobStep, stream, client
<1>2. PICK p \in Pages : Job!GainLayout(p) \/ \E o \in Ends : Job!Settle(p, o)
  BY DEF JobStep
<1>3. CASE Job!GainLayout(p)
  <2>1. /\ outcome[p] = "none" /\ outcome' = [outcome EXCEPT ![p] = "layout"]
        /\ UNCHANGED count
    BY <1>3 DEF Job!GainLayout
  <2>2. outcome' \in [Pages -> Job!Outcomes]
    BY <2>1 DEF Typed, Job!Outcomes
  <2>3. SettledPages' = SettledPages
    BY <2>1 DEF Typed, SettledPages, Job!Settled
  <2> QED BY <1>1, <2>1, <2>2, <2>3
<1>4. CASE \E o \in Ends : Job!Settle(p, o)
  <2>1. PICK o \in Ends : Job!Settle(p, o)
    BY <1>4
  <2>2. /\ outcome[p] \notin Job!Settled /\ outcome' = [outcome EXCEPT ![p] = o]
        /\ count' = count + 1 /\ o \in Job!Settled
    BY <2>1, SubscriptionAssumption DEF Job!Settle
  <2>3. outcome' \in [Pages -> Job!Outcomes]
    BY <2>2 DEF Typed, Job!Outcomes
  <2>4. p \in Pages \ SettledPages /\ SettledPages' = SettledPages \cup {p}
    BY <2>2 DEF Typed, SettledPages
  <2> QED BY <1>1, <2>2, <2>3, <2>4
<1> QED BY <1>2, <1>3, <1>4

LEMMA TypedInvariant == Spec => []Typed
<1>1. Init => Typed
  <2> SUFFICES ASSUME Init PROVE Typed
    OBVIOUS
  <2>1. outcome \in [Pages -> Job!Outcomes] /\ count \in Nat
    BY DEF Init, Job!Init, Job!Outcomes
  <2>2. NoConn \in Connection /\ NoConn.from = 0
    BY DEF NoConn, Connection, States
  <2> QED BY <2>1, <2>2 DEF Init, Typed
<1>2. Typed /\ [Next]_vars => Typed'
  <2> SUFFICES ASSUME Typed, [Next]_vars PROVE Typed'
    OBVIOUS
  <2>1. CASE UNCHANGED vars
    BY <2>1 DEF Typed, vars, jobVars, stream, client
  <2>2. CASE JobStep
    <3>1. count' \in Nat
      BY <2>2, JobStepFacts DEF Typed
    <3> QED BY <2>2, <3>1, JobStepFacts DEF Typed
  <2>3. ASSUME NEW ev \in Events, Published(ev)
        PROVE  Typed'
    <3>1. Len(log) \in Nat /\ DOMAIN log = 1..Len(log)
      BY DEF Typed
    <3>2. /\ log' \in Seq(Events) /\ Len(log') = Len(log) + 1
          /\ lo' \in Nat /\ lo <= lo' /\ lo' <= Len(log')
          /\ UNCHANGED <<conn, cursor, known, active, connects, drops, faults>>
          /\ UNCHANGED <<outcome, count>>
      BY <2>3, PublishFacts DEF Published
    <3>3. DOMAIN log \subseteq DOMAIN log'
      BY <3>1, <3>2
    <3>4. 1 <= lo' /\ lo' <= Len(log') + 1
      BY <3>1, <3>2 DEF Typed
    <3>5. known' \in [Clients -> SUBSET DOMAIN log']
      BY <3>2, <3>3 DEF Typed
    <3>6. \A c \in Clients : conn'[c].from <= Len(log') /\ cursor'[c] <= Len(log')
      <4>1. \A c \in Clients : conn[c].from \in Nat /\ cursor[c] \in Nat
        BY DEF Typed, Connection
      <4> QED BY <3>1, <3>2, <4>1 DEF Typed
    <3> QED BY <3>2, <3>4, <3>5, <3>6 DEF Typed
  <2>4. ASSUME NEW c \in Clients, Read(c)
        PROVE  Typed'
    <3>1. PICK k \in Connection, u \in Nat, S \in SUBSET DOMAIN log : Turn(c, k, u, S)
      BY <2>4, ReadTurn
    <3>2. UNCHANGED <<outcome, count, log, lo>> /\ connects' \in Nat /\ faults' \in Nat
      BY <2>4, ReadFrame
    <3>3. /\ conn' \in [Clients -> Connection] /\ cursor' \in [Clients -> Nat]
          /\ known' \in [Clients -> SUBSET DOMAIN log]
          /\ \A d \in Clients : conn'[d].from <= Len(log) /\ cursor'[d] <= Len(log)
      BY <3>1 DEF Turn, Typed
    <3>4. active' \in Nat /\ drops' \in Nat
      <4>1. Max({0, active - 1}) \in Nat
        BY MaxOfTwo DEF Typed
      <4> QED BY <3>1, <4>1 DEF Turn, Slots, release, Typed
    <3> QED BY <3>2, <3>3, <3>4 DEF Typed
  <2> QED BY <2>1, <2>2, <2>3, <2>4, NextCases
<1> QED BY <1>1, <1>2, PTL DEF Spec

-----------------------------------------------------------------------------
(* Slots.                                                                  *)
ServedClients == {c \in Clients : Streaming(c) \/ conn[c].pc = "accepted"}

(* However connections are accepted, refused, dropped, closed by either    *)
(* side or ended by an error, SubscriberSlots counts exactly the streams   *)
(* being served and the responses dropped before they started, and never   *)
(* exceeds the limit: no early exit forgets its slot or returns it twice.  *)
THEOREM SlotsAreExact == Spec => []SlotsExact
<1>1. Init => SlotsExact
  <2> SUFFICES ASSUME Init PROVE SlotsExact
    OBVIOUS
  <2>1. ServedClients = {}
    BY DEF Init, ServedClients, Streaming, NoConn
  <2>2. Cardinality(ServedClients) = 0
    BY <2>1, FS_EmptySet
  <2>3. active = 0 /\ drops = 0 /\ LIMIT \in Nat
    BY SubscriptionAssumption DEF Init
  <2> QED BY <2>2, <2>3 DEF SlotsExact, ServedClients
<1>2. Typed /\ SlotsExact /\ [Next]_vars => SlotsExact'
  <2> SUFFICES ASSUME Typed, SlotsExact, [Next]_vars PROVE SlotsExact'
    OBVIOUS
  <2>1. UNCHANGED <<conn, active, drops>> => SlotsExact'
    BY DEF SlotsExact, Streaming
  <2>2. \A c \in Clients : c \in ServedClients <=> Serving(conn[c])
    BY DEF ServedClients, Streaming, Serving
  <2>3. \A c \in Clients : c \in ServedClients' <=> Serving(conn'[c])
    BY DEF ServedClients, Streaming, Serving
  <2>4. IsFiniteSet(ServedClients) /\ Cardinality(ServedClients) \in Nat
    <3>1. ServedClients \subseteq Clients
      BY DEF ServedClients
    <3> QED BY <3>1, SubscriptionAssumption, FS_Subset, FS_CardinalityType
  <2>5. active <= LIMIT /\ active = drops + Cardinality(ServedClients)
    BY DEF SlotsExact, ServedClients
  <2>6. active \in Nat /\ drops \in Nat /\ LIMIT \in Nat
    BY SubscriptionAssumption DEF Typed
  <2>7. ASSUME NEW c \in Clients, Read(c)
        PROVE  SlotsExact'
    <3>1. PICK k \in Connection, u \in Nat, S \in SUBSET DOMAIN log : Turn(c, k, u, S)
      BY <2>7, ReadTurn
    <3>2. /\ \A d \in Clients : conn'[d] = IF d = c THEN k ELSE conn[d]
          /\ Slots(c, k)
      BY <3>1 DEF Turn, Typed
    <3>3. ServedClients \subseteq Clients /\ ServedClients' \subseteq Clients
      BY DEF ServedClients
    <3>4. SUFFICES active' <= LIMIT /\ active' = drops' + Cardinality(ServedClients')
      BY DEF SlotsExact, ServedClients
    <3>5. CASE (Serving(k) <=> Serving(conn[c])) /\ UNCHANGED <<active, drops>>
      <4>1. ServedClients' = ServedClients
        BY <2>2, <2>3, <3>2, <3>3, <3>5
      <4> QED BY <2>5, <3>5, <4>1
    <3>6. CASE /\ ~Serving(conn[c]) /\ Serving(k)
               /\ active < LIMIT /\ active' = active + 1 /\ UNCHANGED drops
      <4>1. ServedClients' = ServedClients \cup {c} /\ c \notin ServedClients
        BY <2>2, <2>3, <3>2, <3>3, <3>6
      <4>2. Cardinality(ServedClients') = Cardinality(ServedClients) + 1
        BY <2>4, <4>1, FS_AddElement
      <4> QED BY <2>4, <2>5, <2>6, <3>6, <4>2
    <3>7. CASE Serving(conn[c]) /\ ~Serving(k)
      <4>1. ServedClients' = ServedClients \ {c} /\ c \in ServedClients
        BY <2>2, <2>3, <3>2, <3>3, <3>7
      <4>2. Cardinality(ServedClients') = Cardinality(ServedClients) - 1
        BY <2>4, <4>1, FS_RemoveElement
      <4>3. Cardinality(ServedClients) >= 1
        BY <2>4, <4>1, FS_EmptySet
      <4>4. CASE release /\ UNCHANGED drops
        <5>1. active' = active - 1
          BY <2>4, <2>5, <2>6, <4>3, <4>4, MaxOfTwo DEF release
        <5> QED BY <2>4, <2>5, <2>6, <4>2, <4>4, <5>1
      <4>5. CASE UNCHANGED active /\ drops' = drops + 1
        BY <2>4, <2>5, <2>6, <4>2, <4>5
      <4> QED BY <3>2, <3>7, <4>4, <4>5 DEF Slots
    <3> QED BY <3>2, <3>5, <3>6, <3>7 DEF Slots
  <2>8. ASSUME NEW ev \in Events, Published(ev)
        PROVE  UNCHANGED <<conn, active, drops>>
    BY <2>8, PublishFacts DEF Published
  <2> QED BY <2>1, <2>7, <2>8, NextCases, JobStepFacts DEF vars, client
<1> QED BY <1>1, <1>2, TypedInvariant, PTL DEF Spec

(* Positions, cursors and slots are in range: nothing is read beyond the   *)
(* stream, and a client knows only of events that were published.          *)
THEOREM StreamTyped == Spec => []SubscriptionTypeOK
<1>1. Typed /\ SlotsExact => SubscriptionTypeOK
  <2> SUFFICES ASSUME Typed, SlotsExact PROVE SubscriptionTypeOK
    OBVIOUS
  <2>1. Len(log) \in Nat /\ lo \in 1..(Len(log) + 1) /\ active \in 0..LIMIT
    BY SubscriptionAssumption DEF Typed, SlotsExact
  <2>2. \A c \in Clients :
          /\ conn[c].pc \in States /\ conn[c].from \in 0..Len(log)
          /\ cursor[c] \in 0..Len(log) /\ known[c] \subseteq DOMAIN log
    BY <2>1 DEF Typed, Connection
  <2> QED BY <2>1, <2>2 DEF SubscriptionTypeOK, States
<1> QED BY <1>1, TypedInvariant, SlotsAreExact, PTL

-----------------------------------------------------------------------------
(* Completion.                                                             *)

LEMMA JobInvariant == Spec => []JobInv
<1>1. Init => JobInv
  <2> SUFFICES ASSUME Init PROVE JobInv
    OBVIOUS
  <2>1. SettledPages = {} /\ count = 0 /\ DOMAIN log = {}
    BY DEF Init, Job!Init, SettledPages, Job!Settled
  <2> QED BY <2>1, FS_EmptySet DEF JobInv
<1>2. Typed /\ JobInv /\ [Next]_vars => JobInv'
  <2> SUFFICES ASSUME Typed, JobInv, [Next]_vars PROVE JobInv'
    OBVIOUS
  <2>1. UNCHANGED <<outcome, count, log>> => JobInv'
    BY DEF JobInv, SettledPages
  <2>2. CASE JobStep
    <3>1. UNCHANGED log
      BY <2>2, JobStepFacts
    <3>2. CASE SettledPages' = SettledPages /\ UNCHANGED count
      BY <3>1, <3>2 DEF JobInv
    <3>3. CASE \E p \in Pages \ SettledPages :
                 SettledPages' = SettledPages \cup {p} /\ count' = count + 1
      <4>1. PICK p \in Pages \ SettledPages :
                 SettledPages' = SettledPages \cup {p} /\ count' = count + 1
        BY <3>3
      <4>2. IsFiniteSet(SettledPages)
        BY SubscriptionAssumption, FS_Subset DEF SettledPages
      <4>3. Cardinality(SettledPages') = Cardinality(SettledPages) + 1
        BY <4>1, <4>2, FS_AddElement
      <4> QED BY <3>1, <4>1, <4>3 DEF JobInv
    <3> QED BY <2>2, <3>2, <3>3, JobStepFacts
  <2>3. ASSUME NEW ev \in Events, Published(ev)
        PROVE  JobInv'
    <3>1. SettledPages' = SettledPages /\ UNCHANGED count
      BY <2>3 DEF Published, SettledPages
    <3>2. /\ Len(log) \in Nat /\ DOMAIN log = 1..Len(log)
          /\ log' \in Seq(Events) /\ Len(log') = Len(log) + 1
          /\ \A i \in 1..Len(log) : log'[i] = log[i]
          /\ log'[Len(log) + 1] = ev
      BY <2>3, PublishFacts DEF Published, Typed
    <3>3. ASSUME NEW i \in DOMAIN log', log'[i] = Complete
          PROVE  SettledPages = Pages
      <4>1. i \in DOMAIN log \/ i = Len(log) + 1
        BY <3>2
      <4> QED BY <2>3, <3>2, <3>3, <4>1 DEF JobInv, Published
    <3> QED BY <3>1, <3>3 DEF JobInv
  <2> QED BY <2>1, <2>2, <2>3, NextCases, ReadFrame DEF vars, jobVars, stream
<1> QED BY <1>1, <1>2, TypedInvariant, PTL DEF Spec

(* A stream that ended with job.complete, read from the result stream or   *)
(* derived from the counter by the backstop, ended after every page of the *)
(* job had been settled, for any job, trimming and order of announcements. *)
THEOREM CompletionsAreTrue == Spec => []CompletionIsTrue
<1>1. JobInv /\ (\/ \E i \in DOMAIN log : log[i] = Complete
                 \/ count >= Cardinality(Pages)) => SettledPages = Pages
  <2> SUFFICES ASSUME JobInv, count >= Cardinality(Pages) PROVE SettledPages = Pages
    BY DEF JobInv
  <2>1. /\ IsFiniteSet(SettledPages) /\ Cardinality(SettledPages) <= Cardinality(Pages)
        /\ Cardinality(SettledPages) = Cardinality(Pages) => SettledPages = Pages
    BY SubscriptionAssumption, FS_Subset DEF SettledPages
  <2>2. Cardinality(SettledPages) \in Nat /\ Cardinality(Pages) \in Nat
    BY <2>1, SubscriptionAssumption, FS_CardinalityType
  <2> QED BY <2>1, <2>2 DEF JobInv
<1>2. Init => CompletionIsTrue
  BY DEF Init, CompletionIsTrue, NoConn
<1>3. Typed /\ JobInv /\ CompletionIsTrue /\ [Next]_vars => CompletionIsTrue'
  <2> SUFFICES ASSUME Typed, JobInv, CompletionIsTrue, [Next]_vars PROVE CompletionIsTrue'
    OBVIOUS
  <2>1. SettledPages = Pages => SettledPages' = Pages
    <3>1. UNCHANGED outcome => SettledPages' = SettledPages
      BY DEF SettledPages
    <3>2. JobStep /\ SettledPages = Pages => SettledPages' = Pages
      BY JobStepFacts
    <3> QED BY <3>1, <3>2, NextCases, ReadFrame DEF Published, vars, jobVars
  <2>2. SettledPages' = Pages <=> \A p \in Pages : outcome'[p] \in Job!Settled
    BY DEF SettledPages, Job!Settled
  <2>3. ASSUME NEW c \in Clients, conn[c].pc \in {"complete", "derived"}
        PROVE  SettledPages = Pages
    BY <2>3 DEF CompletionIsTrue, SettledPages
  <2>4. SUFFICES ASSUME NEW d \in Clients, conn'[d].pc \in {"complete", "derived"}
                 PROVE  SettledPages = Pages
    BY <2>1, <2>2, <2>4 DEF CompletionIsTrue, Job!Settled
  <2>5. CASE UNCHANGED conn
    BY <2>3, <2>4, <2>5
  <2>6. ASSUME NEW c \in Clients, Read(c)
        PROVE  SettledPages = Pages
    <3>1. PICK k \in Connection, u \in Nat, S \in SUBSET DOMAIN log : Turn(c, k, u, S)
      BY <2>6, ReadTurn
    <3>2. conn'[d] = IF d = c THEN k ELSE conn[d]
      BY <3>1 DEF Turn, Typed
    <3>3. CASE d = c
      BY <1>1, <2>3, <2>4, <3>1, <3>2, <3>3 DEF Turn, Ended
    <3>4. CASE d # c
      BY <2>3, <2>4, <3>2, <3>4
    <3> QED BY <3>3, <3>4
  <2> QED BY <2>5, <2>6, NextCases, JobStepFacts, PublishFacts DEF Published, vars, client
<1> QED BY <1>2, <1>3, TypedInvariant, JobInvariant, PTL DEF Spec

-----------------------------------------------------------------------------
(* Replay.                                                                 *)

(* While the stream is not trimmed past a reader in progress, a client     *)
(* that reconnects any number of times, with its cursor or without, has    *)
(* up to its cursor received every event or was told by a gap frame or the *)
(* window of the opening frame that it may have missed it.                 *)
THEOREM NothingLostSilently ==
  ASSUME KeepUp
  PROVE  Spec => []NoSilentLoss
<1>1. Init => ToldInv
  <2> SUFFICES ASSUME Init, NEW c \in Clients PROVE Told(c)
    BY DEF ToldInv
  <2>1. conn[c].pc = "off" /\ cursor[c] = 0
    BY DEF Init, NoConn
  <2> QED BY <2>1 DEF Told, Tells, Serving
<1>2. Typed /\ ToldInv /\ [Next]_vars => ToldInv'
  <2> SUFFICES ASSUME Typed, ToldInv, [Next]_vars, NEW d \in Clients PROVE Told(d)'
    BY DEF ToldInv
  <2>1. Told(d)
    BY DEF ToldInv
  <2>2. UNCHANGED <<lo, conn, cursor, known>> => Told(d)'
    BY <2>1 DEF Told, Tells, Serving
  <2>3. ASSUME NEW ev \in Events, Published(ev)
        PROVE  Told(d)'
    <3>1. /\ lo' \in Nat /\ lo <= lo' /\ lo \in Nat /\ conn[d].from \in Nat
          /\ UNCHANGED <<conn, cursor, known>>
      BY <2>3, PublishFacts DEF Published, Typed, Connection
    <3>2. conn[d].pc \in {"open", "history", "tail", "progress"}
            => lo' <= Max({lo, conn[d].from + 1})
      BY <2>3 DEF Published, publish
    <3>3. conn[d].pc \in {"open", "history", "tail", "progress"}
            => lo' = lo \/ lo' <= conn[d].from + 1
      BY <3>1, <3>2, MaxOfTwo
    <3>4. CASE lo' = lo
      BY <2>2, <3>1, <3>4
    <3>5. CASE lo' <= conn[d].from + 1
      <4>1. \A l, f \in Nat : l <= f + 1 => 1..(l - 1) \subseteq 1..f
        OBVIOUS
      <4>2. 1..(lo' - 1) \subseteq 1..conn[d].from
        BY <3>1, <3>5, <4>1
      <4> QED BY <2>1, <3>1, <3>5, <4>2 DEF Told, Tells, Serving
    <3>6. CASE conn[d].pc \notin {"open", "history", "tail", "progress"}
      BY <2>1, <3>1, <3>6 DEF Told, Tells, Serving
    <3> QED BY <3>3, <3>4, <3>5, <3>6
  <2>4. ASSUME NEW c \in Clients, Read(c)
        PROVE  Told(d)'
    <3>1. PICK k \in Connection, u \in Nat, S \in SUBSET DOMAIN log : Turn(c, k, u, S)
      BY <2>4, ReadTurn
    <3>2. UNCHANGED lo
      BY <2>4, ReadFrame
    <3>3. /\ conn'[d] = IF d = c THEN k ELSE conn[d]
          /\ cursor'[d] = IF d = c THEN u ELSE cursor[d]
          /\ known'[d] = IF d = c THEN S ELSE known[d]
      BY <3>1 DEF Turn, Typed
    <3>4. CASE d = c
      <4>1. Told(c)
        BY DEF ToldInv
      <4>2. Tells(k, u, S)
        BY <3>1, <4>1 DEF Turn
      <4> QED BY <3>2, <3>3, <3>4, <4>2 DEF Told, Tells, Serving
    <3>5. CASE d # c
      BY <2>1, <3>2, <3>3, <3>5 DEF Told, Tells, Serving
    <3> QED BY <3>4, <3>5
  <2> QED BY <2>2, <2>3, <2>4, NextCases, JobStepFacts DEF vars, stream, client
<1>3. ToldInv => NoSilentLoss
  BY DEF ToldInv, Told, Tells, NoSilentLoss
<1> QED BY <1>1, <1>2, <1>3, TypedInvariant, PTL DEF Spec

=============================================================================

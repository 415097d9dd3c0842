---------------------------- MODULE Subscription -----------------------------
(***************************************************************************)
(* Clients following one job over SSE: app/api/stream.py on top of the      *)
(* job's trimmed result stream (app/queue/results.py).  The job itself is   *)
(* the abstract one of JobContract, which PageLifecycle implements: pages    *)
(* settle, and settlements are announced later, in any order, or never.     *)
(* The id of an event is its position in the log of all events published;   *)
(* the stream holds the positions from lo on.                               *)
(***************************************************************************)
EXTENDS Integers, Sequences, FiniteSets, FiniteSetsExt

CONSTANTS Pages,
          Clients,
          LIMIT,          \* sse_max_subscribers
          MAXLEN,         \* result_stream_maxlen
          HISTORY,        \* sse_history_limit
          BATCH,          \* sse_batch
          KeepUp,         \* the stream is not trimmed past a reader in progress
          Partials,       \* bound: pages whose partial results are published
          Ends,       \* the settled outcomes explored
          MaxConnects,    \* bound: connections, of all clients together
          MaxDrops,       \* bound: responses dropped before they start
          MaxFaults       \* bound: Redis errors

VARIABLES
  outcome, count, announced, closed,   \* the job
  log, lo,       \* events published so far, position of the oldest retained
  conn,          \* per client: the connection's generator
  cursor,        \* per client: id of the last event received (Last-Event-ID)
  known,         \* per client: ids received, or that it was told it may have missed
  active,        \* SubscriberSlots.active
  connects, drops, faults

Job == INSTANCE JobContract

ASSUME SubscriptionAssumption ==
  /\ IsFiniteSet(Pages) /\ IsFiniteSet(Clients)
  /\ {LIMIT, MAXLEN, HISTORY, BATCH} \subseteq Nat \ {0}
  /\ Partials \subseteq Pages /\ Ends \subseteq Job!Settled /\ KeepUp \in BOOLEAN /\ {MaxConnects, MaxDrops, MaxFaults} \subseteq Nat

jobVars == <<outcome, count, announced, closed>>
stream == <<log, lo>>
client == <<conn, cursor, known, active, connects, drops, faults>>
vars == <<jobVars, stream, client>>

Partial(p) == [event |-> "page.partial", page |-> p]
Final(p) == [event |-> "page.final", page |-> p]
Complete == [event |-> "job.complete"]

NoConn == [pc |-> "off", from |-> 0, resync |-> FALSE]

\* Generators that have started reading, and where they are.
Streaming(c) == conn[c].pc \in {"gap", "open", "history", "tail", "progress"}

Init ==
  /\ Job!Init
  /\ log = <<>> /\ lo = 1
  /\ conn = [c \in Clients |-> NoConn]
  /\ cursor = [c \in Clients |-> 0]
  /\ known = [c \in Clients |-> {}]
  /\ active = 0
  /\ connects = 0 /\ drops = 0 /\ faults = 0

-----------------------------------------------------------------------------
(* The write side.                                                         *)

\* XADD MAXLEN ~: trimming may lag behind, never below MAXLEN entries.
publish(ev) ==
  /\ log' = Append(log, ev)
  /\ lo' \in lo..Max({lo, Len(log) + 2 - MAXLEN})
  /\ KeepUp => \A c \in Clients : conn[c].pc \in {"open", "history", "tail", "progress"}
                                    => lo' <= Max({lo, conn[c].from + 1})
  /\ UNCHANGED client

JobStep ==
  /\ \E p \in Pages :
       Job!GainLayout(p) \/ \E o \in Ends : Job!Settle(p, o)
  /\ UNCHANGED <<stream, client>>

PublishPartial(p) ==
  /\ p \in Partials /\ outcome[p] # "none"
  /\ Partial(p) \notin {log[i] : i \in DOMAIN log}
  /\ publish(Partial(p)) /\ UNCHANGED jobVars

PublishFinal(p) == Job!Announce(p) /\ publish(Final(p))

PublishComplete == Job!Close /\ publish(Complete)

-----------------------------------------------------------------------------
(* The read side: one connection.                                          *)

\* stream_results: a slot is taken or the client is refused.  The cursor comes
\* from the client; a malformed one counts as none.
Connect(c) ==
  /\ conn[c].pc = "off" /\ connects < MaxConnects
  /\ connects' = connects + 1
  /\ \/ /\ active < LIMIT /\ active' = active + 1
        /\ \E from \in {0, cursor[c]} :
             conn' = [conn EXCEPT ![c] = [NoConn EXCEPT !.pc = "accepted", !.from = from]]
     \/ active >= LIMIT /\ UNCHANGED <<active, conn>>
  /\ UNCHANGED <<jobVars, stream, cursor, known, drops, faults>>

\* SubscriberSlots.release, in the finally of _events.
release == active' = Max({0, active - 1})

\* The response is dropped before its body is iterated: no finally runs.
Drop(c) ==
  /\ conn[c].pc = "accepted" /\ drops < MaxDrops
  /\ drops' = drops + 1
  /\ conn' = [conn EXCEPT ![c] = NoConn]
  /\ UNCHANGED <<jobVars, stream, cursor, known, active, connects, faults>>

\* The body starts.  Only a cursor has to be checked for a gap.
Begin(c) ==
  /\ conn[c].pc = "accepted"
  /\ conn' = [conn EXCEPT ![c].pc = IF conn[c].from # 0 THEN "gap" ELSE "open"]
  /\ UNCHANGED <<jobVars, stream, cursor, known, active, connects, drops, faults>>

Retained == {i \in DOMAIN log : i >= lo}

\* Mutant: the cursor is compared with the newest entry.
gap_afterNewest(from) == Retained # {} /\ from > Len(log)

\* gap_after: the cursor is older than the oldest entry retained.
gap_after(from) == Retained # {} /\ from < lo

CheckGap(c) ==
  /\ conn[c].pc = "gap"
  /\ conn' = [conn EXCEPT ![c] =
       IF gap_after(@.from)
       THEN [pc |-> "open", from |-> 0, resync |-> TRUE]
       ELSE [@ EXCEPT !.pc = "open"]]
  /\ UNCHANGED <<jobVars, stream, cursor, known, active, connects, drops, faults>>

\* window, progress and the opening frames.  window_lo tells a client without
\* a usable cursor what can no longer be replayed; so does the gap frame.
Open(c) ==
  /\ conn[c].pc = "open"
  /\ conn' = [conn EXCEPT ![c].pc = "history"]
  /\ known' = IF conn[c].from = 0
                THEN [known EXCEPT ![c] = @ \cup 1..(lo - 1)] ELSE known
  /\ UNCHANGED <<jobVars, stream, cursor, active, connects, drops, faults>>

\* The first n entries after a position.
After(from, n) ==
  {i \in Retained : i > from /\ Cardinality({j \in Retained : from < j /\ j <= i}) <= n}

\* Frames go out one by one.  The client receives them all, or leaves after
\* some of them, in which case the generator is closed.
Deliver(c, ids) ==
  \E n \in 0..Cardinality(ids) :
    LET seen == {i \in ids : Cardinality({j \in ids : j <= i}) <= n}
        over == \E i \in ids : log[i] = Complete
    IN  /\ known' = [known EXCEPT ![c] = @ \cup seen]
        /\ cursor' = [cursor EXCEPT ![c] = IF seen = {} THEN @ ELSE Max(seen)]
        /\ \/ /\ n < Cardinality(ids)
              /\ conn' = [conn EXCEPT ![c] = NoConn] /\ release
           \/ /\ n = Cardinality(ids) /\ over
              /\ conn' = [conn EXCEPT ![c] = [NoConn EXCEPT !.pc = "complete"]]
              /\ release
           \/ /\ n = Cardinality(ids) /\ ~over
              /\ conn' = [conn EXCEPT ![c] = [conn[c] EXCEPT !.pc = "tail",
                            !.from = IF ids = {} THEN conn[c].from ELSE Max(ids)]]
              /\ UNCHANGED active

\* Replay of what is retained after the cursor.
Replay(c) ==
  /\ conn[c].pc = "history"
  /\ Deliver(c, After(conn[c].from, HISTORY))
  /\ UNCHANGED <<jobVars, stream, connects, drops, faults>>

\* tail: a batch of new entries, or an empty answer when the block expires.
ReadTail(c) ==
  /\ conn[c].pc = "tail"
  /\ LET ids == After(conn[c].from, BATCH)
     IN  \/ ids # {} /\ Deliver(c, ids)
         \/ /\ ids = {} /\ conn' = [conn EXCEPT ![c].pc = "progress"]
            /\ UNCHANGED <<cursor, known, active>>
  /\ UNCHANGED <<jobVars, stream, connects, drops, faults>>

\* Mutant: off by one in the comparison with the total.
ProgressEarly(c) ==
  /\ conn[c].pc = "progress"
  /\ IF count >= Cardinality(Pages) - 1
     THEN conn' = [conn EXCEPT ![c] = [NoConn EXCEPT !.pc = "derived"]] /\ release
     ELSE conn' = [conn EXCEPT ![c].pc = "tail"] /\ UNCHANGED active
  /\ UNCHANGED <<jobVars, stream, cursor, known, connects, drops, faults>>

\* Mutant: no backstop, the loop only waits for a published job.complete.
ProgressWaits(c) ==
  /\ conn[c].pc = "progress"
  /\ conn' = [conn EXCEPT ![c].pc = "tail"]
  /\ UNCHANGED <<jobVars, stream, cursor, known, active, connects, drops, faults>>

\* The backstop: completion derived from the counter of the job hash.
Progress(c) ==
  /\ conn[c].pc = "progress"
  /\ IF count >= Cardinality(Pages)
     THEN conn' = [conn EXCEPT ![c] = [NoConn EXCEPT !.pc = "derived"]] /\ release
     ELSE conn' = [conn EXCEPT ![c].pc = "tail"] /\ UNCHANGED active
  /\ UNCHANGED <<jobVars, stream, cursor, known, connects, drops, faults>>

\* Mutant: the slot is released after the loop instead of in a finally.
LeaveKeepsSlot(c) ==
  /\ conn[c].pc = "tail"
  /\ conn' = [conn EXCEPT ![c] = NoConn]
  /\ UNCHANGED <<jobVars, stream, cursor, known, active, connects, drops, faults>>

\* The client is gone, or the connection reached its maximal duration.
Leave(c) ==
  /\ conn[c].pc = "tail"
  /\ conn' = [conn EXCEPT ![c] = NoConn] /\ release
  /\ UNCHANGED <<jobVars, stream, cursor, known, connects, drops, faults>>

\* A Redis error: the gap frame sends the client to the page states.
RedisFails(c) ==
  /\ Streaming(c) /\ faults < MaxFaults /\ faults' = faults + 1
  /\ known' = [known EXCEPT ![c] = @ \cup DOMAIN log]
  /\ conn' = [conn EXCEPT ![c] = NoConn] /\ release
  /\ UNCHANGED <<jobVars, stream, cursor, connects, drops>>

Serve(c) ==
  Begin(c) \/ CheckGap(c) \/ Open(c) \/ Replay(c) \/ ReadTail(c) \/ Progress(c)

Next ==
  \/ JobStep \/ PublishComplete
  \/ \E p \in Pages : PublishPartial(p) \/ PublishFinal(p)
  \/ \E c \in Clients : Connect(c) \/ Drop(c) \/ Serve(c) \/ Leave(c) \/ RedisFails(c)

Spec == Init /\ [][Next]_vars

\* A generator that is being served goes on; nothing is assumed of the job.
LiveSpec == Spec /\ \A c \in Clients : WF_vars(Serve(c))

-----------------------------------------------------------------------------
\* Shapes and ranges of the connections and of the stream.
SubscriptionTypeOK ==
  /\ lo \in 1..(Len(log) + 1) /\ active \in 0..LIMIT
  /\ \A c \in Clients :
       /\ conn[c].pc \in {"off", "accepted", "gap", "open", "history", "tail",
                          "progress", "complete", "derived"}
       /\ conn[c].from \in 0..Len(log) /\ cursor[c] \in 0..Len(log)
       /\ known[c] \subseteq DOMAIN log

\* Up to its cursor a client has received every event published, or was told
\* that it may have missed it, over any number of reconnections.
NoSilentLoss ==
  \A c \in Clients : 1..cursor[c] \subseteq known[c]

\* A stream that ends with job.complete, published or derived, ends after every
\* page of the job was settled.
CompletionIsTrue ==
  \A c \in Clients : conn[c].pc \in {"complete", "derived"} =>
    \A p \in Pages : outcome[p] \in Job!Settled

\* Slots are exact: one per stream being served, and one for each response
\* that was dropped before it started.
SlotsExact ==
  /\ active <= LIMIT
  /\ active = drops + Cardinality({c \in Clients :
                        Streaming(c) \/ conn[c].pc = "accepted"})

\* A stream of a finished job ends, whether or not job.complete was published
\* and whether or not it was trimmed before it was read.
StreamEnds ==
  \A c \in Clients :
    count >= Cardinality(Pages) /\ Streaming(c) ~> ~Streaming(c)
=============================================================================

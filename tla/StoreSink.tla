----------------------------- MODULE StoreSink -----------------------------
(***************************************************************************)
(* The batching sink of services/market_data/store_sinks.py: payloads go   *)
(* to object storage one by one, index and event rows to ClickHouse in     *)
(* batches, flushed table by table when there are BatchSize rows or the    *)
(* oldest is MaxBatchAge old -- looked at only when something is written.  *)
(*                                                                         *)
(* The caller is the recorder: a frame's raw write comes first, and its    *)
(* market and trader writes follow, in that order, only if it returned.    *)
(* The rows a frame has for one table stand together as one row.           *)
(*                                                                         *)
(* Any store call may raise, with or without having stored its data, and   *)
(* the process may crash between any two calls.  A crash inside flush() is *)
(* a call that raised followed by Crash.  The clock is a wall clock: it    *)
(* may step back.  write_gap() touches neither batch nor ClickHouse and is *)
(* left out.                                                               *)
(***************************************************************************)
EXTENDS Integers, FiniteSets

CONSTANTS
    Frames,         \* identities of received frames
    Times,          \* readings of clock.now()
    BatchSize,      \* batch_size
    MaxBatchAge,    \* max_batch_age_seconds
    MaxDoubts,      \* bound on inserts that store their rows and raise
    None            \* Python's None

ASSUME TimesAssumption == Times \subseteq Nat
ASSUME BatchAssumption == BatchSize \in Nat \ {0} /\ MaxBatchAge \in Nat
ASSUME DoubtsAssumption == MaxDoubts \in Nat
ASSUME NoneAssumption == None \notin Nat /\ None \notin Frames

(* The ClickHouse tables, numbered in the order flush() inserts into them. *)
RawMessages == 1
MarketEvents == 2
TraderEvents == 3
Tables == {RawMessages, MarketEvents, TraderEvents}

VARIABLES
    now,        \* clock.now()
    objects,    \* frames whose payload is in object storage
    rows,       \* table -> frame -> times its rows were inserted
    batch,      \* table -> frames with rows pending: the three batches
    oldest,     \* _oldest_pending
    current,    \* the frame the caller is writing, or None
    allowed,    \* the tables the caller may still write current to
    received,   \* history: frames ever handed to write_raw()
    accepted,   \* history: table -> frames whose write returned
    lost,       \* history: table -> accepted frames wiped by a crash
    doubts      \* history: inserts that stored their rows and raised

storeVars == <<objects, rows>>
sinkVars == <<batch, oldest>>
callerVars == <<current, allowed, received>>
vars == <<now, storeVars, sinkVars, callerVars, accepted, lost, doubts>>

NoFrames == [t \in Tables |-> {}]
Stored(t) == {f \in Frames : rows[t][f] > 0}

----------------------------------------------------------------------------
(* Mutants.                                                                *)

Remaining_KeepsRaw(b, done) == [t \in Tables |-> IF t \in done \ {RawMessages} THEN {} ELSE b[t]]

Remaining_DropsAll(b, done) == NoFrames

InsertedBefore_Reversed(t) == {u \in Tables : u > t}

Due_SizeExceeded(b, since) ==
    Cardinality(b[RawMessages]) + Cardinality(b[MarketEvents])
        + Cardinality(b[TraderEvents]) > BatchSize

PutObjectRaises_Swallowed(f) ==
    /\ RawMessages \notin allowed
    /\ f \notin received
    /\ received' = received \cup {f}
    /\ objects' \in {objects, objects \cup {f}}
    /\ current' = f
    /\ allowed' = {RawMessages}
    /\ UNCHANGED <<now, rows, sinkVars, accepted, lost, doubts>>

----------------------------------------------------------------------------
Init ==
    /\ now \in Times
    /\ objects = {}
    /\ rows = [t \in Tables |-> [f \in Frames |-> 0]]
    /\ batch = NoFrames
    /\ oldest = None
    /\ current = None
    /\ allowed = {}
    /\ received = {}
    /\ accepted = NoFrames
    /\ lost = NoFrames
    /\ doubts = 0

Tick ==
    /\ now' \in Times
    /\ UNCHANGED <<storeVars, sinkVars, callerVars, accepted, lost, doubts>>

----------------------------------------------------------------------------
(* flush()                                                                 *)

(* The tables flush() has inserted into and cleared before it gets to t.   *)
InsertedBefore(t) == {u \in Tables : u < t}

(* The batches after those of done were inserted and cleared.              *)
Remaining(b, done) == [t \in Tables |-> IF t \in done THEN {} ELSE b[t]]

Inserted(b, done) ==
    [t \in Tables |-> [f \in Frames |->
        IF t \in done /\ f \in b[t] THEN rows[t][f] + 1 ELSE rows[t][f]]]

FlushReturns(b) ==
    /\ rows' = Inserted(b, Tables)
    /\ batch' = Remaining(b, Tables)
    /\ oldest' = None
    /\ UNCHANGED doubts

(* The insert into t raises: nothing after it happens, its batch is kept,  *)
(* and _oldest_pending with it.                                            *)
FlushRaises(b, since) ==
    \E t \in Tables :
        /\ b[t] # {}
        /\ batch' = Remaining(b, InsertedBefore(t))
        /\ oldest' = since
        /\ \/ /\ rows' = Inserted(b, InsertedBefore(t))
              /\ UNCHANGED doubts
           \/ /\ doubts < MaxDoubts
              /\ rows' = Inserted(b, InsertedBefore(t) \cup {t})
              /\ doubts' = doubts + 1

(* _flush_if_due(), after _note_pending().                                 *)
Since == IF oldest = None THEN now ELSE oldest

Due(b, since) ==
    \/ Cardinality(b[RawMessages]) + Cardinality(b[MarketEvents])
          + Cardinality(b[TraderEvents]) >= BatchSize
    \/ now - since >= MaxBatchAge

Queued(t, f) == [batch EXCEPT ![t] = @ \cup {f}]

Holds(b) ==
    /\ ~ Due(b, Since)
    /\ batch' = b
    /\ oldest' = Since
    /\ UNCHANGED <<rows, doubts>>

WriteReturns(t, f) ==
    /\ Holds(Queued(t, f)) \/ (Due(Queued(t, f), Since) /\ FlushReturns(Queued(t, f)))
    /\ accepted' = [accepted EXCEPT ![t] = @ \cup {f}]

WriteRaises(t, f) ==
    /\ Due(Queued(t, f), Since)
    /\ FlushRaises(Queued(t, f), Since)
    /\ UNCHANGED accepted

----------------------------------------------------------------------------
(* write_raw(): the object write returns ...                               *)
PutObject(f) ==
    /\ RawMessages \notin allowed
    /\ f \notin received
    /\ received' = received \cup {f}
    /\ objects' = objects \cup {f}
    /\ current' = f
    /\ allowed' = {RawMessages}
    /\ UNCHANGED <<now, rows, sinkVars, accepted, lost, doubts>>

(* ... or raises, and the caller gives the frame up.                       *)
PutObjectRaises(f) ==
    /\ RawMessages \notin allowed
    /\ f \notin received
    /\ received' = received \cup {f}
    /\ objects' \in {objects, objects \cup {f}}
    /\ current' = None
    /\ allowed' = {}
    /\ UNCHANGED <<now, rows, sinkVars, accepted, lost, doubts>>

(* The rest of write_raw(): the index row.                                 *)
QueueRaw ==
    /\ RawMessages \in allowed
    /\ \/ /\ WriteReturns(RawMessages, current)
          /\ allowed' = {MarketEvents, TraderEvents}
       \/ /\ WriteRaises(RawMessages, current)
          /\ allowed' = {}
    /\ UNCHANGED <<now, objects, current, received, lost>>

(* write_market_events(): if it raises, the caller gives the frame up.     *)
WriteMarketEvents ==
    /\ MarketEvents \in allowed
    /\ \/ /\ WriteReturns(MarketEvents, current)
          /\ allowed' = {TraderEvents}
       \/ /\ WriteRaises(MarketEvents, current)
          /\ allowed' = {}
    /\ UNCHANGED <<now, objects, current, received, lost>>

WriteTraderEvents ==
    /\ TraderEvents \in allowed
    /\ WriteReturns(TraderEvents, current) \/ WriteRaises(TraderEvents, current)
    /\ allowed' = {}
    /\ UNCHANGED <<now, objects, current, received, lost>>

(* flush(), between frames.                                                *)
Flush ==
    /\ RawMessages \notin allowed
    /\ FlushReturns(batch) \/ FlushRaises(batch, oldest)
    /\ allowed' = {}
    /\ UNCHANGED <<now, objects, current, received, accepted, lost>>

(* The process stops anywhere and starts again with empty batches.         *)
Crash ==
    /\ batch' = NoFrames
    /\ oldest' = None
    /\ current' = None
    /\ allowed' = {}
    /\ lost' = [t \in Tables |-> lost[t] \cup (accepted[t] \cap batch[t])]
    /\ UNCHANGED <<now, storeVars, received, accepted, doubts>>

Next ==
    \/ Tick
    \/ \E f \in Frames : PutObject(f) \/ PutObjectRaises(f)
    \/ QueueRaw
    \/ WriteMarketEvents
    \/ WriteTraderEvents
    \/ Flush
    \/ Crash

Spec == Init /\ [][Next]_vars

----------------------------------------------------------------------------
TypeOK ==
    /\ now \in Times
    /\ objects \subseteq Frames
    /\ rows \in [Tables -> [Frames -> Nat]]
    /\ batch \in [Tables -> SUBSET Frames]
    /\ oldest \in Times \cup {None}
    /\ current \in Frames \cup {None}
    /\ allowed \subseteq Tables
    /\ received \subseteq Frames
    /\ accepted \in [Tables -> SUBSET Frames]
    /\ lost \in [Tables -> SUBSET Frames]
    /\ doubts \in Nat

(* Indexed evidence: a stored market or trader row refers to a raw frame   *)
(* whose index row is stored and whose payload is archived -- whatever     *)
(* call raises and wherever the process crashes ("Two writes per frame, in *)
(* a fixed order ... That order is the point").                            *)
IndexedEvidence ==
    \A f \in Stored(MarketEvents) \cup Stored(TraderEvents) :
        f \in Stored(RawMessages) /\ f \in objects

(* A write that returned is stored, still in its batch, or was wiped by a  *)
(* crash: no failing or half-done flush loses what it was given.           *)
AcceptedKept ==
    \A t \in Tables : accepted[t] \subseteq Stored(t) \cup batch[t] \cup lost[t]

(* What a crash can cost is bounded: fewer than BatchSize accepted rows    *)
(* are in memory only, however many inserts have failed and been retried.  *)
Volatile(t) == (accepted[t] \cap batch[t]) \ Stored(t)

VolatileBounded ==
    Cardinality(Volatile(RawMessages)) + Cardinality(Volatile(MarketEvents))
        + Cardinality(Volatile(TraderEvents)) < BatchSize

(* A row is stored twice only for an insert that stored its rows and       *)
(* raised: retries and partial flushes alone never repeat a row.           *)
RepeatedOnlyInDoubt ==
    \A t \in Tables, f \in Frames : rows[t][f] <= 1 + doubts

(* What makes IndexedEvidence inductive: what is pending for an event      *)
(* table has its index row stored or still in the batch flushed before it, *)
(* and the frame being written was put in object storage by this process.  *)
RawRowFirst ==
    /\ batch[MarketEvents] \cup batch[TraderEvents]
          \subseteq batch[RawMessages] \cup Stored(RawMessages)
    /\ batch[RawMessages] \cup Stored(RawMessages) \subseteq objects
    /\ allowed # {} => current \in objects
    /\ allowed \cap {MarketEvents, TraderEvents} # {} =>
          current \in batch[RawMessages] \cup Stored(RawMessages)

(* What makes RepeatedOnlyInDoubt inductive: a pending row was stored only *)
(* by inserts in doubt, and the tables the caller may still write current  *)
(* to, now or after its next write, know nothing of it.                    *)
PendingOnce ==
    /\ allowed # {} => current \in received
    /\ \A t \in Tables : batch[t] \cup Stored(t) \subseteq received
    /\ \A t \in Tables : \A f \in batch[t] : rows[t][f] <= doubts
    /\ \A t \in Tables, u \in allowed :
          u <= t => current \notin batch[t] \cup Stored(t)

IInv ==
    /\ TypeOK
    /\ RawRowFirst
    /\ PendingOnce
    /\ IndexedEvidence
    /\ AcceptedKept
    /\ RepeatedOnlyInDoubt

(* The sink implements the evidence promise on the stores alone: what is   *)
(* in object storage is the archive, what ClickHouse's event tables refer  *)
(* to is derived from it.                                                  *)
Evidence == INSTANCE EvidenceArchive
    WITH archive <- objects,
         derived <- Stored(MarketEvents) \cup Stored(TraderEvents)
KeepsEvidence == Evidence!Spec
=============================================================================

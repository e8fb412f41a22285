-------------------------- MODULE StoreSinkProofs --------------------------
(***************************************************************************)
(* Proofs about StoreSink, for every set of frames, every clock, batch     *)
(* size and age, and every failure of the stores.                          *)
(***************************************************************************)
EXTENDS StoreSink, FiniteSetTheorems, TLAPS

USE TimesAssumption, BatchAssumption, DoubtsAssumption, NoneAssumption

(* A set of tables flush() has been through: a prefix of its order.        *)
Prefixes == {{}, {RawMessages}, {RawMessages, MarketEvents}, Tables}

(* Every way a write or a flush can leave the batches and the tables: the  *)
(* tables of done inserted and cleared, and those of stored inserted, one  *)
(* more at most, the insert in doubt.                                      *)
Advance(b) ==
    \E done, stored \in Prefixes :
        /\ done \subseteq stored
        /\ batch' = Remaining(b, done)
        /\ rows' = Inserted(b, stored)
        /\ oldest' \in Times \cup {None}
        /\ doubts' \in Nat /\ doubts' >= doubts
        /\ done # stored => doubts' = doubts + 1

(* The three tables, in the order they are flushed.                        *)
LEMMA TablesAre == Tables = {1, 2, 3} /\ RawMessages = 1 /\ MarketEvents = 2 /\ TraderEvents = 3
  BY DEF Tables, RawMessages, MarketEvents, TraderEvents

(* The tables flushed before another are a prefix of the order.            *)
LEMMA BeforeIsPrefix ==
    ASSUME NEW t \in Tables
    PROVE  InsertedBefore(t) \in Prefixes /\ InsertedBefore(t) \cup {t} \in Prefixes
  BY TablesAre DEF InsertedBefore, Prefixes, Tables, RawMessages, MarketEvents, TraderEvents

(* A flush advances the batches.                                           *)
LEMMA FlushAdvances ==
    ASSUME TypeOK, NEW b, NEW since \in Times \cup {None},
           FlushReturns(b) \/ FlushRaises(b, since)
    PROVE  Advance(b)
  <1>1. CASE FlushReturns(b)
    <2>1. Tables \in Prefixes
      BY DEF Prefixes
    <2>. QED  BY <1>1, <2>1 DEF FlushReturns, Advance, TypeOK
  <1>2. CASE FlushRaises(b, since)
    <2>1. PICK t \in Tables :
              /\ batch' = Remaining(b, InsertedBefore(t))
              /\ oldest' = since
              /\ \/ rows' = Inserted(b, InsertedBefore(t)) /\ UNCHANGED doubts
                 \/ /\ rows' = Inserted(b, InsertedBefore(t) \cup {t})
                    /\ doubts' = doubts + 1
      BY <1>2 DEF FlushRaises
    <2>2. /\ InsertedBefore(t) \in Prefixes
          /\ InsertedBefore(t) \cup {t} \in Prefixes
          /\ doubts \in Nat
      BY BeforeIsPrefix DEF TypeOK
    <2>3. CASE rows' = Inserted(b, InsertedBefore(t)) /\ UNCHANGED doubts
      BY <2>1, <2>2, <2>3 DEF Advance
    <2>4. CASE /\ rows' = Inserted(b, InsertedBefore(t) \cup {t})
               /\ doubts' = doubts + 1
      <3>1. InsertedBefore(t) \subseteq InsertedBefore(t) \cup {t}
        OBVIOUS
      <3>. HIDE DEF TypeOK
      <3>. QED  BY <2>1, <2>2, <2>4, <3>1 DEF Advance
    <2>. QED  BY <2>1, <2>3, <2>4
  <1>. QED  BY <1>1, <1>2

(* Where no table is inserted, nothing changes.                            *)
LEMMA NothingInserted ==
    ASSUME TypeOK, NEW b \in [Tables -> SUBSET Frames]
    PROVE  Remaining(b, {}) = b /\ Inserted(b, {}) = rows
  BY DEF Remaining, Inserted, TypeOK

(* A write advances the batches with its row added.                        *)
LEMMA WriteAdvances ==
    ASSUME TypeOK, NEW t \in Tables, NEW f \in Frames,
           WriteReturns(t, f) \/ WriteRaises(t, f)
    PROVE  Advance(Queued(t, f))
  <1>1. Since \in Times \cup {None}
    BY DEF Since, TypeOK
  <1>2. Queued(t, f) \in [Tables -> SUBSET Frames]
    BY DEF Queued, TypeOK
  <1>3. CASE Holds(Queued(t, f))
    <2>1. {} \in Prefixes
      BY DEF Prefixes
    <2>. QED  BY <1>1, <1>2, <1>3, <2>1, NothingInserted DEF Holds, Advance, TypeOK
  <1>4. CASE ~ Holds(Queued(t, f))
    BY <1>1, <1>4, FlushAdvances DEF WriteReturns, WriteRaises
  <1>. QED  BY <1>3, <1>4

(* What an advance keeps: rows leave a batch only for their table, event   *)
(* rows are inserted only once the raw batch is out, and a row still       *)
(* pending was stored only in doubt.                                       *)
LEMMA AdvanceKeeps ==
    ASSUME TypeOK, NEW b \in [Tables -> SUBSET Frames], Advance(b),
           RepeatedOnlyInDoubt,
           \A t \in Tables : \A f \in b[t] : rows[t][f] <= doubts
    PROVE  /\ rows' \in [Tables -> [Frames -> Nat]]
           /\ batch' \in [Tables -> SUBSET Frames]
           /\ oldest' \in Times \cup {None}
           /\ doubts' \in Nat
           /\ \A t \in Tables : Stored(t)' \cup batch'[t] = Stored(t) \cup b[t]
           /\ \A t \in Tables : Stored(t) \subseteq Stored(t)' /\ batch'[t] \subseteq b[t]
           /\ \A t \in {MarketEvents, TraderEvents} :
                 Stored(t)' # Stored(t) => b[RawMessages] \subseteq Stored(RawMessages)'
           /\ \A t \in Tables : \A f \in batch'[t] : rows'[t][f] <= doubts'
           /\ RepeatedOnlyInDoubt'
  <1>1. PICK done \in Prefixes, stored \in Prefixes :
            /\ done \subseteq stored
            /\ batch' = Remaining(b, done)
            /\ rows' = Inserted(b, stored)
            /\ oldest' \in Times \cup {None}
            /\ doubts' \in Nat /\ doubts' >= doubts
            /\ done # stored => doubts' = doubts + 1
    BY DEF Advance
  <1>2. stored \subseteq Tables
        /\ (MarketEvents \in stored => RawMessages \in stored)
        /\ (TraderEvents \in stored => RawMessages \in stored)
    BY DEF Prefixes, Tables, RawMessages, MarketEvents, TraderEvents
  <1>3. /\ rows \in [Tables -> [Frames -> Nat]]
        /\ doubts \in Nat
    BY DEF TypeOK
  <1>4. \A t \in Tables, f \in Frames :
            rows'[t][f] = IF t \in stored /\ f \in b[t] THEN rows[t][f] + 1 ELSE rows[t][f]
    BY <1>1 DEF Inserted
  <1>5. \A t \in Tables : batch'[t] = IF t \in done THEN {} ELSE b[t]
    BY <1>1 DEF Remaining
  <1>6. rows' \in [Tables -> [Frames -> Nat]]
    BY <1>1, <1>3 DEF Inserted
  <1>7. batch' \in [Tables -> SUBSET Frames]
    BY <1>1 DEF Remaining
  <1>8. ASSUME NEW t \in Tables
        PROVE  Stored(t)' = IF t \in stored THEN Stored(t) \cup b[t] ELSE Stored(t)
    <2>1. \A f \in Frames : rows[t][f] \in Nat
      BY <1>3
    <2>. QED  BY <1>4, <2>1 DEF Stored
  <1>9. \A t \in Tables : Stored(t)' \cup batch'[t] = Stored(t) \cup b[t]
    BY <1>1, <1>5, <1>8
  <1>10. \A t \in Tables : Stored(t) \subseteq Stored(t)' /\ batch'[t] \subseteq b[t]
    BY <1>5, <1>8
  <1>11. \A t \in {MarketEvents, TraderEvents} :
            Stored(t)' # Stored(t) => b[RawMessages] \subseteq Stored(RawMessages)'
    <2>1. RawMessages \in Tables /\ MarketEvents \in Tables /\ TraderEvents \in Tables
      BY DEF Tables
    <2>. QED  BY <1>2, <1>8, <2>1
  <1>12. ASSUME NEW t \in Tables, NEW f \in batch'[t]
         PROVE  rows'[t][f] <= doubts'
    <2>1. t \notin done /\ f \in b[t] /\ f \in Frames
      BY <1>5
    <2>2. rows[t][f] <= doubts /\ rows[t][f] \in Nat
      BY <2>1, <1>3
    <2>3. CASE t \in stored
      BY <1>1, <1>3, <1>4, <2>1, <2>2, <2>3
    <2>4. CASE t \notin stored
      BY <1>1, <1>3, <1>4, <2>1, <2>2, <2>4
    <2>. QED  BY <2>3, <2>4
  <1>13. ASSUME NEW t \in Tables, NEW f \in Frames
         PROVE  rows'[t][f] <= 1 + doubts'
    <2>1. rows[t][f] \in Nat /\ rows[t][f] <= 1 + doubts
      BY <1>3 DEF RepeatedOnlyInDoubt
    <2>2. CASE t \in stored /\ f \in b[t]
      BY <1>1, <1>3, <1>4, <2>1, <2>2
    <2>3. CASE ~ (t \in stored /\ f \in b[t])
      BY <1>1, <1>3, <1>4, <2>1, <2>3
    <2>. QED  BY <2>2, <2>3
  <1>14. RepeatedOnlyInDoubt'
    BY <1>13 DEF RepeatedOnlyInDoubt
  <1>. QED  BY <1>1, <1>6, <1>7, <1>9, <1>10, <1>11, <1>12, <1>14

(* An advance over batches that satisfy the invariant's conditions, made   *)
(* by a step that changes nothing else the invariant speaks of.            *)
LEMMA AdvanceStep ==
    ASSUME IInv, NEW b \in [Tables -> SUBSET Frames], Advance(b),
           UNCHANGED <<now, objects, current, received, lost>>,
           b[MarketEvents] \cup b[TraderEvents] \subseteq b[RawMessages] \cup Stored(RawMessages),
           b[RawMessages] \subseteq objects,
           \A t \in Tables : b[t] \subseteq received,
           \A t \in Tables : \A f \in b[t] : rows[t][f] <= doubts,
           accepted' \in [Tables -> SUBSET Frames],
           \A t \in Tables : accepted'[t] \subseteq Stored(t) \cup b[t] \cup lost[t],
           allowed' \subseteq Tables,
           \A t \in Tables, u \in allowed' : u <= t => current \notin b[t] \cup Stored(t),
           allowed' # {} => current \in objects /\ current \in received,
           allowed' \cap {MarketEvents, TraderEvents} # {} =>
              current \in b[RawMessages] \cup Stored(RawMessages)
    PROVE  IInv'
  <1>. USE DEF IInv
  <1>1. /\ rows' \in [Tables -> [Frames -> Nat]]
        /\ batch' \in [Tables -> SUBSET Frames]
        /\ oldest' \in Times \cup {None}
        /\ doubts' \in Nat
        /\ \A t \in Tables : Stored(t)' \cup batch'[t] = Stored(t) \cup b[t]
        /\ \A t \in Tables : Stored(t) \subseteq Stored(t)' /\ batch'[t] \subseteq b[t]
        /\ \A t \in {MarketEvents, TraderEvents} :
              Stored(t)' # Stored(t) => b[RawMessages] \subseteq Stored(RawMessages)'
        /\ \A t \in Tables : \A f \in batch'[t] : rows'[t][f] <= doubts'
        /\ RepeatedOnlyInDoubt'
    <2>. HIDE DEF IInv
    <2>1. TypeOK /\ RepeatedOnlyInDoubt
      BY DEF IInv
    <2>. QED  BY <2>1, AdvanceKeeps
  <1>2. RawMessages \in Tables /\ MarketEvents \in Tables /\ TraderEvents \in Tables
    BY DEF Tables
  <1>3. TypeOK'
    BY <1>1 DEF TypeOK
  <1>4. RawRowFirst'
    <2>1. batch'[MarketEvents] \cup batch'[TraderEvents]
             \subseteq batch'[RawMessages] \cup Stored(RawMessages)'
      BY <1>1, <1>2
    <2>2. batch'[RawMessages] \cup Stored(RawMessages)' \subseteq objects'
      BY <1>1, <1>2 DEF RawRowFirst
    <2>3. allowed' # {} => current' \in objects'
      OBVIOUS
    <2>4. allowed' \cap {MarketEvents, TraderEvents} # {} =>
             current' \in batch'[RawMessages] \cup Stored(RawMessages)'
      BY <1>1, <1>2
    <2>. QED  BY <2>1, <2>2, <2>3, <2>4 DEF RawRowFirst
  <1>5. PendingOnce'
    <2>1. \A t \in Tables : batch'[t] \cup Stored(t)' \subseteq received'
      BY <1>1 DEF PendingOnce
    <2>2. \A t \in Tables, u \in allowed' :
             u <= t => current' \notin batch'[t] \cup Stored(t)'
      BY <1>1
    <2>. QED  BY <1>1, <2>1, <2>2 DEF PendingOnce
  <1>6. IndexedEvidence'
    <2>1. ASSUME NEW t \in {MarketEvents, TraderEvents}, NEW f \in Stored(t)'
          PROVE  f \in Stored(RawMessages)'
      <3>1. CASE Stored(t)' = Stored(t)
        BY <1>1, <1>2, <2>1, <3>1 DEF IndexedEvidence
      <3>2. CASE Stored(t)' # Stored(t)
        <4>1. f \in Stored(t) \cup b[t]
          BY <1>1, <1>2
        <4>2. b[RawMessages] \cup Stored(RawMessages) \subseteq Stored(RawMessages)'
          BY <1>1, <1>2, <3>2
        <4>3. Stored(t) \cup b[t] \subseteq b[RawMessages] \cup Stored(RawMessages)
          BY <1>2 DEF IndexedEvidence
        <4>. QED  BY <4>1, <4>2, <4>3
      <3>. QED  BY <3>1, <3>2
    <2>2. Stored(RawMessages)' \subseteq objects'
      BY <1>4 DEF RawRowFirst
    <2>. QED  BY <2>1, <2>2 DEF IndexedEvidence
  <1>7. AcceptedKept'
    BY <1>1 DEF AcceptedKept
  <1>. QED  BY <1>1, <1>3, <1>4, <1>5, <1>6, <1>7

(* A write of current to a table the caller may write it to.               *)
LEMMA WriteStep ==
    ASSUME IInv, NEW t \in allowed,
           allowed' \subseteq {u \in Tables : u > t},
           WriteReturns(t, current) \/ WriteRaises(t, current),
           UNCHANGED <<now, objects, current, received, lost>>
    PROVE  IInv'
  <1>. DEFINE b == Queued(t, current)
  <1>1. /\ t \in Tables
        /\ current \in Frames /\ current \in objects
        /\ TypeOK
    BY DEF IInv, TypeOK, RawRowFirst
  <1>2. Advance(b)
    BY <1>1, WriteAdvances
  <1>3. /\ b \in [Tables -> SUBSET Frames]
        /\ b[t] = batch[t] \cup {current}
        /\ \A u \in Tables \ {t} : b[u] = batch[u]
    BY <1>1 DEF Queued, TypeOK
  <1>4. current \notin batch[t] \cup Stored(t)
    BY <1>1, TablesAre DEF IInv, PendingOnce
  <1>5. \A u \in Tables : \A f \in b[u] : rows[u][f] <= doubts
    <2>1. rows[t][current] <= doubts
      BY <1>1, <1>4 DEF Stored, TypeOK
    <2>. QED  BY <1>3, <2>1 DEF IInv, PendingOnce
  <1>6. /\ b[MarketEvents] \cup b[TraderEvents] \subseteq b[RawMessages] \cup Stored(RawMessages)
        /\ b[RawMessages] \subseteq objects
        /\ allowed' \cap {MarketEvents, TraderEvents} # {} =>
              current \in b[RawMessages] \cup Stored(RawMessages)
    <2>1. CASE t = RawMessages
      BY <1>1, <1>3, <2>1, TablesAre DEF IInv, RawRowFirst
    <2>2. CASE t # RawMessages
      <3>1. t \in {MarketEvents, TraderEvents}
        BY <1>1, <2>2, TablesAre
      <3>2. current \in batch[RawMessages] \cup Stored(RawMessages)
        BY <3>1 DEF IInv, RawRowFirst
      <3>. QED  BY <1>1, <1>3, <2>2, <3>1, <3>2, TablesAre DEF IInv, RawRowFirst
    <2>. QED  BY <2>1, <2>2
  <1>7. \A u \in Tables : b[u] \subseteq received
    <2>1. current \in received
      BY DEF IInv, PendingOnce
    <2>. QED  BY <1>3, <2>1 DEF IInv, PendingOnce
  <1>8. /\ accepted' \in [Tables -> SUBSET Frames]
        /\ \A u \in Tables : accepted'[u] \subseteq Stored(u) \cup b[u] \cup lost[u]
    <2>1. CASE WriteReturns(t, current)
      BY <1>1, <1>3, <2>1 DEF WriteReturns, IInv, AcceptedKept, TypeOK
    <2>2. CASE WriteRaises(t, current)
      BY <1>1, <1>3, <2>2 DEF WriteRaises, IInv, AcceptedKept, TypeOK
    <2>. QED  BY <2>1, <2>2
  <1>9. \A v \in Tables, u \in allowed' : u <= v => current \notin b[v] \cup Stored(v)
    <2>1. SUFFICES ASSUME NEW v \in Tables, NEW u \in allowed', u <= v
                   PROVE  current \notin b[v] \cup Stored(v)
      OBVIOUS
    <2>2. t <= v /\ v # t
      BY <1>1, <2>1, TablesAre
    <2>. QED  BY <1>3, <2>2 DEF IInv, PendingOnce
  <1>. HIDE DEF b
  <1>. QED  BY <1>1, <1>2, <1>3, <1>5, <1>6, <1>7, <1>8, <1>9, AdvanceStep

(* A flush of its own preserves the invariant.                             *)
LEMMA FlushStep ==
    ASSUME IInv, Flush
    PROVE  IInv'
  <1>1. TypeOK /\ oldest \in Times \cup {None} /\ batch \in [Tables -> SUBSET Frames]
    BY DEF IInv, TypeOK
  <1>2. Advance(batch)
    BY <1>1, FlushAdvances DEF Flush
  <1>3. RawMessages \in Tables
    BY DEF Tables
  <1>4. \A t \in Tables : accepted[t] \subseteq Stored(t) \cup batch[t] \cup lost[t]
    BY DEF IInv, AcceptedKept
  <1>5. /\ allowed' = {}
        /\ UNCHANGED <<now, objects, current, received, accepted, lost>>
    BY DEF Flush
  <1>6. accepted' \in [Tables -> SUBSET Frames]
    BY <1>1, <1>5 DEF TypeOK
  <1>7. /\ batch[MarketEvents] \cup batch[TraderEvents]
              \subseteq batch[RawMessages] \cup Stored(RawMessages)
        /\ batch[RawMessages] \subseteq objects
        /\ \A t \in Tables : batch[t] \subseteq received
        /\ \A t \in Tables : \A f \in batch[t] : rows[t][f] <= doubts
    BY DEF IInv, RawRowFirst, PendingOnce
  <1>. QED  BY <1>1, <1>2, <1>4, <1>5, <1>6, <1>7, AdvanceStep

(* A frame the sink has never seen: the object is put, and no row of it is *)
(* pending or stored.                                                      *)
LEMMA PutStep ==
    ASSUME IInv, NEW f \in Frames, PutObject(f) \/ PutObjectRaises(f)
    PROVE  IInv'
  <1>1. /\ UNCHANGED <<now, rows, batch, oldest, accepted, lost, doubts>>
        /\ received' = received \cup {f} /\ f \notin received
        /\ objects' \in {objects, objects \cup {f}}
        /\ \/ allowed' = {} /\ current' = None
           \/ allowed' = {RawMessages} /\ current' = f /\ f \in objects'
    BY DEF PutObject, PutObjectRaises, sinkVars
  <1>2. \A t \in Tables : Stored(t)' = Stored(t)
    BY <1>1 DEF Stored
  <1>3. RawMessages \in Tables /\ MarketEvents \in Tables /\ TraderEvents \in Tables
    BY DEF Tables
  <1>4. TypeOK'
    BY <1>1, <1>3 DEF IInv, TypeOK
  <1>5. RawRowFirst'
    BY <1>1, <1>2, <1>3, TablesAre DEF IInv, RawRowFirst
  <1>6. PendingOnce'
    BY <1>1, <1>2 DEF IInv, PendingOnce
  <1>7. IndexedEvidence'
    BY <1>1, <1>2, <1>3 DEF IInv, IndexedEvidence
  <1>8. AcceptedKept' /\ RepeatedOnlyInDoubt'
    BY <1>1, <1>2 DEF IInv, AcceptedKept, RepeatedOnlyInDoubt
  <1>. QED  BY <1>4, <1>5, <1>6, <1>7, <1>8 DEF IInv

(* A crash preserves the invariant.                                        *)
LEMMA CrashStep ==
    ASSUME IInv, Crash
    PROVE  IInv'
  <1>1. /\ UNCHANGED <<now, objects, rows, received, accepted, doubts>>
        /\ allowed' = {} /\ current' = None /\ oldest' = None
        /\ \A t \in Tables : batch'[t] = {}
        /\ \A t \in Tables : lost'[t] = lost[t] \cup (accepted[t] \cap batch[t])
    BY DEF Crash, NoFrames, storeVars
  <1>2. \A t \in Tables : Stored(t)' = Stored(t)
    BY <1>1 DEF Stored
  <1>3. RawMessages \in Tables /\ MarketEvents \in Tables /\ TraderEvents \in Tables
    BY DEF Tables
  <1>4. TypeOK'
    BY DEF Crash, NoFrames, storeVars, IInv, TypeOK
  <1>5. RawRowFirst' /\ PendingOnce'
    BY <1>1, <1>2, <1>3 DEF IInv, RawRowFirst, PendingOnce
  <1>6. IndexedEvidence'
    BY <1>1, <1>2, <1>3 DEF IInv, IndexedEvidence
  <1>7. AcceptedKept'
    BY <1>1, <1>2 DEF IInv, AcceptedKept
  <1>8. RepeatedOnlyInDoubt'
    BY <1>1 DEF IInv, RepeatedOnlyInDoubt
  <1>. QED  BY <1>4, <1>5, <1>6, <1>7, <1>8 DEF IInv

(* Time passing preserves the invariant.                                   *)
LEMMA IdleStep ==
    ASSUME IInv, Tick \/ UNCHANGED vars
    PROVE  IInv'
  BY DEF Tick, vars, storeVars, sinkVars, callerVars, IInv, TypeOK, RawRowFirst,
         PendingOnce, IndexedEvidence, AcceptedKept, RepeatedOnlyInDoubt, Stored

(* The invariant holds at the start.                                       *)
LEMMA InitInvariant == Init => IInv
  BY DEF Init, NoFrames, IInv, TypeOK, RawRowFirst, PendingOnce, IndexedEvidence,
         AcceptedKept, RepeatedOnlyInDoubt, Stored, Tables

(* Every step preserves the invariant.                                     *)
LEMMA NextInvariant == IInv /\ [Next]_vars => IInv'
  <1>1. SUFFICES ASSUME IInv, [Next]_vars
                 PROVE  IInv'
    OBVIOUS
  <1>2. CASE Tick \/ UNCHANGED vars
    BY <1>1, <1>2, IdleStep
  <1>3. ASSUME NEW f \in Frames, PutObject(f) \/ PutObjectRaises(f)
        PROVE  IInv'
    BY <1>1, <1>3, PutStep
  <1>4. CASE QueueRaw
    <2>1. allowed' \subseteq {u \in Tables : u > RawMessages}
      BY <1>4, TablesAre DEF QueueRaw
    <2>. QED  BY <1>1, <1>4, <2>1, WriteStep DEF QueueRaw
  <1>5. CASE WriteMarketEvents
    <2>1. allowed' \subseteq {u \in Tables : u > MarketEvents}
      BY <1>5, TablesAre DEF WriteMarketEvents
    <2>. QED  BY <1>1, <1>5, <2>1, WriteStep DEF WriteMarketEvents
  <1>6. CASE WriteTraderEvents
    <2>1. allowed' \subseteq {u \in Tables : u > TraderEvents}
      BY <1>6, TablesAre DEF WriteTraderEvents
    <2>. QED  BY <1>1, <1>6, <2>1, WriteStep DEF WriteTraderEvents
  <1>7. CASE Flush
    BY <1>1, <1>7, FlushStep
  <1>8. CASE Crash
    BY <1>1, <1>8, CrashStep
  <1>. QED  BY <1>1, <1>2, <1>3, <1>4, <1>5, <1>6, <1>7, <1>8 DEF Next

(* The inductive invariant of the sink holds throughout.                   *)
THEOREM Invariance == Spec => []IInv
  <1>. QED  BY InitInvariant, NextInvariant, PTL DEF Spec

(* Every reachable state of the sink is well typed.                        *)
THEOREM TypeCorrect == Spec => []TypeOK
  <1>1. IInv => TypeOK
    BY DEF IInv
  <1>. QED  BY Invariance, <1>1, PTL

(* No market or trader row is ever stored without its indexed, archived    *)
(* raw frame, whatever store call raises and wherever the process crashes. *)
THEOREM EvidenceIndexed == Spec => []IndexedEvidence
  <1>1. IInv => IndexedEvidence
    BY DEF IInv
  <1>. QED  BY Invariance, <1>1, PTL

(* A write that returned is stored, pending, or was wiped by a crash.      *)
THEOREM NothingAcceptedLost == Spec => []AcceptedKept
  <1>1. IInv => AcceptedKept
    BY DEF IInv
  <1>. QED  BY Invariance, <1>1, PTL

(* Only an insert that stored its rows and raised can store a row twice.   *)
THEOREM RowsRepeatInDoubt == Spec => []RepeatedOnlyInDoubt
  <1>1. IInv => RepeatedOnlyInDoubt
    BY DEF IInv
  <1>. QED  BY Invariance, <1>1, PTL

----------------------------------------------------------------------------
(* The refinement: putting an object is Archive, or nothing when the store *)
(* refused it; every other step derives rows from what is archived.        *)

Derived == Stored(MarketEvents) \cup Stored(TraderEvents)

(* Nothing stored is taken back.                                           *)
LEMMA DerivedGrows ==
    ASSUME IInv, [Next]_vars
    PROVE  Derived \subseteq Derived'
  <1>1. rows \in [Tables -> [Frames -> Nat]]
    BY DEF IInv, TypeOK
  <1>2. ASSUME UNCHANGED rows
        PROVE  Derived' = Derived
    BY <1>2 DEF Derived, Stored
  <1>3. MarketEvents \in Tables /\ TraderEvents \in Tables
    BY DEF Tables
  <1>4. ASSUME NEW b, NEW done \in SUBSET Tables, rows' = Inserted(b, done)
        PROVE  Derived \subseteq Derived'
    <2>1. \A t \in Tables, f \in Frames : rows[t][f] > 0 => rows'[t][f] > 0
      BY <1>1, <1>4 DEF Inserted
    <2>. QED  BY <1>3, <2>1 DEF Derived, Stored
  <1>5. ASSUME NEW b, Advance(b)
        PROVE  Derived \subseteq Derived'
    <2>1. PICK stored \in Prefixes : rows' = Inserted(b, stored)
      BY <1>5 DEF Advance
    <2>2. stored \in SUBSET Tables
      BY DEF Prefixes, Tables
    <2>. QED  BY <1>4, <2>1, <2>2
  <1>6. TypeOK /\ oldest \in Times \cup {None}
    BY DEF IInv, TypeOK
  <1>7. ASSUME NEW t \in allowed, WriteReturns(t, current) \/ WriteRaises(t, current)
        PROVE  Derived \subseteq Derived'
    <2>1. t \in Tables /\ current \in Frames
      BY DEF IInv, TypeOK, RawRowFirst
    <2>. QED  BY <1>5, <1>6, <1>7, <2>1, WriteAdvances
  <1>8. CASE QueueRaw \/ WriteMarketEvents \/ WriteTraderEvents
    BY <1>7, <1>8 DEF QueueRaw, WriteMarketEvents, WriteTraderEvents
  <1>9. CASE Flush
    BY <1>5, <1>6, <1>9, FlushAdvances DEF Flush
  <1>10. CASE Tick \/ Crash \/ UNCHANGED vars
    BY <1>2, <1>10 DEF Tick, Crash, vars, storeVars
  <1>11. ASSUME NEW f \in Frames, PutObject(f) \/ PutObjectRaises(f)
         PROVE  Derived \subseteq Derived'
    BY <1>2, <1>11 DEF PutObject, PutObjectRaises
  <1>. QED  BY <1>8, <1>9, <1>10, <1>11 DEF Next

(* The sink starts as the evidence archive does.                           *)
LEMMA RefinementInit == Init => Evidence!Init
  BY DEF Init, Evidence!Init, Stored, Tables

(* A step of the sink is one of the evidence archive, or none.             *)
LEMMA RefinementStep ==
    ASSUME IInv, IInv', [Next]_vars
    PROVE  [Evidence!Next]_(Evidence!vars)
  <1>1. CASE UNCHANGED objects
    <2>1. Derived' \subseteq Frames /\ Derived' \subseteq objects
      BY <1>1 DEF IInv, TypeOK, IndexedEvidence, Derived
    <2>2. Derived' = Derived \cup Derived'
      BY DerivedGrows
    <2>3. Evidence!Derive(Derived')
      BY <1>1, <2>1, <2>2 DEF Evidence!Derive, Derived
    <2>. QED  BY <2>1, <2>3 DEF Evidence!Next
  <1>2. ASSUME NEW f \in Frames, PutObject(f) \/ PutObjectRaises(f)
        PROVE  [Evidence!Next]_(Evidence!vars)
    <2>1. UNCHANGED rows /\ objects' \in {objects, objects \cup {f}}
      BY <1>2 DEF PutObject, PutObjectRaises
    <2>2. UNCHANGED (Stored(MarketEvents) \cup Stored(TraderEvents))
      BY <2>1 DEF Stored
    <2>3. CASE objects' = objects
      BY <1>1, <2>3
    <2>4. CASE objects' = objects \cup {f}
      BY <2>2, <2>4 DEF Evidence!Next, Evidence!Archive
    <2>. QED  BY <2>1, <2>3, <2>4
  <1>3. CASE Tick \/ QueueRaw \/ WriteMarketEvents \/ WriteTraderEvents \/ Flush \/ Crash
                \/ UNCHANGED vars
    BY <1>1, <1>3 DEF Tick, QueueRaw, WriteMarketEvents, WriteTraderEvents, Flush,
                      Crash, vars, storeVars
  <1>. QED  BY <1>2, <1>3 DEF Next

(* The sink implements the evidence promise, for every failure and crash.  *)
THEOREM ImplementsEvidence == Spec => KeepsEvidence
  <1>1. IInv /\ IInv' /\ [Next]_vars => [Evidence!Next]_(Evidence!vars)
    BY RefinementStep
  <1>. QED  BY <1>1, RefinementInit, Invariance, PTL DEF Spec, KeepsEvidence, Evidence!Spec

----------------------------------------------------------------------------
(* What a crash can cost: with the frame being written not yet accepted by *)
(* the tables it may still go to, a failed flush makes nothing volatile.   *)

AcceptedOnce ==
    /\ \A t \in Tables : IsFiniteSet(batch[t])
    /\ \A t \in Tables : accepted[t] \subseteq received
    /\ \A t \in Tables, u \in allowed : u <= t => current \notin accepted[t]

CrashIInv == AcceptedOnce /\ VolatileBounded

(* Three subsets have no more elements than the three sets.                *)
LEMMA SumBound ==
    ASSUME NEW A1, NEW A2, NEW A3, NEW B1, NEW B2, NEW B3,
           A1 \subseteq B1, A2 \subseteq B2, A3 \subseteq B3,
           IsFiniteSet(B1), IsFiniteSet(B2), IsFiniteSet(B3)
    PROVE  /\ Cardinality(A1) + Cardinality(A2) + Cardinality(A3)
                 <= Cardinality(B1) + Cardinality(B2) + Cardinality(B3)
           /\ Cardinality(A1) + Cardinality(A2) + Cardinality(A3) \in Nat
           /\ Cardinality(B1) + Cardinality(B2) + Cardinality(B3) \in Nat
  <1>1. /\ IsFiniteSet(A1) /\ Cardinality(A1) <= Cardinality(B1)
        /\ IsFiniteSet(A2) /\ Cardinality(A2) <= Cardinality(B2)
        /\ IsFiniteSet(A3) /\ Cardinality(A3) <= Cardinality(B3)
    BY FS_Subset
  <1>2. /\ Cardinality(A1) \in Nat /\ Cardinality(A2) \in Nat /\ Cardinality(A3) \in Nat
        /\ Cardinality(B1) \in Nat /\ Cardinality(B2) \in Nat /\ Cardinality(B3) \in Nat
    BY <1>1, FS_CardinalityType
  <1>. QED  BY <1>1, <1>2

(* An advance takes rows out of the batches, and none out of the tables.   *)
LEMMA AdvanceShrinks ==
    ASSUME TypeOK, NEW b \in [Tables -> SUBSET Frames], Advance(b)
    PROVE  \A t \in Tables : batch'[t] \subseteq b[t] /\ Stored(t) \subseteq Stored(t)'
  <1>1. PICK done \in Prefixes, stored \in Prefixes :
            batch' = Remaining(b, done) /\ rows' = Inserted(b, stored)
    BY DEF Advance
  <1>2. rows \in [Tables -> [Frames -> Nat]]
    BY DEF TypeOK
  <1>3. \A t \in Tables, f \in Frames :
            rows'[t][f] = IF t \in stored /\ f \in b[t] THEN rows[t][f] + 1 ELSE rows[t][f]
    BY <1>1 DEF Inserted
  <1>4. \A t \in Tables, f \in Frames : rows[t][f] > 0 => rows'[t][f] > 0
    BY <1>2, <1>3
  <1>5. \A t \in Tables : batch'[t] \subseteq b[t]
    BY <1>1 DEF Remaining
  <1>. QED  BY <1>4, <1>5 DEF Stored

(* Fewer rows are volatile when none has become so.                        *)
LEMMA VolatileShrinks ==
    ASSUME CrashIInv, \A t \in Tables : Volatile(t)' \subseteq Volatile(t)
    PROVE  VolatileBounded'
  <1>1. \A t \in Tables : IsFiniteSet(Volatile(t))
    BY FS_Subset DEF CrashIInv, AcceptedOnce, Volatile
  <1>2. RawMessages \in Tables /\ MarketEvents \in Tables /\ TraderEvents \in Tables
    BY DEF Tables
  <1> DEFINE A1 == Volatile(RawMessages)'
             A2 == Volatile(MarketEvents)'
             A3 == Volatile(TraderEvents)'
             B1 == Volatile(RawMessages)
             B2 == Volatile(MarketEvents)
             B3 == Volatile(TraderEvents)
  <1>3. /\ A1 \subseteq B1 /\ A2 \subseteq B2 /\ A3 \subseteq B3
        /\ IsFiniteSet(B1) /\ IsFiniteSet(B2) /\ IsFiniteSet(B3)
    BY <1>1, <1>2
  <1>4. /\ BatchSize \in Nat
        /\ Cardinality(B1) + Cardinality(B2) + Cardinality(B3) < BatchSize
    BY DEF CrashIInv, VolatileBounded
  <1>. HIDE DEF A1, A2, A3, B1, B2, B3
  <1>5. /\ Cardinality(A1) + Cardinality(A2) + Cardinality(A3)
              <= Cardinality(B1) + Cardinality(B2) + Cardinality(B3)
        /\ Cardinality(A1) + Cardinality(A2) + Cardinality(A3) \in Nat
        /\ Cardinality(B1) + Cardinality(B2) + Cardinality(B3) \in Nat
    BY <1>3, SumBound
  <1>6. Cardinality(A1) + Cardinality(A2) + Cardinality(A3) < BatchSize
    BY <1>4, <1>5
  <1>. QED  BY <1>6 DEF VolatileBounded, A1, A2, A3

(* A write that returns holds the batches below BatchSize, or empties them *)
LEMMA WriteBounded ==
    ASSUME IInv, CrashIInv, NEW t \in allowed,
           allowed' \subseteq {u \in Tables : u > t},
           WriteReturns(t, current) \/ WriteRaises(t, current),
           UNCHANGED <<current, received>>
    PROVE  CrashIInv'
  <1> DEFINE b == Queued(t, current)
  <1>1. /\ t \in Tables /\ TypeOK /\ current \in received /\ current \notin accepted[t]
        /\ current \in Frames
    <2>1. t \in Tables /\ t <= t /\ TypeOK
      BY DEF IInv, TypeOK, Tables, RawMessages, MarketEvents, TraderEvents
    <2>2. current \in received /\ current \notin accepted[t]
      BY <2>1 DEF IInv, PendingOnce, CrashIInv, AcceptedOnce
    <2>3. received \subseteq Frames
      BY <2>1 DEF TypeOK
    <2>. QED  BY <2>1, <2>2, <2>3
  <1>2. /\ b \in [Tables -> SUBSET Frames]
        /\ b[t] = batch[t] \cup {current}
        /\ \A u \in Tables \ {t} : b[u] = batch[u]
    BY <1>1 DEF Queued, TypeOK
  <1>3. \A u \in Tables : batch'[u] \subseteq b[u] /\ Stored(u) \subseteq Stored(u)'
    BY <1>1, <1>2, WriteAdvances, AdvanceShrinks
  <1>. HIDE DEF b
  <1>4. \A u \in Tables : IsFiniteSet(b[u])
    BY <1>2, FS_AddElement DEF CrashIInv, AcceptedOnce
  <1>5. /\ \A u \in Tables : accepted'[u] \in {accepted[u], accepted[u] \cup {current}}
        /\ \A u \in Tables \ {t} : accepted'[u] = accepted[u]
    BY <1>1 DEF WriteReturns, WriteRaises, TypeOK
  <1>6. AcceptedOnce'
    <2>1. \A u \in Tables : IsFiniteSet(batch'[u])
      BY <1>3, <1>4, FS_Subset
    <2>2. \A u \in Tables : accepted'[u] \subseteq received'
      BY <1>1, <1>5 DEF CrashIInv, AcceptedOnce
    <2>3. ASSUME NEW u \in Tables, NEW v \in allowed', v <= u
          PROVE  current' \notin accepted'[u]
      <3>1. v \in Tables /\ v > t
        OBVIOUS
      <3>2. u # t /\ t <= u
        BY <1>1, <2>3, <3>1 DEF Tables, RawMessages, MarketEvents, TraderEvents
      <3>. QED  BY <1>5, <3>2 DEF CrashIInv, AcceptedOnce
    <2>. QED  BY <2>1, <2>2, <2>3 DEF AcceptedOnce
  <1>7. CASE WriteReturns(t, current) /\ Holds(b)
    <2> DEFINE A1 == Volatile(RawMessages)'
               A2 == Volatile(MarketEvents)'
               A3 == Volatile(TraderEvents)'
               B1 == b[RawMessages]
               B2 == b[MarketEvents]
               B3 == b[TraderEvents]
    <2>1. A1 \subseteq B1 /\ A2 \subseteq B2 /\ A3 \subseteq B3
      BY <1>7 DEF Volatile, Holds
    <2>2. IsFiniteSet(B1) /\ IsFiniteSet(B2) /\ IsFiniteSet(B3)
      BY <1>4 DEF Tables
    <2>3. ~ (Cardinality(B1) + Cardinality(B2) + Cardinality(B3) >= BatchSize)
      BY <1>7 DEF Holds, Due
    <2>. HIDE DEF A1, A2, A3, B1, B2, B3
    <2>4. Cardinality(A1) + Cardinality(A2) + Cardinality(A3) < BatchSize
      <3>1. /\ Cardinality(A1) + Cardinality(A2) + Cardinality(A3)
                  <= Cardinality(B1) + Cardinality(B2) + Cardinality(B3)
            /\ Cardinality(A1) + Cardinality(A2) + Cardinality(A3) \in Nat
            /\ Cardinality(B1) + Cardinality(B2) + Cardinality(B3) \in Nat
        BY <2>1, <2>2, SumBound
      <3>. QED  BY <2>3, <3>1
    <2>5. VolatileBounded'
      BY <2>4 DEF VolatileBounded, A1, A2, A3
    <2>. QED  BY <1>6, <2>5 DEF CrashIInv
  <1>8. CASE WriteReturns(t, current) /\ FlushReturns(b)
    <2>1. \A u \in Tables : batch'[u] = {}
      BY <1>8 DEF FlushReturns, Remaining
    <2>2. \A u \in Tables : Volatile(u)' \subseteq Volatile(u)
      BY <2>1 DEF Volatile
    <2>. QED  BY <1>6, <2>2, VolatileShrinks DEF CrashIInv
  <1>9. CASE WriteRaises(t, current)
    <2>1. accepted' = accepted
      BY <1>9 DEF WriteRaises
    <2>2. \A u \in Tables : Volatile(u)' \subseteq Volatile(u)
      BY <1>1, <1>2, <1>3, <2>1 DEF Volatile
    <2>. QED  BY <1>6, <2>2, VolatileShrinks DEF CrashIInv
  <1>. QED  BY <1>7, <1>8, <1>9 DEF WriteReturns, b

(* The steps of a caller that is not writing, and a crash.                 *)
LEMMA OtherBounded ==
    ASSUME IInv, CrashIInv,
           \/ \E f \in Frames : PutObject(f) \/ PutObjectRaises(f)
           \/ Flush \/ Crash \/ Tick \/ UNCHANGED vars
    PROVE  CrashIInv'
  <1>1. TypeOK
    BY DEF IInv
  <1>2. CASE \E f \in Frames : PutObject(f) \/ PutObjectRaises(f)
    <2>1. PICK f \in Frames : PutObject(f) \/ PutObjectRaises(f)
      BY <1>2
    <2>2. /\ UNCHANGED <<batch, rows, accepted>> /\ f \notin received
          /\ received' = received \cup {f}
          /\ allowed' # {} => current' = f
      BY <2>1 DEF PutObject, PutObjectRaises, sinkVars
    <2>3. \A t \in Tables : Volatile(t)' \subseteq Volatile(t)
      BY <2>2 DEF Volatile, Stored
    <2>4. AcceptedOnce'
      BY <2>2 DEF CrashIInv, AcceptedOnce
    <2>. QED  BY <2>3, <2>4, VolatileShrinks DEF CrashIInv
  <1>3. CASE Flush
    <2>1. UNCHANGED <<current, received, accepted>> /\ allowed' = {}
          /\ (FlushReturns(batch) \/ FlushRaises(batch, oldest))
      BY <1>3 DEF Flush
    <2>2. batch \in [Tables -> SUBSET Frames] /\ oldest \in Times \cup {None}
      BY <1>1 DEF TypeOK
    <2>3. \A t \in Tables : batch'[t] \subseteq batch[t] /\ Stored(t) \subseteq Stored(t)'
      BY <1>1, <2>1, <2>2, FlushAdvances, AdvanceShrinks
    <2>4. \A t \in Tables : Volatile(t)' \subseteq Volatile(t)
      BY <2>1, <2>3 DEF Volatile
    <2>5. AcceptedOnce'
      BY <2>1, <2>3, FS_Subset DEF CrashIInv, AcceptedOnce
    <2>. QED  BY <2>4, <2>5, VolatileShrinks DEF CrashIInv
  <1>4. CASE Crash
    <2>1. /\ UNCHANGED <<received, accepted>> /\ allowed' = {}
          /\ \A t \in Tables : batch'[t] = {}
      BY <1>4 DEF Crash, NoFrames
    <2>2. \A t \in Tables : Volatile(t)' \subseteq Volatile(t)
      BY <2>1 DEF Volatile
    <2>3. AcceptedOnce'
      BY <2>1, FS_EmptySet DEF CrashIInv, AcceptedOnce
    <2>. QED  BY <2>2, <2>3, VolatileShrinks DEF CrashIInv
  <1>5. CASE Tick \/ UNCHANGED vars
    <2>1. UNCHANGED <<batch, rows, accepted, received, allowed, current>>
      BY <1>5 DEF Tick, vars, storeVars, sinkVars, callerVars
    <2>2. \A t \in Tables : Volatile(t)' \subseteq Volatile(t)
      BY <2>1 DEF Volatile, Stored
    <2>3. AcceptedOnce'
      BY <2>1 DEF CrashIInv, AcceptedOnce
    <2>. QED  BY <2>2, <2>3, VolatileShrinks DEF CrashIInv
  <1>. QED  BY <1>2, <1>3, <1>4, <1>5

(* Every step keeps rows accepted once and what is volatile bounded.       *)
LEMMA NextBounded ==
    ASSUME IInv, CrashIInv, [Next]_vars
    PROVE  CrashIInv'
  <1>1. CASE QueueRaw
    <2>1. allowed' \subseteq {u \in Tables : u > RawMessages}
      BY <1>1, TablesAre DEF QueueRaw
    <2>. QED  BY <1>1, <2>1, WriteBounded DEF QueueRaw
  <1>2. CASE WriteMarketEvents
    <2>1. allowed' \subseteq {u \in Tables : u > MarketEvents}
      BY <1>2, TablesAre DEF WriteMarketEvents
    <2>. QED  BY <1>2, <2>1, WriteBounded DEF WriteMarketEvents
  <1>3. CASE WriteTraderEvents
    <2>1. allowed' \subseteq {u \in Tables : u > TraderEvents}
      BY <1>3, TablesAre DEF WriteTraderEvents
    <2>. QED  BY <1>3, <2>1, WriteBounded DEF WriteTraderEvents
  <1>. QED  BY <1>1, <1>2, <1>3, OtherBounded DEF Next

(* Nothing is accepted at the start.                                       *)
LEMMA InitBounded == Init => CrashIInv
  <1> SUFFICES ASSUME Init
               PROVE  CrashIInv
    OBVIOUS
  <1>1. \A t \in Tables : batch[t] = {} /\ accepted[t] = {} /\ Volatile(t) = {}
    BY DEF Init, NoFrames, Volatile
  <1>2. AcceptedOnce
    BY <1>1, FS_EmptySet DEF Init, AcceptedOnce
  <1>3. VolatileBounded
    <2>1. RawMessages \in Tables /\ MarketEvents \in Tables /\ TraderEvents \in Tables
      BY DEF Tables
    <2>2. \A t \in Tables : Cardinality(Volatile(t)) = 0
      BY <1>1, FS_EmptySet
    <2>3. Cardinality(Volatile(RawMessages)) + Cardinality(Volatile(MarketEvents))
              + Cardinality(Volatile(TraderEvents)) = 0
      BY <2>1, <2>2
    <2>. QED  BY <2>3 DEF VolatileBounded
  <1>. QED  BY <1>2, <1>3 DEF CrashIInv

(* A crash costs fewer than BatchSize accepted rows, for every batch size, *)
(* however many inserts failed and were retried before it.                 *)
THEOREM CrashCostBounded == Spec => []VolatileBounded
  <1>1. Spec => []CrashIInv
    BY InitBounded, NextBounded, Invariance, PTL DEF Spec
  <1>2. CrashIInv => VolatileBounded
    BY DEF CrashIInv
  <1>. QED  BY <1>1, <1>2, PTL
=============================================================================

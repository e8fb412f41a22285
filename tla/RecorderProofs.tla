--------------------------- MODULE RecorderProofs ---------------------------
(***************************************************************************)
(* Proofs about Recorder, for every set of frames delivered in any order   *)
(* and any number of times, every clock, and every choice of the writes    *)
(* that raise.                                                             *)
(***************************************************************************)
EXTENDS Recorder, FiniteSetTheorems, TLAPS

----------------------------------------------------------------------------
(* The gap detector by itself: for every set of streams, sequence numbers  *)
(* and receipt times, over any order of observations.                      *)

USE DetectorAssumption DEF Gaps!GapDetectorAssumption

(* The highest number a stream has seen never decreases, and it is the     *)
(* number just observed whenever that one is new to the top.               *)
LEMMA AdvancedNat ==
    ASSUME NEW previous \in Nat \cup {None}, NEW sequence \in Nat \cup {None}
    PROVE  /\ Gaps!Advanced(previous, sequence) \in Nat \cup {None}
           /\ Gaps!Advanced(previous, sequence) = None <=> previous = None /\ sequence = None
           /\ previous # None => Gaps!Advanced(previous, sequence) >= previous
           /\ sequence # None => Gaps!Advanced(previous, sequence) >= sequence
           /\ Gaps!Advanced(previous, sequence) \in {previous, sequence}
  BY DEF Gaps!Advanced

(* One observation, in terms of the stream it is about.                    *)
LEMMA ObserveFacts ==
    ASSUME Gaps!TypeOK,
           NEW s \in Streams, NEW sequence \in SeqNumbers \cup {None},
           NEW seenAt \in Times, Gaps!Observe(s, sequence, seenAt)
    PROVE  /\ positions'[s].lastSequence = Gaps!Advanced(positions[s].lastSequence, sequence)
           /\ positions'[s].lastSeenAt = seenAt
           /\ observed'[s] = observed[s] \cup ({sequence} \ {None})
           /\ started'[s] = IF started[s] = None THEN sequence ELSE started[s]
           /\ \A t \in Streams \ {s} :
                /\ positions'[t] = positions[t]
                /\ observed'[t] = observed[t]
                /\ started'[t] = started[t]
           /\ reports' = reports \cup Gaps!SequenceGap(s, positions[s], sequence, seenAt)
  BY DEF Gaps!TypeOK, Gaps!Observe, Gaps!Observed

(* A report observe() returns starts just above the last number and ends   *)
(* just below the number observed.                                         *)
LEMMA NewReportFacts ==
    ASSUME Gaps!TypeOK, Gaps!PositionsSummarise,
           NEW s \in Streams, NEW sequence \in SeqNumbers \cup {None},
           NEW seenAt \in Times,
           NEW r \in Gaps!SequenceGap(s, positions[s], sequence, seenAt)
    PROVE  /\ r \in Gaps!GapReport
           /\ r.stream = s
           /\ positions[s].lastSequence \in Nat
           /\ sequence \in Nat
           /\ r.expected = positions[s].lastSequence + 1
           /\ r.actual = sequence
           /\ r.expected < r.actual
  <1>1. Gaps!Jumps(positions[s].lastSequence, sequence)
    BY DEF Gaps!SequenceGap
  <1>2. positions[s] \in Gaps!StreamPosition
    BY DEF Gaps!TypeOK
  <1>3. /\ positions[s].lastSequence \in Nat
        /\ sequence \in Nat
        /\ sequence > positions[s].lastSequence + 1
    BY <1>1, <1>2 DEF Gaps!Jumps, Gaps!StreamPosition
  <1>4. positions[s].lastSeenAt \in Nat
    BY <1>2, <1>3 DEF Gaps!PositionsSummarise, Gaps!StreamPosition
  <1>5. r = [stream   |-> s,
             expected |-> positions[s].lastSequence + 1,
             actual   |-> sequence,
             gapStart |-> positions[s].lastSeenAt,
             gapEnd   |-> seenAt]
    BY <1>1 DEF Gaps!SequenceGap
  <1>. QED  BY <1>3, <1>4, <1>5 DEF Gaps!GapReport

(* Every step of the gap detector keeps its types.                         *)
LEMMA GapsTypeStep ==
    ASSUME Gaps!IInv, [Gaps!Next]_(Gaps!vars)
    PROVE  Gaps!TypeOK'
  <1>1. CASE UNCHANGED Gaps!vars
    BY <1>1 DEF Gaps!IInv, Gaps!TypeOK, Gaps!vars
  <1>2. CASE Gaps!Next
    <2>1. PICK s \in Streams, sequence \in SeqNumbers \cup {None}, seenAt \in Times :
              Gaps!Observe(s, sequence, seenAt)
      BY <1>2 DEF Gaps!Next
    <2>2. Gaps!Observed(positions[s], sequence, seenAt) \in Gaps!StreamPosition
      BY AdvancedNat DEF Gaps!IInv, Gaps!TypeOK, Gaps!Observed, Gaps!StreamPosition
    <2>3. positions' \in [Streams -> Gaps!StreamPosition]
      BY <2>1, <2>2 DEF Gaps!IInv, Gaps!TypeOK, Gaps!Observe
    <2>4. started' \in [Streams -> Nat \cup {None}] /\ observed' \in [Streams -> SUBSET Nat]
      BY <2>1 DEF Gaps!IInv, Gaps!TypeOK, Gaps!Observe
    <2>5. reports' \subseteq Gaps!GapReport
      BY <2>1, NewReportFacts DEF Gaps!IInv, Gaps!TypeOK, Gaps!Observe
    <2>. QED  BY <2>3, <2>4, <2>5 DEF Gaps!TypeOK
  <1>. QED  BY <1>1, <1>2

(* The number just observed is at or below the new last number, and the    *)
(* last number is either the old one or the number just observed.          *)
LEMMA GapsPositionsStep ==
    ASSUME Gaps!IInv, [Gaps!Next]_(Gaps!vars)
    PROVE  Gaps!PositionsSummarise'
  <1>1. CASE UNCHANGED Gaps!vars
    BY <1>1 DEF Gaps!IInv, Gaps!PositionsSummarise, Gaps!vars
  <1>2. CASE Gaps!Next
    <2>1. PICK s \in Streams, sequence \in SeqNumbers \cup {None}, seenAt \in Times :
              Gaps!Observe(s, sequence, seenAt)
      BY <1>2 DEF Gaps!Next
    <2> DEFINE old == positions[s].lastSequence
               new == positions'[s].lastSequence
    <2>2. old \in Nat \cup {None} /\ sequence \in Nat \cup {None}
      BY DEF Gaps!IInv, Gaps!TypeOK, Gaps!StreamPosition
    <2>3. new = Gaps!Advanced(old, sequence) /\ positions'[s].lastSeenAt = seenAt
      BY <2>1, ObserveFacts DEF Gaps!IInv
    <2>4. observed'[s] = observed[s] \cup ({sequence} \ {None})
      BY <2>1, ObserveFacts DEF Gaps!IInv
    <2>5. started'[s] = IF started[s] = None THEN sequence ELSE started[s]
      BY <2>1, ObserveFacts DEF Gaps!IInv
    <2>6. /\ new = None <=> old = None /\ sequence = None
          /\ old # None => new >= old
          /\ sequence # None => new >= sequence
          /\ new \in {old, sequence}
          /\ new \in Nat \cup {None}
      <3>. HIDE DEF old, new
      <3>. QED  BY <2>2, <2>3 DEF Gaps!Advanced
    <2>7. /\ started[s] = None <=> old = None
          /\ old = None => observed[s] = {}
          /\ old # None => /\ old \in observed[s]
                           /\ \A n \in observed[s] : n <= old
      BY DEF Gaps!IInv, Gaps!PositionsSummarise
    <2>8. started'[s] = None <=> new = None
      BY <2>5, <2>6, <2>7
    <2>9. new = None => observed'[s] = {}
      BY <2>4, <2>6, <2>7
    <2>10. new # None => new \in observed'[s]
      BY <2>4, <2>6, <2>7
    <2>11. ASSUME new # None, NEW n \in observed'[s]
           PROVE  n <= new
      <3>1. observed[s] \subseteq Nat
        BY DEF Gaps!IInv, Gaps!TypeOK
      <3>2. CASE n \in observed[s]
        BY <2>2, <2>6, <2>7, <3>1, <3>2
      <3>3. CASE n = sequence /\ sequence # None
        BY <2>2, <2>6, <3>3
      <3>. QED  BY <2>4, <2>11, <3>2, <3>3
    <2>12. \A t \in Streams \ {s} : /\ positions'[t] = positions[t]
                                     /\ observed'[t] = observed[t]
                                     /\ started'[t] = started[t]
      BY <2>1, ObserveFacts DEF Gaps!IInv
    <2>13. seenAt # None
      OBVIOUS
    <2>. HIDE DEF old, new
    <2>14. ASSUME NEW t \in Streams
           PROVE  /\ started'[t] = None <=> positions'[t].lastSequence = None
                  /\ positions'[t].lastSequence = None => observed'[t] = {}
                  /\ positions'[t].lastSequence # None =>
                        /\ positions'[t].lastSequence \in observed'[t]
                        /\ positions'[t].lastSeenAt # None
                        /\ \A n \in observed'[t] : n <= positions'[t].lastSequence
      <3>1. CASE t = s
        BY <2>3, <2>8, <2>9, <2>10, <2>11, <2>13, <3>1 DEF new
      <3>2. CASE t # s
        BY <2>12, <3>2 DEF Gaps!IInv, Gaps!PositionsSummarise
      <3>. QED  BY <3>1, <3>2
    <2>. QED  BY <2>14 DEF Gaps!PositionsSummarise
  <1>. QED  BY <1>1, <1>2

(* A new report ends at the new last number; old reports stay behind       *)
(* because the last number never decreases.                                *)
LEMMA GapsReportsStep ==
    ASSUME Gaps!IInv, [Gaps!Next]_(Gaps!vars)
    PROVE  Gaps!ReportsBehindPosition'
  <1>1. CASE UNCHANGED Gaps!vars
    BY <1>1 DEF Gaps!IInv, Gaps!ReportsBehindPosition, Gaps!vars
  <1>2. CASE Gaps!Next
    <2>1. PICK s \in Streams, sequence \in SeqNumbers \cup {None}, seenAt \in Times :
              Gaps!Observe(s, sequence, seenAt)
      BY <1>2 DEF Gaps!Next
    <2> DEFINE old == positions[s].lastSequence
               new == positions'[s].lastSequence
    <2>2. /\ new = Gaps!Advanced(old, sequence)
          /\ \A t \in Streams \ {s} : positions'[t] = positions[t]
          /\ reports' = reports \cup Gaps!SequenceGap(s, positions[s], sequence, seenAt)
      BY <2>1, ObserveFacts DEF Gaps!IInv
    <2>3. /\ old \in Nat \cup {None}
          /\ sequence \in Nat \cup {None}
      BY DEF Gaps!IInv, Gaps!TypeOK, Gaps!StreamPosition
    <2>4. /\ new \in Nat \cup {None}
          /\ old # None => new # None /\ new >= old
          /\ sequence # None => new # None /\ new >= sequence
      <3>. HIDE DEF old
      <3>. QED  BY <2>2, <2>3 DEF Gaps!Advanced
    <2>5. \A r \in Gaps!SequenceGap(s, positions[s], sequence, seenAt) :
            /\ r.stream = s
            /\ sequence \in Nat
            /\ r.actual = sequence
            /\ r.expected < r.actual
      <3>. HIDE DEF old, new
      <3>1. Gaps!TypeOK /\ Gaps!PositionsSummarise
        BY DEF Gaps!IInv
      <3>. QED  BY <3>1, NewReportFacts
    <2>6. ASSUME NEW r \in reports'
          PROVE  /\ positions'[r.stream].lastSequence # None
                 /\ r.expected < r.actual
                 /\ r.actual <= positions'[r.stream].lastSequence
      <3>1. CASE r \in reports
        <4>1. /\ r \in Gaps!GapReport
              /\ positions[r.stream].lastSequence # None
              /\ r.expected < r.actual
              /\ r.actual <= positions[r.stream].lastSequence
          BY <3>1 DEF Gaps!IInv, Gaps!TypeOK, Gaps!ReportsBehindPosition
        <4>2. r.stream \in Streams /\ r.actual \in Nat /\ r.expected \in Nat
          BY <4>1 DEF Gaps!GapReport
        <4>3. CASE r.stream = s
          BY <2>3, <2>4, <4>1, <4>2, <4>3
        <4>4. CASE r.stream # s
          BY <2>2, <4>1, <4>2, <4>4
        <4>. QED  BY <4>3, <4>4
      <3>2. CASE r \in Gaps!SequenceGap(s, positions[s], sequence, seenAt)
        <4>1. /\ r.stream = s
              /\ sequence \in Nat
              /\ r.actual = sequence
              /\ r.expected < r.actual
          BY <2>5, <3>2
        <4>. QED  BY <2>4, <4>1
      <3>. QED  BY <2>2, <3>1, <3>2
    <2>. QED  BY <2>6 DEF Gaps!ReportsBehindPosition
  <1>. QED  BY <1>1, <1>2

(* A number between the old last and the new one is the number observed or *)
(* lies in the report just returned.                                       *)
LEMMA GapsCoverageStep ==
    ASSUME Gaps!IInv, [Gaps!Next]_(Gaps!vars)
    PROVE  Gaps!Coverage'
  <1>1. CASE UNCHANGED Gaps!vars
    BY <1>1 DEF Gaps!IInv, Gaps!Coverage, Gaps!ReportedMissing, Gaps!vars
  <1>2. CASE Gaps!Next
    <2>1. PICK s \in Streams, sequence \in SeqNumbers \cup {None}, seenAt \in Times :
              Gaps!Observe(s, sequence, seenAt)
      BY <1>2 DEF Gaps!Next
    <2> DEFINE old == positions[s].lastSequence
               new == positions'[s].lastSequence
    <2>2. /\ new = Gaps!Advanced(old, sequence)
          /\ observed'[s] = observed[s] \cup ({sequence} \ {None})
          /\ started'[s] = IF started[s] = None THEN sequence ELSE started[s]
          /\ reports' = reports \cup Gaps!SequenceGap(s, positions[s], sequence, seenAt)
          /\ \A t \in Streams \ {s} : /\ positions'[t] = positions[t]
                                      /\ observed'[t] = observed[t]
                                      /\ started'[t] = started[t]
      BY <2>1, ObserveFacts DEF Gaps!IInv
    <2>3. old \in Nat \cup {None} /\ sequence \in Nat \cup {None}
      BY DEF Gaps!IInv, Gaps!TypeOK, Gaps!StreamPosition
    <2>4. \A t \in Streams : Gaps!ReportedMissing(t) \subseteq Gaps!ReportedMissing(t)'
      BY <2>2 DEF Gaps!ReportedMissing
    <2>5. started[s] = None <=> old = None
      BY DEF Gaps!IInv, Gaps!PositionsSummarise
    <2>6. ASSUME NEW t \in Streams, started'[t] # None,
                 NEW n \in started'[t] .. positions'[t].lastSequence
          PROVE  n \in observed'[t] \cup Gaps!ReportedMissing(t)'
      <3>1. CASE t # s
        <4>1. n \in observed[t] \cup Gaps!ReportedMissing(t)
          BY <2>2, <2>6, <3>1 DEF Gaps!IInv, Gaps!Coverage
        <4>. QED  BY <2>2, <2>4, <3>1, <4>1
      <3>2. CASE t = s /\ started[s] = None
        <4>1. started'[s] = sequence /\ sequence \in Nat
          BY <2>2, <2>3, <2>6, <3>2
        <4>2. new = sequence
          BY <2>2, <2>5, <3>2, <4>1 DEF Gaps!Advanced
        <4>3. n = sequence
          BY <2>6, <3>2, <4>1, <4>2
        <4>. QED  BY <2>2, <3>2, <4>1, <4>3
      <3>3. CASE t = s /\ started[s] # None
        <4>1. started'[s] = started[s] /\ started[s] \in Nat /\ old \in Nat
          BY <2>2, <2>3, <2>5, <3>3 DEF Gaps!IInv, Gaps!TypeOK
        <4>2. n \in Nat /\ started[s] <= n /\ n <= new
          <5>1. n \in started[s] .. new
            BY <2>6, <3>3, <4>1
          <5>2. new \in Nat
            BY <2>2, <2>3, <4>1 DEF Gaps!Advanced
          <5>. QED  BY <4>1, <5>1, <5>2
        <4>3. CASE n <= old
          <5>1. n \in observed[s] \cup Gaps!ReportedMissing(s)
            BY <3>3, <4>1, <4>2, <4>3 DEF Gaps!IInv, Gaps!Coverage
          <5>. QED  BY <2>2, <2>4, <3>3, <5>1
        <4>4. CASE n > old
          <5>1. sequence \in Nat /\ new = sequence /\ sequence > old
            BY <2>2, <2>3, <4>1, <4>2, <4>4 DEF Gaps!Advanced
          <5>2. CASE n = sequence
            BY <2>2, <3>3, <5>1, <5>2
          <5>3. CASE n # sequence
            <6>1. Gaps!Jumps(old, sequence)
              BY <4>1, <4>2, <4>4, <5>1, <5>3 DEF Gaps!Jumps
            <6> DEFINE r == [stream   |-> s,
                             expected |-> old + 1,
                             actual   |-> sequence,
                             gapStart |-> positions[s].lastSeenAt,
                             gapEnd   |-> seenAt]
            <6>2. r \in reports'
              BY <2>2, <6>1 DEF Gaps!SequenceGap
            <6>3. n \in Gaps!MissingNumbers(r)
              BY <4>1, <4>2, <4>4, <5>1, <5>3 DEF Gaps!MissingNumbers
            <6>4. r.stream = t
              BY <3>3
            <6>. HIDE DEF r
            <6>. QED  BY <6>2, <6>3, <6>4 DEF Gaps!ReportedMissing
          <5>. QED  BY <5>2, <5>3
        <4>. QED  BY <4>1, <4>2, <4>3, <4>4
      <3>. QED  BY <3>1, <3>2, <3>3
    <2>. QED  BY <2>6 DEF Gaps!Coverage
  <1>. QED  BY <1>1, <1>2

(* Every old report of the stream ends at or below the old last number,    *)
(* the new one starts above it.                                            *)
LEMMA GapsDisjointStep ==
    ASSUME Gaps!IInv, [Gaps!Next]_(Gaps!vars)
    PROVE  Gaps!ReportsDisjoint'
  <1>1. CASE UNCHANGED Gaps!vars
    BY <1>1 DEF Gaps!IInv, Gaps!ReportsDisjoint, Gaps!vars
  <1>2. CASE Gaps!Next
    <2>1. PICK s \in Streams, sequence \in SeqNumbers \cup {None}, seenAt \in Times :
              Gaps!Observe(s, sequence, seenAt)
      BY <1>2 DEF Gaps!Next
    <2> DEFINE new == Gaps!SequenceGap(s, positions[s], sequence, seenAt)
    <2>2. reports' = reports \cup new
      BY <2>1 DEF Gaps!Observe
    <2>3. Gaps!TypeOK /\ Gaps!PositionsSummarise
      BY DEF Gaps!IInv
    <2>4. \A r, q \in new : r = q
      BY DEF Gaps!SequenceGap
    <2>5. ASSUME NEW r \in reports, NEW q \in new, r.stream = q.stream
          PROVE  Gaps!MissingNumbers(r) \cap Gaps!MissingNumbers(q) = {}
      <3>1. /\ q.stream = s
            /\ positions[s].lastSequence \in Nat
            /\ q.expected = positions[s].lastSequence + 1
        BY <2>3, NewReportFacts
      <3>2. r.actual <= positions[s].lastSequence
        BY <2>5, <3>1 DEF Gaps!IInv, Gaps!ReportsBehindPosition
      <3>3. r \in Gaps!GapReport /\ q \in Gaps!GapReport
        BY <2>3, NewReportFacts DEF Gaps!TypeOK
      <3>. QED  BY <3>1, <3>2, <3>3 DEF Gaps!MissingNumbers, Gaps!GapReport
    <2>6. \A r, q \in reports :
            r.stream = q.stream /\ r # q => Gaps!MissingNumbers(r) \cap Gaps!MissingNumbers(q) = {}
      BY DEF Gaps!IInv, Gaps!ReportsDisjoint
    <2>. HIDE DEF new
    <2>7. ASSUME NEW r \in reports', NEW q \in reports', r.stream = q.stream, r # q
          PROVE  Gaps!MissingNumbers(r) \cap Gaps!MissingNumbers(q) = {}
      <3>1. CASE r \in reports /\ q \in reports
        BY <2>6, <2>7, <3>1
      <3>2. CASE r \in reports /\ q \in new
        BY <2>5, <2>7, <3>2
      <3>3. CASE r \in new /\ q \in reports
        <4>1. Gaps!MissingNumbers(q) \cap Gaps!MissingNumbers(r) = {}
          BY <2>5, <2>7, <3>3
        <4>. QED  BY <4>1
      <3>4. CASE r \in new /\ q \in new
        BY <2>4, <2>7, <3>4
      <3>. QED  BY <2>2, <3>1, <3>2, <3>3, <3>4
    <2>. QED  BY <2>7 DEF Gaps!ReportsDisjoint
  <1>. QED  BY <1>1, <1>2

(* The gap detector's invariant holds at the start.                        *)
LEMMA GapsInitIInv == Gaps!Init => Gaps!IInv
  BY DEF Gaps!Init, Gaps!IInv, Gaps!TypeOK, Gaps!StreamPosition, Gaps!NewPosition, Gaps!PositionsSummarise,
         Gaps!ReportsBehindPosition, Gaps!Coverage, Gaps!ReportsDisjoint

(* An observation, or none, keeps the strengthened invariant.              *)
LEMMA GapsInductiveStep ==
    ASSUME Gaps!IInv, [Gaps!Next]_(Gaps!vars)
    PROVE  Gaps!IInv'
  <1>1. Gaps!TypeOK' /\ Gaps!PositionsSummarise' /\ Gaps!ReportsBehindPosition'
    BY GapsTypeStep, GapsPositionsStep, GapsReportsStep
  <1>2. Gaps!Coverage' /\ Gaps!ReportsDisjoint'
    BY GapsCoverageStep, GapsDisjointStep
  <1>. QED  BY <1>1, <1>2 DEF Gaps!IInv

(* The strengthened invariant holds in every reachable state.              *)
THEOREM GapDetectorInvariance == Gaps!Spec => []Gaps!IInv
  BY GapsInitIInv, GapsInductiveStep, PTL DEF Gaps!Spec

(* Positions, history and reports of the detector stay well typed: in      *)
(* particular no report of observe() is dated from a receipt time that     *)
(* does not exist.                                                         *)
THEOREM GapDetectorTypeCorrect == Gaps!Spec => []Gaps!TypeOK
  <1>1. Gaps!IInv => Gaps!TypeOK
    BY DEF Gaps!IInv
  <1>. QED  BY GapDetectorInvariance, <1>1, PTL

(* No silent loss: whatever the order, repetition or loss of messages,     *)
(* every number between a stream's first and its highest was observed or   *)
(* is claimed missing by a report of GapDetector.observe().                *)
THEOREM NothingMissingUnreported == Gaps!Spec => []Gaps!Coverage
  <1>1. Gaps!IInv => Gaps!Coverage
    BY DEF Gaps!IInv
  <1>. QED  BY GapDetectorInvariance, <1>1, PTL

(* No number is claimed missing twice by GapDetector.observe().            *)
THEOREM NothingCountedTwice == Gaps!Spec => []Gaps!ReportsDisjoint
  <1>1. Gaps!IInv => Gaps!ReportsDisjoint
    BY DEF Gaps!IInv
  <1>. QED  BY GapDetectorInvariance, <1>1, PTL

(* What a report claims missing lies above every number observed so far.   *)
LEMMA GapsDefiniteStep ==
    ASSUME Gaps!IInv, [Gaps!Next]_(Gaps!vars)
    PROVE  [\A r \in reports' \ reports :
              Gaps!MissingNumbers(r) \cap observed[r.stream] = {}]_(Gaps!vars)
  <1>1. CASE UNCHANGED Gaps!vars
    BY <1>1
  <1>2. CASE Gaps!Next
    <2>1. PICK s \in Streams, sequence \in SeqNumbers \cup {None}, seenAt \in Times :
              Gaps!Observe(s, sequence, seenAt)
      BY <1>2 DEF Gaps!Next
    <2>2. Gaps!TypeOK /\ Gaps!PositionsSummarise
      BY DEF Gaps!IInv
    <2>3. ASSUME NEW r \in reports' \ reports
          PROVE  Gaps!MissingNumbers(r) \cap observed[r.stream] = {}
      <3>1. r \in Gaps!SequenceGap(s, positions[s], sequence, seenAt)
        BY <2>1, <2>3 DEF Gaps!Observe
      <3>2. /\ r.stream = s
            /\ positions[s].lastSequence \in Nat
            /\ r.expected = positions[s].lastSequence + 1
            /\ r.actual \in Nat
        BY <2>2, <3>1, NewReportFacts DEF Gaps!GapReport
      <3>3. \A n \in observed[s] : n \in Nat /\ n <= positions[s].lastSequence
        BY <2>2, <3>2 DEF Gaps!PositionsSummarise, Gaps!TypeOK
      <3>. QED  BY <3>2, <3>3 DEF Gaps!MissingNumbers
    <2>. QED  BY <2>3
  <1>. QED  BY <1>1, <1>2

(* A sequence-gap report is evidence: none of the numbers it claims        *)
(* missing had been received when observe() returned it.                   *)
THEOREM GapReportsDefinite == Gaps!Spec => Gaps!ReportsAreDefinite
  BY GapDetectorInvariance, GapsDefiniteStep, PTL DEF Gaps!Spec, Gaps!ReportsAreDefinite

HIDE DetectorAssumption DEF Gaps!GapDetectorAssumption

----------------------------------------------------------------------------
(* The counters: what a step adds keeps their types.                       *)
LEMMA OneCounted ==
    ASSUME NEW m \in RecorderMetrics, NEW n \in Nat
    PROVE  /\ [m EXCEPT !.received = @ + 1] \in RecorderMetrics
           /\ [m EXCEPT !.archived = @ + 1] \in RecorderMetrics
           /\ [m EXCEPT !.parsed = @ + 1] \in RecorderMetrics
           /\ [m EXCEPT !.control = @ + 1] \in RecorderMetrics
           /\ [m EXCEPT !.invalid = @ + 1] \in RecorderMetrics
           /\ [m EXCEPT !.duplicates = @ + 1] \in RecorderMetrics
           /\ [m EXCEPT !.gaps = @ + n] \in RecorderMetrics
           /\ [m EXCEPT !.persistFailures = @ + 1] \in RecorderMetrics
           /\ [m EXCEPT !.marketWritten = @ + n] \in RecorderMetrics
           /\ [m EXCEPT !.traderWritten = @ + n] \in RecorderMetrics
  <1>1. [m EXCEPT !.received = @ + 1] \in RecorderMetrics
    BY DEF RecorderMetrics
  <1>2. [m EXCEPT !.archived = @ + 1] \in RecorderMetrics
    BY DEF RecorderMetrics
  <1>3. [m EXCEPT !.parsed = @ + 1] \in RecorderMetrics
    BY DEF RecorderMetrics
  <1>4. [m EXCEPT !.control = @ + 1] \in RecorderMetrics
    BY DEF RecorderMetrics
  <1>5. [m EXCEPT !.invalid = @ + 1] \in RecorderMetrics
    BY DEF RecorderMetrics
  <1>6. [m EXCEPT !.duplicates = @ + 1] \in RecorderMetrics
    BY DEF RecorderMetrics
  <1>7. [m EXCEPT !.gaps = @ + n] \in RecorderMetrics
    BY DEF RecorderMetrics
  <1>8. [m EXCEPT !.persistFailures = @ + 1] \in RecorderMetrics
    BY DEF RecorderMetrics
  <1>9. [m EXCEPT !.marketWritten = @ + n] \in RecorderMetrics
    BY DEF RecorderMetrics
  <1>10. [m EXCEPT !.traderWritten = @ + n] \in RecorderMetrics
    BY DEF RecorderMetrics
  <1>. QED  BY <1>1, <1>2, <1>3, <1>4, <1>5, <1>6, <1>7, <1>8, <1>9, <1>10

(* Counting a frame at two counters keeps the metrics typed.               *)
LEMMA TwoCounted ==
    ASSUME NEW m \in RecorderMetrics
    PROVE  /\ [m EXCEPT !.received = @ + 1, !.archived = @ + 1] \in RecorderMetrics
           /\ [m EXCEPT !.received = @ + 1, !.persistFailures = @ + 1] \in RecorderMetrics
           /\ [m EXCEPT !.parsed = @ + 1, !.control = @ + 1] \in RecorderMetrics
           /\ [m EXCEPT !.parsed = @ + 1, !.invalid = @ + 1] \in RecorderMetrics
  <1>1. [m EXCEPT !.received = @ + 1, !.archived = @ + 1] \in RecorderMetrics
    <2> DEFINE m1 == [m EXCEPT !.received = @ + 1]
    <2>1. m1 \in RecorderMetrics /\ m1.archived = m.archived
      BY OneCounted DEF RecorderMetrics
    <2>2. [m1 EXCEPT !.archived = m1.archived + 1] \in RecorderMetrics
      BY <2>1, OneCounted
    <2>. QED  BY <2>1, <2>2
  <1>2. [m EXCEPT !.received = @ + 1, !.persistFailures = @ + 1] \in RecorderMetrics
    <2> DEFINE m1 == [m EXCEPT !.received = @ + 1]
    <2>1. m1 \in RecorderMetrics /\ m1.persistFailures = m.persistFailures
      BY OneCounted DEF RecorderMetrics
    <2>2. [m1 EXCEPT !.persistFailures = m1.persistFailures + 1] \in RecorderMetrics
      BY <2>1, OneCounted
    <2>. QED  BY <2>1, <2>2
  <1>3. [m EXCEPT !.parsed = @ + 1, !.control = @ + 1] \in RecorderMetrics
    <2> DEFINE m1 == [m EXCEPT !.parsed = @ + 1]
    <2>1. m1 \in RecorderMetrics /\ m1.control = m.control
      BY OneCounted DEF RecorderMetrics
    <2>2. [m1 EXCEPT !.control = m1.control + 1] \in RecorderMetrics
      BY <2>1, OneCounted
    <2>. QED  BY <2>1, <2>2
  <1>4. [m EXCEPT !.parsed = @ + 1, !.invalid = @ + 1] \in RecorderMetrics
    <2> DEFINE m1 == [m EXCEPT !.parsed = @ + 1]
    <2>1. m1 \in RecorderMetrics /\ m1.invalid = m.invalid
      BY OneCounted DEF RecorderMetrics
    <2>2. [m1 EXCEPT !.invalid = m1.invalid + 1] \in RecorderMetrics
      BY <2>1, OneCounted
    <2>. QED  BY <2>1, <2>2
  <1>. QED  BY <1>1, <1>2, <1>3, <1>4

(* Counting an event and its gaps keeps the metrics typed.                 *)
LEMMA EventCounted ==
    ASSUME NEW m \in RecorderMetrics, NEW n \in Nat, NEW v \in Verdicts
    PROVE  [m EXCEPT !.gaps = @ + n, !.quality[v] = @ + 1] \in RecorderMetrics
  <1> DEFINE m1 == [m EXCEPT !.gaps = @ + n]
  <1>1. m1 \in RecorderMetrics /\ m1.quality = m.quality
    BY OneCounted DEF RecorderMetrics
  <1>2. [m.quality EXCEPT ![v] = m.quality[v] + 1] \in [Verdicts -> Nat]
    BY DEF RecorderMetrics
  <1>3. [m1 EXCEPT !.quality = [m.quality EXCEPT ![v] = m.quality[v] + 1]] \in RecorderMetrics
    BY <1>1, <1>2 DEF RecorderMetrics
  <1>. QED  BY <1>1, <1>3

USE FramesAssumption

----------------------------------------------------------------------------
(* The inductive invariant, part by part.                                  *)

InFrame == {"parsing", "accepting", "traders", "checking"}

(* The receive counter numbers the frames delivered; only frames delivered *)
(* are in the archive.                                                     *)
Numbered ==
    /\ now \in Times
    /\ {"received", "persistFailures"} \subseteq DOMAIN metrics
    /\ {"raw", "market", "trader", "gaps"} \subseteq DOMAIN sink
    /\ metrics.received = Len(delivered)
    /\ metrics.persistFailures \in Nat
    /\ delivered \in Seq(Frames)
    /\ Len(delivered) <= MaxFrames
    /\ sink.raw \subseteq 1 .. Len(delivered)

(* A frame is worked on only once its payload is archived, at a known      *)
(* receipt time.                                                           *)
ArchivedFirst ==
    pc \in InFrame => rawId \in sink.raw /\ lastDataAt \in Times

(* What is still to accept comes from the frame in hand.                   *)
OfFrame(e) == \E i \in DOMAIN frame.events : frame.events[i] = e

PendingOfFrame ==
    pc = "accepting" =>
        /\ pending \in Seq(AllEvents)
        /\ accepted \in Seq(AllEvents)
        /\ \A i \in 1 .. Len(pending) : OfFrame(pending[i])

(* No frame before the recorder is open; HEALTHY or DEGRADED from then on. *)
Running ==
    /\ pc = "opening" => delivered = <<>>
    /\ pc \notin {"opening", "raised"} => state \in {"HEALTHY", "DEGRADED"}

(* Rows are owed for frames delivered; those of the frame in hand are the  *)
(* accepted ones until they are written, and stored after that.            *)
OwedInOrder ==
    /\ \A row \in owed : row.raw \in 1 .. rawId
    /\ pc = "parsing" => \A row \in owed : row.raw # rawId
    /\ pc = "accepting" => \A row \in owed : row.raw = rawId => row \in MarketRows
    /\ pc \in {"traders", "checking"} => ~ LacksMarketRow(rawId)

Handling ==
    /\ Numbered
    /\ ArchivedFirst
    /\ PendingOfFrame
    /\ Running
    /\ OwedInOrder

----------------------------------------------------------------------------
(* Nothing is being handled at the start.                                  *)
LEMMA InitHandling == Init => Handling
  BY DEF Init, Handling, Numbered, ArchivedFirst, PendingOfFrame, Running, OwedInOrder,
         InFrame, Times

(* _degrade() leaves HEALTHY for DEGRADED, and DEGRADED alone.             *)
LEMMA DegradedIs ==
    ASSUME state \in {"HEALTHY", "DEGRADED"}
    PROVE  Degraded = "DEGRADED"
  BY DEF Degraded, CanTransition, PERMITTED

(* The frame in hand is a frame of the source.                             *)
LEMMA FrameIsDelivered ==
    ASSUME Numbered, rawId >= 1
    PROVE  frame \in Frames /\ rawId \in DOMAIN delivered
  BY DEF Numbered, frame, rawId

(* What a step between two frames, or inside one, leaves alone.            *)
Kept ==
    /\ UNCHANGED <<delivered, sink>>
    /\ metrics'.received = metrics.received
    /\ metrics'.persistFailures = metrics.persistFailures
    /\ {"received", "persistFailures"} \subseteq DOMAIN metrics'

(* The steps that neither deliver a frame nor write to the sink.           *)
Quiet ==
    \/ Tick \/ Open \/ Parse \/ DropDuplicate \/ CheckFreshness \/ MonitorPass \/ Finish
    \/ UNCHANGED vars

(* A quiet step leaves all of this alone.                                  *)
LEMMA QuietKeeps ==
    ASSUME Numbered, Quiet
    PROVE  Kept
  BY DEF Numbered, Quiet, Kept, Tick, Open, Parse, ParseFails, ControlFrame, NormalizationFails,
         SchemaRejects, Normalize, DropDuplicate, CheckFreshness,
         MonitorPass, Finish, vars, frameVars

(* A step is quiet, or one of three.                                       *)
LEMMA NextCases ==
    ASSUME [Next]_vars
    PROVE  \/ Quiet
           \/ \E f \in Frames : Receive(f)
           \/ AcceptEvent
           \/ Persist
  BY DEF Next, Quiet

(* A frame received gets the next number; it may or may not be archived.   *)
LEMMA ReceiveNumbers ==
    ASSUME Numbered, NEW f \in Frames, Receive(f)
    PROVE  /\ delivered' = Append(delivered, f)
           /\ metrics'.received = rawId + 1
           /\ {"received", "persistFailures"} \subseteq DOMAIN metrics'
           /\ sink' \in {sink, WithRaw}
           /\ \/ pc' = "parsing" /\ sink' = WithRaw
                 /\ UNCHANGED state /\ metrics'.persistFailures = metrics.persistFailures
              \/ pc' = "receiving" /\ state' = Degraded
                 /\ metrics'.persistFailures = metrics.persistFailures + 1
  BY DEF Numbered, Receive, Archived, ArchiveRaises, WriteRaises, rawId

(* The steps that store what the frame in hand gave.                       *)
LEMMA StoringKeeps ==
    ASSUME Numbered, AcceptEvent \/ Persist
    PROVE  /\ UNCHANGED <<delivered, now, lastDataAt>>
           /\ metrics'.received = metrics.received
           /\ {"received", "persistFailures"} \subseteq DOMAIN metrics'
           /\ metrics'.persistFailures \in {metrics.persistFailures, metrics.persistFailures + 1}
           /\ {"raw", "market", "trader", "gaps"} \subseteq DOMAIN sink'
           /\ sink'.raw = sink.raw
  <1>1. CASE AcceptEvent
    BY <1>1 DEF Numbered, AcceptEvent, Accepted, GapWriteRaises, WriteRaises
  <1>2. CASE PersistMarket
    BY <1>2 DEF Numbered, PersistMarket, frameVars
  <1>3. CASE MarketWriteFails
    BY <1>3 DEF Numbered, MarketWriteFails, WriteRaises, CountFailure, frameVars
  <1>4. CASE PersistTraders
    BY <1>4 DEF Numbered, PersistTraders, frameVars
  <1>5. CASE TraderWriteFails
    BY <1>5 DEF Numbered, TraderWriteFails, WriteRaises, CountFailure, frameVars
  <1>. QED  BY <1>1, <1>2, <1>3, <1>4, <1>5 DEF Persist

(* Every step keeps the frames numbered.                                   *)
LEMMA NumberedStep ==
    ASSUME Numbered, [Next]_vars
    PROVE  Numbered'
  <1>1. CASE Quiet
    <2>1. now' \in Times
      BY <1>1 DEF Numbered, Quiet, Tick, Open, Parse, ParseFails, ControlFrame,
                  NormalizationFails, SchemaRejects, Normalize, DropDuplicate, CheckFreshness,
                  MonitorPass,
                  Finish, vars, Times
    <2>. QED  BY <1>1, <2>1, QuietKeeps DEF Numbered, Kept
  <1>2. CASE \E f \in Frames : Receive(f)
    <2>1. PICK f \in Frames : Receive(f)
      BY <1>2
    <2>2. Len(delivered) < MaxFrames /\ UNCHANGED now
      BY <2>1 DEF Receive
    <2>3. /\ delivered' \in Seq(Frames)
          /\ Len(delivered') = Len(delivered) + 1
      BY <2>1, ReceiveNumbers DEF Numbered
    <2>4. /\ {"raw", "market", "trader", "gaps"} \subseteq DOMAIN sink'
          /\ sink'.raw \subseteq 1 .. (Len(delivered) + 1)
      <3>1. Len(delivered) \in Nat /\ sink.raw \subseteq 1 .. (Len(delivered) + 1)
        BY DEF Numbered
      <3>2. CASE sink' = sink
        BY <3>1, <3>2 DEF Numbered
      <3>3. CASE sink' = WithRaw
        <4>1. /\ sink'.raw = sink.raw \cup {Len(delivered) + 1}
              /\ DOMAIN sink' = DOMAIN sink
          BY <3>3 DEF Numbered, WithRaw, rawId
        <4>. QED  BY <3>1, <4>1 DEF Numbered
      <3>. QED  BY <2>1, <3>2, <3>3, ReceiveNumbers
    <2>5. /\ {"received", "persistFailures"} \subseteq DOMAIN metrics'
          /\ metrics'.received = Len(delivered) + 1
          /\ metrics'.persistFailures \in Nat
      BY <2>1, ReceiveNumbers DEF Numbered, rawId
    <2>. QED  BY <2>2, <2>3, <2>4, <2>5 DEF Numbered
  <1>3. CASE AcceptEvent \/ Persist
    BY <1>3, StoringKeeps DEF Numbered
  <1>. QED  BY <1>1, <1>2, <1>3, NextCases

(* Every step keeps the archive ahead of the rows.                         *)
LEMMA ArchivedFirstStep ==
    ASSUME Numbered, ArchivedFirst, [Next]_vars
    PROVE  ArchivedFirst'
  <1>1. CASE Quiet
    <2>1. UNCHANGED lastDataAt /\ (pc' \in InFrame => pc \in InFrame)
      BY <1>1 DEF Quiet, Tick, Open, Parse, ParseFails, ControlFrame, NormalizationFails,
                  SchemaRejects, Normalize, DropDuplicate, CheckFreshness,
                  MonitorPass, Finish, vars, InFrame
    <2>. QED  BY <1>1, <2>1, QuietKeeps DEF ArchivedFirst, Kept, rawId
  <1>2. CASE \E f \in Frames : Receive(f)
    <2>1. PICK f \in Frames : Receive(f)
      BY <1>2
    <2>2. lastDataAt' = now
      BY <2>1 DEF Receive
    <2>3. pc' \in InFrame => rawId' \in sink'.raw
      BY <2>1, ReceiveNumbers DEF Numbered, WithRaw, rawId, InFrame
    <2>. QED  BY <2>2, <2>3 DEF Numbered, ArchivedFirst
  <1>3. CASE AcceptEvent \/ Persist
    <2>1. pc \in InFrame
      BY <1>3 DEF AcceptEvent, Persist, PersistMarket, MarketWriteFails, PersistTraders,
                  TraderWriteFails, InFrame
    <2>. QED  BY <1>3, <2>1, StoringKeeps DEF ArchivedFirst, rawId
  <1>. QED  BY <1>1, <1>2, <1>3, NextCases

(* What is left of a sequence once its head is taken.                      *)
LEMMA TailFacts ==
    ASSUME NEW S, NEW q \in Seq(S), q # <<>>
    PROVE  /\ Head(q) \in S /\ Head(q) = q[1]
           /\ Tail(q) \in Seq(S)
           /\ Len(Tail(q)) = Len(q) - 1
           /\ \A i \in 1 .. Len(Tail(q)) : Tail(q)[i] = q[i + 1]
  OBVIOUS

(* Every step keeps what is pending part of the frame in hand.             *)
LEMMA PendingStep ==
    ASSUME Numbered, ArchivedFirst, PendingOfFrame, [Next]_vars
    PROVE  PendingOfFrame'
  <1> SUFFICES ASSUME pc' = "accepting"
               PROVE  PendingOfFrame'
    BY DEF PendingOfFrame
  <1>1. CASE Normalize
    <2>1. frame \in Frames
      BY <1>1, FrameIsDelivered DEF Normalize, ArchivedFirst, InFrame, Numbered, rawId
    <2>2. /\ pending' = frame.events /\ accepted' = <<>>
          /\ frame' = frame
      BY <1>1 DEF Normalize, frame, rawId, Numbered
    <2>. QED  BY <2>1, <2>2 DEF PendingOfFrame, OfFrame
  <1>2. CASE DropDuplicate \/ AcceptEvent
    <2>1. /\ pc = "accepting" /\ pending # <<>>
          /\ pending' = Tail(pending)
          /\ accepted' \in {accepted, Append(accepted, Head(pending))}
          /\ UNCHANGED delivered
      BY <1>2 DEF DropDuplicate, AcceptEvent, Accepted, GapWriteRaises
    <2>2. frame' = frame
      <3>1. metrics'.received = metrics.received
        BY <1>2, QuietKeeps, StoringKeeps DEF Quiet, Kept
      <3>. QED  BY <2>1, <3>1 DEF frame, rawId
    <2>3. pending \in Seq(AllEvents) /\ accepted \in Seq(AllEvents)
      BY <2>1 DEF PendingOfFrame
    <2>4. /\ pending' \in Seq(AllEvents) /\ accepted' \in Seq(AllEvents)
          /\ Head(pending) \in AllEvents
          /\ Len(pending') = Len(pending) - 1
          /\ \A i \in 1 .. Len(pending') : pending'[i] = pending[i + 1]
      <3>1. /\ Head(pending) \in AllEvents
            /\ Tail(pending) \in Seq(AllEvents)
            /\ Len(Tail(pending)) = Len(pending) - 1
            /\ \A i \in 1 .. Len(Tail(pending)) : Tail(pending)[i] = pending[i + 1]
        BY <2>1, <2>3, TailFacts
      <3>2. Append(accepted, Head(pending)) \in Seq(AllEvents)
        BY <2>3, <3>1
      <3>. QED  BY <2>1, <2>3, <3>1, <3>2
    <2>5. \A i \in 1 .. Len(pending') : OfFrame(pending'[i])
      BY <2>1, <2>3, <2>4 DEF PendingOfFrame
    <2>. QED  BY <2>2, <2>4, <2>5 DEF PendingOfFrame, OfFrame
  <1>3. CASE Tick \/ MonitorPass \/ UNCHANGED vars
    BY <1>3 DEF PendingOfFrame, OfFrame, frame, rawId, Tick, MonitorPass, vars, frameVars
  <1>. QED
    BY <1>1, <1>2, <1>3 DEF Next, Open, Receive, Archived, ArchiveRaises, Parse, ParseFails,
         ControlFrame, NormalizationFails, SchemaRejects, Persist, PersistMarket,
         MarketWriteFails, PersistTraders, TraderWriteFails, CheckFreshness, Finish

(* Every step keeps the stages in step with the run.                       *)
LEMMA RunningStep ==
    ASSUME Running, [Next]_vars
    PROVE  Running'
  <1>1. CASE pc \in {"opening", "raised"}
    BY <1>1 DEF Running, frameVars, Next, Tick, Open, Receive, Parse, ParseFails, ControlFrame,
                NormalizationFails, SchemaRejects, Normalize, DropDuplicate, AcceptEvent, Persist,
                PersistMarket, MarketWriteFails, PersistTraders, TraderWriteFails,
                CheckFreshness, MonitorPass, Finish, vars, OpeningPath
  <1>2. CASE pc \notin {"opening", "raised"}
    <2>1. state \in {"HEALTHY", "DEGRADED"} /\ Degraded = "DEGRADED"
      BY <1>2, DegradedIs DEF Running
    <2>2. state' \in {"HEALTHY", "DEGRADED"}
      BY <1>2, <2>1 DEF Next, Tick, Open, Receive, Archived, ArchiveRaises, Parse, ParseFails,
                ControlFrame, NormalizationFails, SchemaRejects, Normalize, DropDuplicate,
                AcceptEvent, Persist, PersistMarket, MarketWriteFails, PersistTraders,
                TraderWriteFails, CheckFreshness, MonitorPass, MonitorRecovers, MonitorDegrades,
                Finish, vars
    <2>3. pc' # "opening"
      BY <1>2 DEF Next, Tick, Open, Receive, Archived, ArchiveRaises, Parse, ParseFails,
                ControlFrame, NormalizationFails, SchemaRejects, Normalize, DropDuplicate,
                AcceptEvent, Accepted, GapWriteRaises, Persist, PersistMarket, MarketWriteFails,
                PersistTraders, TraderWriteFails, CheckFreshness, MonitorPass, Finish, vars
    <2>. QED  BY <2>2, <2>3 DEF Running
  <1>. QED  BY <1>1, <1>2

(* Rows stored stay stored, so a frame that lacks none still lacks none.   *)
LEMMA NoNewLack ==
    ASSUME NEW id, UNCHANGED owed, sink.market \subseteq sink'.market, LacksMarketRow(id)'
    PROVE  LacksMarketRow(id)
  BY DEF LacksMarketRow

(* Storing the accepted rows leaves none of the frame's rows lacking.      *)
LEMMA AllRowsStored ==
    ASSUME Numbered, OwedInOrder, PersistMarket
    PROVE  ~ LacksMarketRow(rawId)'
  <1>1. sink'.market = sink.market \cup MarketRows
    BY DEF PersistMarket, Numbered
  <1>2. UNCHANGED owed /\ rawId' = rawId /\ pc = "accepting"
    BY StoringKeeps DEF PersistMarket, Persist, frameVars, rawId
  <1>3. \A row \in owed : row.raw = rawId => row \in MarketRows
    BY <1>2 DEF OwedInOrder
  <1>. QED  BY <1>1, <1>2, <1>3 DEF LacksMarketRow

(* Every step keeps what is owed to the sinks.                             *)
LEMMA OwedStep ==
    ASSUME Numbered, ArchivedFirst, PendingOfFrame, OwedInOrder, [Next]_vars
    PROVE  OwedInOrder'
  <1>1. CASE Quiet
    <2>1. UNCHANGED owed /\ rawId' = rawId /\ sink' = sink
      BY <1>1, QuietKeeps DEF Kept, rawId, Quiet, Tick, Open, Parse, ParseFails, ControlFrame,
                NormalizationFails, SchemaRejects, Normalize, DropDuplicate, CheckFreshness,
                MonitorPass,
                Finish, vars, frameVars
    <2>2. CASE Normalize
      BY <2>1, <2>2 DEF OwedInOrder, Normalize, MarketRows
    <2>3. CASE ~ Normalize
      <3>1. /\ pc' = pc \/ pc' \notin InFrame
            /\ UNCHANGED accepted
        BY <1>1, <2>3 DEF Quiet, Tick, Open, Parse, ParseFails, ControlFrame,
                NormalizationFails, SchemaRejects, DropDuplicate, CheckFreshness, MonitorPass,
                Finish, vars, frameVars, InFrame
      <3>. QED  BY <2>1, <3>1 DEF OwedInOrder, MarketRows, LacksMarketRow, InFrame
    <2>. QED  BY <2>2, <2>3
  <1>2. CASE \E f \in Frames : Receive(f)
    <2>1. PICK f \in Frames : Receive(f)
      BY <1>2
    <2>2. /\ UNCHANGED owed /\ rawId' = rawId + 1 /\ rawId \in Nat
          /\ pc' \in {"parsing", "receiving"}
      BY <2>1, ReceiveNumbers DEF Receive, rawId, Numbered
    <2>. QED  BY <2>2 DEF OwedInOrder
  <1>3. CASE AcceptEvent
    <2>1. /\ pc = "accepting" /\ rawId' = rawId /\ rawId \in sink.raw
          /\ sink'.raw = sink.raw
      BY <1>3, StoringKeeps DEF AcceptEvent, rawId, ArchivedFirst, InFrame
    <2>2. rawId \in 1 .. rawId
      BY <2>1 DEF Numbered, rawId
    <2> DEFINE e == Head(pending)
               row == [event |-> e, raw |-> rawId]
    <2>3. CASE Accepted(e)
      <3>1. pc' = pc /\ accepted' = Append(accepted, e) /\ owed' = owed \cup {row}
        BY <2>3 DEF Accepted
      <3>2. accepted \in Seq(AllEvents) /\ e \in AllEvents
        BY <1>3, <2>1, TailFacts DEF PendingOfFrame, AcceptEvent
      <3>3. MarketRows' = MarketRows \cup {row}
        <4>1. /\ DOMAIN accepted' = DOMAIN accepted \cup {Len(accepted) + 1}
              /\ \A i \in DOMAIN accepted : accepted'[i] = accepted[i]
              /\ accepted'[Len(accepted) + 1] = e
          <5>. HIDE DEF AllEvents, e
          <5>. QED  BY <3>1, <3>2
        <4>. QED  BY <2>1, <4>1 DEF MarketRows
      <3>4. row.raw = rawId
        OBVIOUS
      <3>5. \A q \in owed' : q.raw \in 1 .. rawId'
        BY <2>1, <2>2, <3>1, <3>4 DEF OwedInOrder
      <3>6. \A q \in owed' : q.raw = rawId' => q \in MarketRows'
        BY <2>1, <3>1, <3>3 DEF OwedInOrder
      <3>. QED  BY <2>1, <3>1, <3>5, <3>6 DEF OwedInOrder
    <2>4. CASE GapWriteRaises(e)
      <3>1. pc' = "raised" /\ UNCHANGED owed
        BY <2>4 DEF GapWriteRaises
      <3>. QED  BY <2>1, <3>1 DEF OwedInOrder
    <2>. QED  BY <1>3, <2>3, <2>4 DEF AcceptEvent
  <1>4. CASE Persist
    <2>1. UNCHANGED owed /\ rawId' = rawId
      BY <1>4, StoringKeeps DEF rawId, Persist, PersistMarket, MarketWriteFails,
                PersistTraders, TraderWriteFails, frameVars
    <2>2. CASE PersistMarket
      <3>1. pc' = "traders"
        BY <2>2 DEF PersistMarket
      <3>. QED  BY <2>1, <2>2, <3>1, AllRowsStored DEF OwedInOrder
    <2>3. CASE MarketWriteFails
      BY <2>1, <2>3 DEF OwedInOrder, MarketWriteFails
    <2>4. CASE PersistTraders \/ TraderWriteFails
      <3>1. pc = "traders" /\ pc' = "checking" /\ sink'.market = sink.market
        BY <2>4 DEF Numbered, PersistTraders, TraderWriteFails, WriteRaises
      <3>. QED  BY <2>1, <3>1 DEF OwedInOrder, LacksMarketRow
    <2>. QED  BY <1>4, <2>2, <2>3, <2>4 DEF Persist
  <1>. QED  BY <1>1, <1>2, <1>3, <1>4, NextCases

(* Every step preserves the invariant of a frame in hand.                  *)
LEMMA HandlingStep ==
    ASSUME Handling, [Next]_vars
    PROVE  Handling'
  BY NumberedStep, ArchivedFirstStep, PendingStep, RunningStep, OwedStep
     DEF Handling

(* The inductive invariant of a frame in hand holds throughout.            *)
THEOREM HandlingInvariance == Spec => []Handling
  BY InitHandling, HandlingStep, PTL DEF Spec

(* No step but the monitor's ends HEALTHY with a loss just handled.         *)
LEMMA LossVisibleStep ==
    ASSUME Handling, [Next]_vars, HealthyAfterLoss'
    PROVE  \/ HealthyAfterLoss
           \/ pc = "receiving" /\ rawId' = rawId /\ ~ IsSilent /\ StaleStreams = {}
  <1>1. /\ pc' = "receiving" /\ delivered' # <<>> /\ state' = "HEALTHY"
        /\ LacksPayload(rawId)' \/ LacksMarketRow(rawId)'
    BY DEF HealthyAfterLoss
  <1>2. CASE pc \in InFrame /\ Quiet
    <2>1. UNCHANGED <<owed, sink>> /\ rawId' = rawId
      BY <1>2, QuietKeeps DEF Handling, Kept, rawId, Quiet, Tick, Open, Parse, ParseFails,
                ControlFrame, NormalizationFails, SchemaRejects, Normalize, DropDuplicate,
                CheckFreshness, MonitorPass, Finish, vars, frameVars
    <2>2. pc \in {"parsing", "checking"}
      BY <1>1, <1>2 DEF InFrame, Quiet, Tick, Open, Parse, ParseFails, ControlFrame,
                NormalizationFails, SchemaRejects, Normalize, DropDuplicate, CheckFreshness,
                MonitorPass, Finish, vars
    <2>3. ~ LacksMarketRow(rawId) /\ ~ LacksPayload(rawId)
      BY <2>2 DEF Handling, OwedInOrder, ArchivedFirst, LacksMarketRow, LacksPayload, InFrame
    <2>. QED  BY <1>1, <2>1, <2>3 DEF LacksMarketRow, LacksPayload
  <1>3. CASE pc = "receiving" /\ Quiet
    <2>1. UNCHANGED <<owed, sink, delivered>> /\ rawId' = rawId
      BY <1>3, QuietKeeps DEF Handling, Kept, rawId, Quiet, Tick, Open, Parse, ParseFails,
                ControlFrame, NormalizationFails, SchemaRejects, Normalize, DropDuplicate,
                CheckFreshness, MonitorPass, Finish, vars, frameVars
    <2>2. LacksPayload(rawId) \/ LacksMarketRow(rawId)
      BY <1>1, <2>1 DEF LacksMarketRow, LacksPayload
    <2>3. CASE MonitorPass
      BY <1>1, <1>3, <2>1, <2>3 DEF MonitorPass, MonitorRecovers, MonitorDegrades
    <2>4. CASE ~ MonitorPass
      <3>1. UNCHANGED state
        BY <1>1, <1>3, <2>4 DEF Quiet, Tick, Open, Parse, ParseFails, ControlFrame,
                  NormalizationFails, SchemaRejects, Normalize, DropDuplicate, CheckFreshness,
                  Finish, vars
      <3>. QED  BY <1>1, <1>3, <2>1, <2>2, <3>1 DEF HealthyAfterLoss
    <2>. QED  BY <2>3, <2>4
  <1>4. CASE pc \notin InFrame \cup {"receiving"} /\ Quiet
    <2>1. pc = "opening" /\ Open
      BY <1>1, <1>4 DEF InFrame, Quiet, Tick, Open, Parse, ParseFails, ControlFrame,
                NormalizationFails, SchemaRejects, Normalize, DropDuplicate, CheckFreshness,
                MonitorPass, Finish, vars
    <2>. QED  BY <1>1, <2>1 DEF Open, frameVars, Handling, Running
  <1>5. CASE \E f \in Frames : Receive(f)
    <2>1. PICK f \in Frames : Receive(f)
      BY <1>5
    <2>2. pc = "receiving" /\ state' = Degraded
      BY <1>1, <2>1, ReceiveNumbers DEF Handling, Receive
    <2>. QED  BY <1>1, <2>2, DegradedIs DEF Handling, Running
  <1>6. CASE AcceptEvent
    BY <1>1, <1>6 DEF AcceptEvent, Accepted, GapWriteRaises
  <1>7. CASE Persist
    <2>1. MarketWriteFails
      BY <1>1, <1>7 DEF Persist, PersistMarket, PersistTraders, TraderWriteFails
    <2>. QED  BY <1>1, <2>1, DegradedIs DEF Handling, Running, MarketWriteFails
  <1>. QED  BY <1>2, <1>3, <1>4, <1>5, <1>6, <1>7, NextCases

(* A loss is made visible: whatever was delivered, whichever writes raised *)
(* and whatever the monitor does beside it, _handle() leaves no frame that *)
(* lost its payload or a market row in HEALTHY; only the monitor, between  *)
(* two frames and on a live connection with fresh streams, returns there.  *)
THEOREM LossIsVisible == Spec => LossVisible
  <1>1. Handling /\ [Next]_vars =>
          [HealthyAfterLoss' =>
              \/ HealthyAfterLoss
              \/ pc = "receiving" /\ rawId' = rawId /\ ~ IsSilent /\ StaleStreams = {}]_vars
    BY LossVisibleStep
  <1>. QED  BY HandlingInvariance, <1>1, PTL DEF Spec, LossVisible

----------------------------------------------------------------------------
(* The recorder implements EvidenceArchive.                                *)

DerivedFrom(stored) == {row.raw : row \in stored.market} \cup stored.trader

(* A step that adds at most the frame in hand to what is derived.          *)
LEMMA DerivesFrame ==
    ASSUME Handling, pc \in InFrame, sink'.raw = sink.raw,
           DerivedFrom(sink') \in {DerivedFrom(sink), DerivedFrom(sink) \cup {rawId}}
    PROVE  [Evidence!Next]_(Evidence!vars)
  <1>1. rawId \in sink.raw /\ sink.raw \subseteq 1 .. MaxFrames
    BY DEF Handling, ArchivedFirst, Numbered
  <1>2. CASE DerivedFrom(sink') = DerivedFrom(sink)
    BY <1>2 DEF DerivedFrom, Evidence!vars
  <1>3. CASE DerivedFrom(sink') = DerivedFrom(sink) \cup {rawId}
    <2>1. {rawId} \in SUBSET (1 .. MaxFrames) /\ {rawId} \subseteq sink.raw
      BY <1>1
    <2>2. \E fs \in SUBSET (1 .. MaxFrames) : Evidence!Derive(fs)
      BY <1>3, <2>1 DEF DerivedFrom, Evidence!Derive
    <2>. QED  BY <2>2 DEF Evidence!Next
  <1>. QED  BY <1>2, <1>3

(* The recorder starts as the evidence archive does.                       *)
LEMMA RefinementInit == Init => Evidence!Init
  BY DEF Init, Evidence!Init

(* A step of the recorder is one of the evidence archive, or none.         *)
LEMMA RefinementStep ==
    ASSUME Handling, [Next]_vars
    PROVE  [Evidence!Next]_(Evidence!vars)
  <1>1. Numbered
    BY DEF Handling
  <1>2. CASE Quiet
    BY <1>1, <1>2, QuietKeeps DEF Kept, Evidence!vars
  <1>3. CASE \E f \in Frames : Receive(f)
    <2>1. PICK f \in Frames : Receive(f)
      BY <1>3
    <2>2. CASE sink' = sink
      BY <2>2 DEF Evidence!vars
    <2>3. CASE sink' = WithRaw
      <3>1. /\ sink'.raw = sink.raw \cup {rawId + 1}
            /\ sink'.market = sink.market /\ sink'.trader = sink.trader
        BY <1>1, <2>3 DEF WithRaw, Numbered
      <3>2. rawId + 1 \in 1 .. MaxFrames
        BY <1>1, <2>1 DEF Receive, Numbered, rawId
      <3>3. \E id \in 1 .. MaxFrames : Evidence!Archive(id)
        BY <3>1, <3>2 DEF Evidence!Archive
      <3>. QED  BY <3>3 DEF Evidence!Next
    <2>. QED  BY <1>1, <2>1, <2>2, <2>3, ReceiveNumbers
  <1>4. CASE AcceptEvent
    <2>1. sink'.market = sink.market /\ sink'.trader = sink.trader /\ sink'.raw = sink.raw
      BY <1>1, <1>4 DEF AcceptEvent, Accepted, GapWriteRaises, WriteRaises, Numbered
    <2>. QED  BY <2>1 DEF Evidence!vars
  <1>5. CASE PersistMarket \/ MarketWriteFails
    <2>1. /\ pc \in InFrame /\ sink'.raw = sink.raw
          /\ sink'.trader = sink.trader
          /\ sink'.market \in {sink.market, sink.market \cup MarketRows}
      BY <1>1, <1>5 DEF PersistMarket, MarketWriteFails, WriteRaises, Numbered, InFrame
    <2>2. DerivedFrom(sink') \in {DerivedFrom(sink), DerivedFrom(sink) \cup {rawId}}
      <3>1. \A row \in MarketRows : row.raw = rawId
        BY DEF MarketRows
      <3>. QED  BY <2>1, <3>1 DEF DerivedFrom
    <2>. QED  BY <2>1, <2>2, DerivesFrame
  <1>6. CASE PersistTraders \/ TraderWriteFails
    <2>1. /\ pc \in InFrame /\ sink'.raw = sink.raw
          /\ sink'.market = sink.market
          /\ sink'.trader \in {sink.trader, sink.trader \cup {rawId}}
      BY <1>1, <1>6 DEF PersistTraders, TraderWriteFails, TraderRows, WriteRaises, Numbered, InFrame
    <2>2. DerivedFrom(sink') \in {DerivedFrom(sink), DerivedFrom(sink) \cup {rawId}}
      BY <2>1 DEF DerivedFrom
    <2>. QED  BY <2>1, <2>2, DerivesFrame
  <1>. QED  BY <1>2, <1>3, <1>4, <1>5, <1>6, NextCases DEF Persist

(* The recorder implements the evidence promise: a raw frame is archived   *)
(* before any row derived from it is stored, every row stored refers to a  *)
(* frame archived before, and neither is taken back.                       *)
THEOREM RecorderKeepsEvidence == Spec => KeepsEvidence
  BY HandlingInvariance, RefinementInit, RefinementStep, PTL
     DEF Spec, KeepsEvidence, Evidence!Spec

----------------------------------------------------------------------------
(* The recorder drives the gap detector: every step of it is an            *)
(* observation or leaves the detector alone.                               *)

LEMMA HeadIsObservable ==
    ASSUME Handling, AcceptEvent
    PROVE  /\ Head(pending) \in AllEvents
           /\ Head(pending).stream \in Streams
           /\ Head(pending).sequence \in SeqNumbers \cup {None}
           /\ lastDataAt \in Times
           /\ OfFrame(Head(pending))
           /\ rawId \in sink.raw
  <1>1. pc = "accepting" /\ pending # <<>>
    BY DEF AcceptEvent
  <1>2. /\ pending \in Seq(AllEvents)
        /\ \A i \in 1 .. Len(pending) : OfFrame(pending[i])
        /\ rawId \in sink.raw /\ lastDataAt \in Times
    BY <1>1 DEF Handling, PendingOfFrame, ArchivedFirst, InFrame
  <1>3. Head(pending) \in AllEvents /\ Head(pending) = pending[1] /\ 1 \in 1 .. Len(pending)
    BY <1>1, <1>2, TailFacts
  <1>. QED  BY <1>2, <1>3

(* A step of the recorder is one of the gap detector, or none.             *)
LEMMA GapsStep ==
    ASSUME Handling, [Next]_vars
    PROVE  [Gaps!Next]_(Gaps!vars)
  <1>1. CASE AcceptEvent
    <2>1. Gaps!Observe(Head(pending).stream, Head(pending).sequence, lastDataAt)
      BY <1>1 DEF AcceptEvent, receivedAt
    <2>2. \E s \in Streams, sequence \in SeqNumbers \cup {None}, seenAt \in Times :
             Gaps!Observe(s, sequence, seenAt)
      <3>1. /\ Head(pending).stream \in Streams
            /\ Head(pending).sequence \in SeqNumbers \cup {None}
            /\ lastDataAt \in Times
        BY <1>1, HeadIsObservable
      <3>. QED
        BY <2>1, <3>1
    <2>. QED  BY <2>2 DEF Gaps!Next
  <1>2. CASE ~ AcceptEvent
    <2>1. UNCHANGED gapVars
      BY <1>2 DEF Next, Tick, Open, Receive, Parse, ParseFails, ControlFrame,
             NormalizationFails, SchemaRejects, Normalize, DropDuplicate, Persist,
             PersistMarket, MarketWriteFails, PersistTraders, TraderWriteFails,
             CheckFreshness, MonitorPass, Finish, vars
    <2>. QED  BY <2>1 DEF gapVars, Gaps!vars
  <1>. QED  BY <1>1, <1>2

(* The recorder starts as the gap detector does.                           *)
LEMMA GapsInit == Init => Gaps!Init
  BY DEF Init

(* The gap detector's invariant holds inside the recorder.                 *)
THEOREM GapsInvariance == Spec => []Gaps!IInv
  <1>1. Init => Gaps!IInv
    BY GapsInit, GapsInitIInv
  <1>2. Handling /\ Gaps!IInv /\ [Next]_vars => Gaps!IInv'
    BY GapsStep, GapsInductiveStep
  <1>. QED  BY HandlingInvariance, <1>1, <1>2, PTL DEF Spec

(* No loss is reported twice by a recorder: driven behind the duplicate    *)
(* detector, by frames in any order, the reports of one stream stay        *)
(* disjoint.                                                               *)
THEOREM RecorderReportsDisjoint == Spec => []ReportsDisjoint
  <1>1. Gaps!IInv => ReportsDisjoint
    BY DEF Gaps!IInv, ReportsDisjoint
  <1>. QED  BY GapsInvariance, <1>1, PTL

(* A report of a recorder is evidence when it is made: none of the numbers *)
(* it claims missing had been observed by then.                            *)
THEOREM RecorderReportsDefinite == Spec => ReportsAreDefinite
  <1>1. ASSUME Handling, Gaps!IInv, [Next]_vars
        PROVE  [\A r \in reports' \ reports :
                  Gaps!MissingNumbers(r) \cap observed[r.stream] = {}]_(Gaps!vars)
    BY <1>1, GapsStep, GapsDefiniteStep
  <1>. QED  BY HandlingInvariance, GapsInvariance, <1>1, PTL
            DEF Spec, ReportsAreDefinite, Gaps!ReportsAreDefinite

----------------------------------------------------------------------------
(* What the monitor sees of the recorder.                                  *)

(* Nothing has been heard later than now.                                  *)
HeardByNow == lastDataAt # None => lastDataAt \in Times /\ lastDataAt <= now

(* Every step keeps the heartbeat behind the clock.                        *)
LEMMA HeardByNowStep ==
    ASSUME Handling, HeardByNow, [Next]_vars
    PROVE  HeardByNow'
  <1>1. now \in Times /\ MaxTime \in Nat
    BY DEF Handling, Numbered
  <1>2. CASE \E f \in Frames : Receive(f)
    BY <1>1, <1>2 DEF Receive, HeardByNow, Times
  <1>3. CASE Tick
    BY <1>1, <1>3 DEF Tick, HeardByNow, Times
  <1>4. CASE AcceptEvent \/ Persist
    BY <1>4, StoringKeeps DEF Handling, HeardByNow
  <1>5. CASE Quiet /\ ~ Tick
    BY <1>5 DEF Quiet, HeardByNow, Open, Parse, ParseFails, ControlFrame, NormalizationFails,
                SchemaRejects, Normalize, DropDuplicate, CheckFreshness, MonitorPass, Finish, vars
  <1>. QED  BY <1>2, <1>3, <1>4, <1>5, NextCases

(* The recorder starts as the monitor finds it.                            *)
LEMMA AsMonitoredInit == Init => Watched!Init
  BY DEF Init, Watched!Init, Gaps!Init, Watched!Gaps!Init, Gaps!NewPosition,
         Watched!Gaps!NewPosition

(* Degrading is the same on both sides.                                    *)
LEMMA SameDegraded == pc # "opening" => Watched!Degraded = Degraded
  BY DEF Degraded, Watched!Degraded, CanTransition, Watched!CanTransition, PERMITTED,
         Watched!PERMITTED

(* What the recorder does is what the monitor reckons with.                *)
LEMMA AsMonitoredStep ==
    ASSUME Handling, HeardByNow, [Next]_vars
    PROVE  [MonitorPass \/ Watched!Tick \/ Watched!Handle]_(Watched!vars)
  <1>1. CASE Tick
    BY <1>1 DEF Tick, Watched!Tick, Watched!monitorVars, Watched!gapVars, gapVars
  <1>2. CASE MonitorPass
    BY <1>2
  <1>3. CASE /\ UNCHANGED <<now, lastDataAt, gapVars>>
             /\ UNCHANGED state \/ Open
             /\ pc' # "opening"
             /\ pc = "opening" => Open
    BY <1>3 DEF Open, OpeningPath, Watched!vars, Watched!monitorVars, Watched!gapVars, gapVars
  <1>4. CASE \E f \in Frames : Receive(f)
    <2>1. PICK f \in Frames : Receive(f)
      BY <1>4
    <2>2. /\ pc = "receiving" /\ pc' # "opening" /\ lastDataAt' = now
          /\ state' \in {state, Degraded}
          /\ UNCHANGED <<now, gapVars>>
      BY <2>1, ReceiveNumbers DEF Receive, Handling
    <2>3. Watched!Receive(now)
      BY <2>2, SameDegraded DEF Watched!Receive, Watched!monitorVars, Watched!gapVars, gapVars
    <2>4. now \in Watched!ReceivedAt
      BY DEF Handling, Numbered, HeardByNow, Watched!ReceivedAt, Watched!Times, Times
    <2>. QED  BY <2>3, <2>4 DEF Watched!Handle
  <1>5. CASE AcceptEvent
    <2>1. /\ pc = "accepting" /\ pc' # "opening"
          /\ UNCHANGED <<now, state, lastDataAt>>
          /\ Gaps!Observe(Head(pending).stream, Head(pending).sequence, lastDataAt)
      BY <1>5 DEF AcceptEvent, Accepted, GapWriteRaises, receivedAt
    <2>2. /\ Head(pending).stream \in Streams
          /\ Head(pending).sequence \in SeqNumbers \cup {None}
          /\ lastDataAt # None
      BY <1>5, HeadIsObservable, DetectorAssumption DEF Gaps!GapDetectorAssumption
    <2>3. Watched!ObserveEvent(Head(pending).stream, Head(pending).sequence)
      BY <2>1, <2>2 DEF Watched!ObserveEvent, Watched!monitorVars, Gaps!Observe,
                Watched!Gaps!Observe, Gaps!Observed, Watched!Gaps!Observed, Gaps!Advanced,
                Watched!Gaps!Advanced, Gaps!SequenceGap, Watched!Gaps!SequenceGap, Gaps!Jumps,
                Watched!Gaps!Jumps
    <2>. QED  BY <2>2, <2>3 DEF Watched!Handle
  <1>6. CASE MarketWriteFails \/ TraderWriteFails
    <2>1. /\ pc \in InFrame /\ pc' # "opening" /\ pc # "opening"
          /\ state' = Degraded
          /\ UNCHANGED <<now, lastDataAt, gapVars>>
      BY <1>6 DEF MarketWriteFails, TraderWriteFails, InFrame
    <2>2. lastDataAt # None
      BY <2>1, DetectorAssumption DEF Handling, ArchivedFirst, Gaps!GapDetectorAssumption
    <2>3. Watched!WriteFails
      BY <2>1, <2>2, SameDegraded DEF Watched!WriteFails, Watched!monitorVars, Watched!gapVars,
                gapVars
    <2>. QED  BY <2>3 DEF Watched!Handle
  <1>7. CASE CheckFreshness
    <2>1. /\ pc = "checking" /\ pc' # "opening"
          /\ state' = IF IsSilent THEN Degraded
                      ELSE IF state = "DEGRADED" THEN "HEALTHY" ELSE state
          /\ UNCHANGED <<now, lastDataAt, gapVars>>
      BY <1>7 DEF CheckFreshness
    <2>2. lastDataAt # None
      BY <2>1, DetectorAssumption DEF Handling, ArchivedFirst, InFrame, Gaps!GapDetectorAssumption
    <2>3. Watched!CheckFreshness
      BY <2>1, <2>2, SameDegraded DEF IsSilent, Watched!CheckFreshness, Watched!monitorVars,
                Watched!gapVars, gapVars
    <2>. QED  BY <2>3 DEF Watched!Handle
  <1>8. CASE \/ Open \/ Parse \/ DropDuplicate \/ PersistMarket \/ PersistTraders \/ Finish
             \/ UNCHANGED vars
    <2>1. CASE UNCHANGED vars
      BY <2>1 DEF vars, Watched!vars, Watched!monitorVars, Watched!gapVars, gapVars
    <2>2. CASE ~ UNCHANGED vars
      BY <1>3, <1>8, <2>2 DEF Open, Parse, ParseFails, ControlFrame, NormalizationFails,
                SchemaRejects, Normalize, DropDuplicate, PersistMarket, PersistTraders, Finish
    <2>. QED  BY <2>1, <2>2
  <1>. QED  BY <1>1, <1>2, <1>4, <1>5, <1>6, <1>7, <1>8 DEF Next, Persist

(* The monitor's view of a run is faithful: whatever is delivered and      *)
(* whichever writes raise, all that the recorder does to the heartbeat,    *)
(* the positions and the state are steps Monitor reckons with, at receipt  *)
(* times that never run backwards.                                         *)
THEOREM MonitorSeesRecorder == Spec => AsMonitored
  <1>1. Init => HeardByNow
    BY DEF Init, HeardByNow
  <1>2. Init => Watched!Init
    BY AsMonitoredInit
  <1>3. Handling /\ HeardByNow /\ [Next]_vars => HeardByNow'
    BY HeardByNowStep
  <1>4. Handling /\ HeardByNow /\ [Next]_vars =>
          [MonitorPass \/ Watched!Tick \/ Watched!Handle]_(Watched!vars)
    BY AsMonitoredStep
  <1>. QED  BY HandlingInvariance, <1>1, <1>2, <1>3, <1>4, PTL DEF Spec, AsMonitored

----------------------------------------------------------------------------
(* Types.                                                                  *)

LEMMA NewGapIsReport ==
    ASSUME Gaps!IInv, Handling, [Next]_vars, AcceptEvent
    PROVE  NewGap(Head(pending)) \subseteq Gaps!GapReport /\ Cardinality(NewGap(Head(pending))) \in Nat
  <1>1. Gaps!IInv'
    BY GapsStep, GapsInductiveStep
  <1>2. reports' = reports \cup NewGap(Head(pending))
    BY DEF AcceptEvent, Gaps!Observe, NewGap, receivedAt
  <1>3. reports' \subseteq Gaps!GapReport
    BY <1>1 DEF Gaps!IInv, Gaps!TypeOK
  <1>4. IsFiniteSet(NewGap(Head(pending)))
    BY FS_EmptySet, FS_Singleton DEF NewGap, Gaps!SequenceGap
  <1>. QED  BY <1>2, <1>3, <1>4, FS_CardinalityType

(* The rows of the accepted events are rows.                               *)
LEMMA MarketRowsAreRows ==
    ASSUME TypeOK, rawId \in 1 .. MaxFrames
    PROVE  MarketRows \subseteq Row
  BY DEF TypeOK, MarketRows, Row

(* Every step of the recorder keeps the types.                             *)
LEMMA TypeStep ==
    ASSUME TypeOK, Handling, Gaps!IInv, [Next]_vars
    PROVE  TypeOK'
  <1>0. metrics \in RecorderMetrics
    BY DEF TypeOK
  <1>1. /\ rawId = Len(delivered) /\ rawId \in Nat /\ rawId <= MaxFrames
        /\ pc \in InFrame => rawId \in 1 .. MaxFrames /\ frame \in Frames
    <2>1. rawId = Len(delivered) /\ rawId \in Nat /\ rawId <= MaxFrames
      BY DEF Handling, Numbered, rawId
    <2>2. pc \in InFrame => rawId \in 1 .. MaxFrames
      BY <2>1 DEF Handling, Numbered, ArchivedFirst, rawId
    <2>. QED  BY <2>1, <2>2, FrameIsDelivered DEF Handling
  <1>2. Degraded \in RecorderStates
    BY DEF Degraded, RecorderStates, TypeOK
  <1>3. CASE Tick \/ Open \/ CheckFreshness \/ MonitorPass \/ Finish \/ UNCHANGED vars
    <2>1. UNCHANGED <<lastDataAt, metrics, frameVars, sink>>
      BY <1>3 DEF Tick, Open, CheckFreshness, MonitorPass, Finish, vars
    <2>2. now \in Times /\ MaxTime \in Nat
      BY DEF TypeOK
    <2>3. now' \in Times
      BY <1>3, <2>2 DEF Tick, Open, CheckFreshness, MonitorPass, Finish, vars, Times
    <2>4. state \in RecorderStates /\ {"HEALTHY", "DEGRADED"} \subseteq RecorderStates
      BY DEF TypeOK, RecorderStates
    <2>5. state' \in RecorderStates
      BY <1>2, <1>3, <2>4 DEF Tick, Open, CheckFreshness, MonitorPass, MonitorRecovers,
                MonitorDegrades, Finish, vars, OpeningPath
    <2>6. pc' \in {pc, "receiving", "finished", "raised"}
      BY <1>3 DEF Tick, Open, CheckFreshness, MonitorPass, Finish, vars
    <2>7. pc' \in {"opening", "receiving", "parsing", "accepting", "traders",
                   "checking", "finished", "raised"}
      BY <2>6 DEF TypeOK
    <2>. QED  BY <2>1, <2>3, <2>5, <2>7 DEF TypeOK, frameVars
  <1>4. CASE \E f \in Frames : Receive(f)
    <2>1. PICK f \in Frames : Receive(f)
      BY <1>4
    <2>2. /\ UNCHANGED <<now, pending, accepted, owed>>
          /\ lastDataAt' = now
          /\ delivered' = Append(delivered, f)
          /\ Len(delivered) < MaxFrames
          /\ pc' \in {"receiving", "parsing"}
          /\ state' \in {state, Degraded}
          /\ sink' \in {sink, WithRaw}
          /\ metrics' \in {[metrics EXCEPT !.received = @ + 1, !.archived = @ + 1],
                           [metrics EXCEPT !.received = @ + 1, !.persistFailures = @ + 1]}
      BY <2>1 DEF Receive, Archived, ArchiveRaises, WriteRaises
    <2>3. WithRaw.raw \subseteq 1 .. MaxFrames
      <3>1. WithRaw.raw = sink.raw \cup {rawId + 1} /\ sink.raw \subseteq 1 .. rawId
        BY <1>1 DEF WithRaw, Handling, Numbered
      <3>2. rawId < MaxFrames
        BY <1>1, <2>2
      <3>. QED  BY <1>1, <3>1, <3>2
    <2>4. /\ sink'.raw \subseteq 1 .. MaxFrames
          /\ sink'.market = sink.market /\ sink'.trader = sink.trader /\ sink'.gaps = sink.gaps
      <3>1. /\ sink.raw \subseteq 1 .. MaxFrames
            /\ WithRaw.market = sink.market /\ WithRaw.trader = sink.trader
            /\ WithRaw.gaps = sink.gaps
        BY DEF TypeOK, WithRaw, Handling, Numbered
      <3>. QED  BY <2>2, <2>3, <3>1
    <2>5. metrics' \in RecorderMetrics /\ metrics'.received = Len(delivered')
      <3>1. metrics' \in RecorderMetrics /\ metrics'.received = metrics.received + 1
        BY <1>0, <2>2, TwoCounted DEF RecorderMetrics
      <3>. QED  BY <2>2, <3>1 DEF TypeOK
    <2>6. /\ UNCHANGED <<now, pending, accepted, owed>>
          /\ lastDataAt' = now /\ state' \in RecorderStates
          /\ pc' \in {"receiving", "parsing"}
          /\ delivered' \in Seq(Frames)
      BY <1>2, <2>2 DEF TypeOK
    <2>. QED  BY <2>4, <2>5, <2>6 DEF TypeOK
  <1>5. CASE Parse \/ DropDuplicate
    <2>1. /\ UNCHANGED <<now, state, lastDataAt, delivered, owed, sink>>
          /\ pc' \in {"receiving", "raised", "accepting"}
      BY <1>5 DEF Parse, ParseFails, ControlFrame, NormalizationFails, SchemaRejects, Normalize,
                  DropDuplicate, frameVars
    <2>2. pending' \in Seq(AllEvents) /\ accepted' \in Seq(AllEvents)
      <3>1. CASE Normalize
        BY <1>1, <3>1, FramesAssumption DEF Normalize, InFrame
      <3>2. CASE DropDuplicate
        BY <3>2, TailFacts DEF DropDuplicate, TypeOK
      <3>. QED  BY <1>5, <3>1, <3>2 DEF TypeOK, Parse, ParseFails, ControlFrame,
                    NormalizationFails, SchemaRejects, frameVars
    <2>3. metrics' \in RecorderMetrics /\ metrics'.received = metrics.received
      <3>1. metrics' \in {[metrics EXCEPT !.invalid = @ + 1],
                           [metrics EXCEPT !.parsed = @ + 1],
                           [metrics EXCEPT !.parsed = @ + 1, !.control = @ + 1],
                           [metrics EXCEPT !.parsed = @ + 1, !.invalid = @ + 1],
                           [metrics EXCEPT !.duplicates = @ + 1]}
        BY <1>5 DEF Parse, ParseFails, ControlFrame, NormalizationFails, SchemaRejects,
                    Normalize, DropDuplicate
      <3>2. metrics' \in RecorderMetrics
        BY <1>0, <3>1, OneCounted, TwoCounted
      <3>3. metrics'.received = metrics.received
        BY <1>0, <3>1 DEF RecorderMetrics
      <3>. QED  BY <3>2, <3>3
    <2>. QED  BY <2>1, <2>2, <2>3 DEF TypeOK
  <1>6. CASE AcceptEvent
    <2> DEFINE e == Head(pending)
    <2>1. /\ e \in AllEvents /\ e.quality \in Verdicts
          /\ NewGap(e) \subseteq Gaps!GapReport /\ Cardinality(NewGap(e)) \in Nat
          /\ rawId \in 1 .. MaxFrames
      BY <1>1, <1>6, HeadIsObservable, NewGapIsReport DEF AcceptEvent, InFrame
    <2>2. /\ UNCHANGED <<now, state, lastDataAt, delivered>>
          /\ pending' = Tail(pending)
          /\ Accepted(e) \/ GapWriteRaises(e)
          /\ pending # <<>> /\ pc = "accepting"
      BY <1>6 DEF AcceptEvent
    <2>3. pending' \in Seq(AllEvents)
      BY <2>2, TailFacts DEF TypeOK
    <2>4. /\ pc' \in {pc, "raised"}
          /\ accepted' \in {accepted, Append(accepted, e)}
          /\ owed' \in {owed, owed \cup {[event |-> e, raw |-> rawId]}}
          /\ sink' \in {sink, [sink EXCEPT !.gaps = @ \cup NewGap(e)]}
      BY <2>2 DEF Accepted, GapWriteRaises, WriteRaises
    <2>5. metrics' \in RecorderMetrics /\ metrics'.received = metrics.received
      <3>1. metrics' \in {[metrics EXCEPT !.gaps = @ + Cardinality(NewGap(e)),
                                             !.quality[e.quality] = @ + 1],
                           [metrics EXCEPT !.gaps = @ + 1]}
        BY <2>2 DEF Accepted, GapWriteRaises
      <3>2. metrics' \in RecorderMetrics
        <4>1. [metrics EXCEPT !.gaps = @ + Cardinality(NewGap(e)),
                              !.quality[e.quality] = @ + 1] \in RecorderMetrics
          BY <1>0, <2>1, EventCounted
        <4>2. [metrics EXCEPT !.gaps = @ + 1] \in RecorderMetrics
          BY <1>0, OneCounted
        <4>. QED  BY <3>1, <4>1, <4>2
      <3>3. metrics'.received = metrics.received
        BY <1>0, <3>1 DEF RecorderMetrics
      <3>. QED  BY <3>2, <3>3
    <2>6. owed' \subseteq Row
      BY <2>1, <2>4 DEF TypeOK, Row
    <2>7. /\ sink'.raw = sink.raw /\ sink'.market = sink.market /\ sink'.trader = sink.trader
          /\ sink'.gaps \subseteq Gaps!GapReport
      BY <2>1, <2>4 DEF TypeOK, Handling, Numbered
    <2>8. /\ UNCHANGED <<now, state, lastDataAt, delivered>>
          /\ pc' \in {"accepting", "raised"}
          /\ accepted' \in Seq(AllEvents)
      <3>1. accepted \in Seq(AllEvents) /\ e \in AllEvents
        BY <2>1 DEF TypeOK
      <3>2. Append(accepted, e) \in Seq(AllEvents)
        BY <3>1
      <3>. QED  BY <2>2, <2>4, <3>1, <3>2
    <2>. QED  BY <2>3, <2>5, <2>6, <2>7, <2>8 DEF TypeOK
  <1>7. CASE Persist
    <2>1. /\ UNCHANGED <<now, lastDataAt, frameVars>>
          /\ pc \in InFrame
          /\ pc' \in {"receiving", "traders", "checking"}
          /\ state' \in {state, Degraded}
          /\ sink' \in {sink, [sink EXCEPT !.market = @ \cup MarketRows],
                              [sink EXCEPT !.trader = @ \cup TraderRows]}
      BY <1>7 DEF Persist, PersistMarket, MarketWriteFails, PersistTraders, TraderWriteFails,
                  WriteRaises, InFrame
    <2>2. MarketRows \subseteq Row /\ TraderRows \subseteq 1 .. MaxFrames
      BY <1>1, <2>1, MarketRowsAreRows DEF TraderRows
    <2>3. /\ sink'.raw = sink.raw /\ sink'.gaps = sink.gaps
          /\ sink'.market \subseteq Row /\ sink'.trader \subseteq 1 .. MaxFrames
      BY <2>1, <2>2 DEF TypeOK, Handling, Numbered
    <2>4. metrics' \in RecorderMetrics /\ metrics'.received = metrics.received
      <3>1. PICK n \in Nat :
               \/ metrics' = [metrics EXCEPT !.marketWritten = @ + n]
               \/ metrics' = [metrics EXCEPT !.traderWritten = @ + n]
               \/ metrics' = [metrics EXCEPT !.persistFailures = @ + 1]
        <4>1. Len(accepted) \in Nat
          BY DEF TypeOK
        <4>2. frame.traders \in Nat
          BY <1>1, <2>1, FramesAssumption
        <4>. QED  BY <1>7, <4>1, <4>2 DEF Persist, PersistMarket, MarketWriteFails,
                      PersistTraders, TraderWriteFails, CountFailure
      <3>2. metrics' \in RecorderMetrics
        BY <1>0, <3>1, OneCounted
      <3>3. metrics'.received = metrics.received
        BY <1>0, <3>1 DEF RecorderMetrics
      <3>. QED  BY <3>2, <3>3
    <2>. QED  BY <1>2, <2>1, <2>3, <2>4 DEF TypeOK, frameVars
  <1>. QED  BY <1>3, <1>4, <1>5, <1>6, <1>7 DEF Next

(* Every reachable state of the recorder is well typed.                    *)
THEOREM TypeCorrect == Spec => []TypeOK
  <1>1. Init => TypeOK
    BY DEF Init, TypeOK, RecorderMetrics, Times, RecorderStates, Verdicts
  <1>. QED  BY HandlingInvariance, GapsInvariance, TypeStep, <1>1, PTL DEF Spec

----------------------------------------------------------------------------
(* Until an exception leaves run(), what the gap detector observed is in   *)
(* an archived frame and what it reported is in the sink.                  *)

Registered ==
    pc # "raised" =>
        /\ reports \subseteq sink.gaps
        /\ \A s \in Streams : \A n \in observed[s] : Archives(s, n)

(* Nothing is observed or reported at the start.                           *)
LEMMA InitRegistered == Init => Registered
  BY DEF Init, Gaps!Init, Registered

(* run() does not resume after an exception.                               *)
LEMMA RaisedIsFinal ==
    ASSUME [Next]_vars, pc' # "raised"
    PROVE  pc # "raised"
  BY DEF Next, Tick, Open, Receive, Archived, ArchiveRaises, Parse, ParseFails, ControlFrame,
         NormalizationFails, SchemaRejects, Normalize, DropDuplicate, AcceptEvent, Persist,
         PersistMarket, MarketWriteFails, PersistTraders, TraderWriteFails, CheckFreshness,
         MonitorPass,
         Finish, vars

(* What the archive holds, it holds after any step.                        *)
LEMMA ArchivesKept ==
    ASSUME Numbered, [Next]_vars, NEW s, NEW n, Archives(s, n)
    PROVE  Archives(s, n)'
  <1>1. sink.raw \subseteq sink'.raw /\ \A id \in sink.raw : delivered'[id] = delivered[id]
    <2>1. CASE Quiet
      BY <2>1, QuietKeeps DEF Kept
    <2>2. CASE \E f \in Frames : Receive(f)
      <3>1. PICK f \in Frames : Receive(f)
        BY <2>2
      <3>2. delivered' = Append(delivered, f) /\ sink.raw \subseteq sink'.raw
        BY <3>1, ReceiveNumbers DEF WithRaw, Numbered
      <3>. QED  BY <3>2 DEF Numbered
    <2>3. CASE AcceptEvent \/ Persist
      BY <2>3, StoringKeeps
    <2>. QED  BY <2>1, <2>2, <2>3, NextCases
  <1>. QED  BY <1>1 DEF Archives

(* Every step keeps what was observed archived, what was reported stored.  *)
LEMMA RegisteredStep ==
    ASSUME Handling, Gaps!IInv, Registered, [Next]_vars
    PROVE  Registered'
  <1> SUFFICES ASSUME pc' # "raised"
               PROVE  /\ reports' \subseteq sink'.gaps
                      /\ \A s \in Streams : \A n \in observed'[s] : Archives(s, n)'
    BY DEF Registered
  <1>1. /\ Numbered
        /\ reports \subseteq sink.gaps
        /\ \A s \in Streams : \A n \in observed[s] : Archives(s, n)'
    BY RaisedIsFinal, ArchivesKept DEF Handling, Registered
  <1>2. CASE AcceptEvent
    <2> DEFINE e == Head(pending)
    <2>1. /\ Gaps!Observe(e.stream, e.sequence, receivedAt)
          /\ Accepted(e)
      BY <1>2 DEF AcceptEvent, GapWriteRaises
    <2>2. /\ reports' = reports \cup NewGap(e)
          /\ observed' = [observed EXCEPT ![e.stream] = @ \cup ({e.sequence} \ {None})]
      BY <2>1 DEF Gaps!Observe, NewGap
    <2>3. sink'.gaps = sink.gaps \cup NewGap(e)
      BY <1>1, <2>1 DEF Accepted, Numbered
    <2>4. ASSUME NEW s \in Streams, NEW n, s = e.stream, n = e.sequence
          PROVE  Archives(s, n)'
      <3>1. rawId \in sink.raw /\ OfFrame(e)
        BY <1>2, HeadIsObservable
      <3>2. Archives(s, n)
        BY <2>4, <3>1 DEF OfFrame, Archives, frame
      <3>. QED  BY <1>1, <3>2, ArchivesKept
    <2>5. ASSUME NEW s \in Streams, NEW n \in observed'[s]
          PROVE  Archives(s, n)'
      <3>1. n \in observed[s] \/ (s = e.stream /\ n = e.sequence)
        BY <2>2, <2>5 DEF Gaps!IInv, Gaps!TypeOK
      <3>. QED  BY <1>1, <2>4, <3>1
    <2>. QED  BY <1>1, <2>2, <2>3, <2>5
  <1>3. CASE ~ AcceptEvent
    <2>1. UNCHANGED <<reports, observed>>
      BY <1>3, GapsStep DEF Gaps!vars, Gaps!Next, Gaps!Observe, Next, Tick, Open, Receive, Parse,
             ParseFails, ControlFrame, NormalizationFails, SchemaRejects, Normalize,
             DropDuplicate, Persist, PersistMarket, MarketWriteFails, PersistTraders,
             TraderWriteFails, CheckFreshness, MonitorPass, Finish, vars, gapVars
    <2>2. sink'.gaps = sink.gaps
      BY <1>1, <1>3, NextCases, QuietKeeps, ReceiveNumbers DEF Kept, Numbered, WithRaw, Persist,
             PersistMarket, MarketWriteFails, PersistTraders, TraderWriteFails, WriteRaises
    <2>. QED  BY <1>1, <2>1, <2>2
  <1>. QED  BY <1>2, <1>3

(* What was observed is archived, what was reported stored, throughout.    *)
THEOREM RegisteredInvariance == Spec => []Registered
  BY HandlingInvariance, GapsInvariance, InitRegistered, RegisteredStep, PTL DEF Spec

(* Nothing is silent: as long as no exception leaves run(), every number   *)
(* between a stream's first and its highest is in an archived raw frame or *)
(* inside a gap the sink has stored, whichever writes raised.              *)
THEOREM NothingIsSilent == Spec => []NothingSilent
  <1>1. Registered /\ Gaps!IInv => NothingSilent
    <2> SUFFICES ASSUME Registered, Gaps!IInv, pc # "raised",
                        NEW s \in Streams, started[s] # None,
                        NEW n \in started[s] .. positions[s].lastSequence
                 PROVE  \/ Archives(s, n)
                        \/ \E g \in sink.gaps : g.stream = s /\ n \in Gaps!MissingNumbers(g)
      BY DEF NothingSilent
    <2>1. n \in observed[s] \cup Gaps!ReportedMissing(s)
      BY DEF Gaps!IInv, Gaps!Coverage
    <2>2. CASE n \in observed[s]
      BY <2>2 DEF Registered
    <2>3. CASE n \in Gaps!ReportedMissing(s)
      BY <2>3 DEF Registered, Gaps!ReportedMissing, Gaps!MissingNumbers
    <2>. QED  BY <2>1, <2>2, <2>3
  <1>. QED  BY RegisteredInvariance, GapsInvariance, <1>1, PTL

----------------------------------------------------------------------------
(* The frames that have lost something, the one in hand aside while its    *)
(* rows are still to be written: a failure is counted for each.            *)

Lost == {id \in DOMAIN delivered :
            HasLoss(id) /\ (pc \in {"parsing", "accepting", "traders"} => id # rawId)}

Counted == pc # "raised" => Cardinality(Lost) <= metrics.persistFailures

(* The frames delivered are numbered up to the one in hand.                *)
LEMMA DeliveredIds ==
    ASSUME Numbered
    PROVE  DOMAIN delivered = 1 .. rawId /\ rawId \in Nat
  BY DEF Numbered, rawId

(* Finitely many frames have lost something.                               *)
LEMMA LostIsFinite ==
    ASSUME Numbered
    PROVE  IsFiniteSet(Lost) /\ Cardinality(Lost) \in Nat
  <1>1. IsFiniteSet(1 .. rawId)
    BY DeliveredIds, FS_Interval
  <1>2. Lost \subseteq 1 .. rawId
    BY DeliveredIds DEF Lost
  <1>. QED  BY <1>1, <1>2, FS_Subset, FS_CardinalityType

(* A set that gains at most one element gains at most one in number.       *)
LEMMA OneMore ==
    ASSUME NEW S, IsFiniteSet(S), NEW x, NEW T, T \subseteq S \cup {x}
    PROVE  /\ IsFiniteSet(T)
           /\ Cardinality(T) <= Cardinality(S) + 1
           /\ x \notin T \/ x \in S => Cardinality(T) <= Cardinality(S)
  <1>1. /\ IsFiniteSet(S \cup {x})
        /\ Cardinality(S \cup {x}) <= Cardinality(S) + 1
        /\ Cardinality(S) \in Nat /\ Cardinality(S \cup {x}) \in Nat
    BY FS_AddElement, FS_CardinalityType
  <1>2. IsFiniteSet(T) /\ Cardinality(T) <= Cardinality(S \cup {x}) /\ Cardinality(T) \in Nat
    BY <1>1, FS_Subset, FS_CardinalityType
  <1>3. ASSUME x \notin T \/ x \in S
        PROVE  Cardinality(T) <= Cardinality(S)
    <2>1. T \subseteq S
      BY <1>3
    <2>. QED  BY <2>1, FS_Subset
  <1>. QED  BY <1>1, <1>2, <1>3

(* Only the frame in hand can lose anything more.                          *)
LEMMA OthersKeep ==
    ASSUME Handling, [Next]_vars, NEW id \in DOMAIN delivered, id # rawId', HasLoss(id)'
    PROVE  HasLoss(id)
  <1>1. Numbered /\ id \in 1 .. rawId
    BY DeliveredIds DEF Handling
  <1>2. /\ delivered'[id] = delivered[id]
        /\ sink.raw \subseteq sink'.raw
        /\ sink.market \subseteq sink'.market
        /\ sink.trader \subseteq sink'.trader
        /\ \A row \in owed' : row.raw = id => row \in owed
    <2>1. CASE Quiet
      <3>1. UNCHANGED owed
        BY <2>1 DEF Quiet, Tick, Open, Parse, ParseFails, ControlFrame, NormalizationFails,
                  SchemaRejects, Normalize, DropDuplicate, CheckFreshness,
                  MonitorPass, Finish, vars, frameVars
      <3>. QED  BY <1>1, <2>1, <3>1, QuietKeeps DEF Kept
    <2>2. CASE \E f \in Frames : Receive(f)
      <3>1. PICK f \in Frames : Receive(f)
        BY <2>2
      <3>2. delivered' = Append(delivered, f) /\ UNCHANGED owed /\ sink' \in {sink, WithRaw}
        BY <1>1, <3>1, ReceiveNumbers DEF Receive
      <3>3. /\ sink.raw \subseteq sink'.raw
            /\ sink'.market = sink.market /\ sink'.trader = sink.trader
        BY <1>1, <3>2 DEF WithRaw, Numbered
      <3>. QED  BY <1>1, <3>2, <3>3 DEF Numbered, rawId
    <2>3. CASE AcceptEvent
      <3>1. /\ delivered' = delivered /\ rawId' = rawId /\ sink'.raw = sink.raw
        BY <1>1, <2>3, StoringKeeps DEF rawId
      <3>2. /\ sink'.market = sink.market /\ sink'.trader = sink.trader
            /\ owed' \in {owed, owed \cup {[event |-> Head(pending), raw |-> rawId]}}
        BY <1>1, <2>3 DEF AcceptEvent, Accepted, GapWriteRaises, WriteRaises, Numbered
      <3>. QED  BY <3>1, <3>2
    <2>4. CASE Persist
      <3>1. /\ delivered' = delivered /\ sink'.raw = sink.raw /\ UNCHANGED owed
        BY <1>1, <2>4, StoringKeeps DEF Persist, PersistMarket, MarketWriteFails, PersistTraders,
                  TraderWriteFails, frameVars
      <3>2. sink.market \subseteq sink'.market /\ sink.trader \subseteq sink'.trader
        BY <1>1, <2>4 DEF Persist, PersistMarket, MarketWriteFails, PersistTraders,
                  TraderWriteFails, WriteRaises, Numbered
      <3>. QED  BY <3>1, <3>2
    <2>. QED  BY <2>1, <2>2, <2>3, <2>4, NextCases
  <1>3. CASE LacksPayload(id)'
    BY <1>2, <1>3 DEF LacksPayload, HasLoss
  <1>4. CASE LacksMarketRow(id)'
    BY <1>2, <1>4 DEF LacksMarketRow, HasLoss
  <1>5. CASE LacksTraderRows(id)'
    BY <1>2, <1>5 DEF LacksTraderRows, HasLoss
  <1>. QED  BY <1>3, <1>4, <1>5 DEF HasLoss

(* The frame in hand comes to be counted as lost only with a failure.      *)
LEMMA LossIsCounted ==
    ASSUME Handling, [Next]_vars, pc' # "raised"
    PROVE  /\ metrics'.persistFailures \in {metrics.persistFailures, metrics.persistFailures + 1}
           /\ rawId' \in Lost' /\ rawId' \notin Lost =>
                 metrics'.persistFailures = metrics.persistFailures + 1
  <1>1. Numbered
    BY DEF Handling
  <1>2. CASE Quiet
    <2>1. /\ metrics'.persistFailures = metrics.persistFailures
          /\ UNCHANGED <<sink, delivered, owed>> /\ rawId' = rawId
      BY <1>1, <1>2, QuietKeeps DEF Kept, rawId, Quiet, Tick, Open, Parse, ParseFails,
              ControlFrame, NormalizationFails, SchemaRejects, Normalize, DropDuplicate,
              CheckFreshness, MonitorPass, Finish, vars, frameVars
    <2>2. HasLoss(rawId)' => HasLoss(rawId)
      BY <2>1 DEF HasLoss, LacksPayload, LacksMarketRow, LacksTraderRows
    <2>3. CASE pc \in {"parsing", "accepting", "traders"} /\ pc' \notin {"parsing", "accepting", "traders"}
      <3>1. ParseFails \/ ControlFrame \/ NormalizationFails
        BY <1>2, <2>3 DEF Quiet, Tick, Open, Parse, SchemaRejects, Normalize,
              DropDuplicate, CheckFreshness, MonitorPass, Finish, vars
      <3>2. pc = "parsing" /\ frame.kind # "data"
        BY <3>1 DEF ParseFails, ControlFrame, NormalizationFails
      <3>3. ~ HasLoss(rawId)
        BY <3>2 DEF Handling, ArchivedFirst, OwedInOrder, InFrame, HasLoss, LacksPayload,
              LacksMarketRow, LacksTraderRows, frame
      <3>. QED  BY <2>1, <2>2, <3>3 DEF Lost
    <2>4. CASE ~ (pc \in {"parsing", "accepting", "traders"} /\ pc' \notin {"parsing", "accepting", "traders"})
      BY <2>1, <2>2, <2>4 DEF Lost
    <2>. QED  BY <2>3, <2>4
  <1>3. CASE \E f \in Frames : Receive(f)
    <2>1. PICK f \in Frames : Receive(f)
      BY <1>3
    <2>. QED  BY <1>1, <2>1, ReceiveNumbers DEF Lost
  <1>4. CASE AcceptEvent
    <2>1. pc' = "accepting" /\ UNCHANGED metrics.persistFailures
      BY <1>1, <1>4 DEF AcceptEvent, Accepted, GapWriteRaises, Numbered
    <2>. QED  BY <2>1 DEF Lost
  <1>5. CASE PersistMarket
    <2>1. pc' = "traders" /\ UNCHANGED metrics.persistFailures
      BY <1>1, <1>5 DEF PersistMarket, Numbered
    <2>. QED  BY <2>1 DEF Lost
  <1>6. CASE MarketWriteFails \/ TraderWriteFails
    BY <1>1, <1>6 DEF MarketWriteFails, TraderWriteFails, CountFailure, Numbered
  <1>7. CASE PersistTraders
    <2>1. /\ UNCHANGED metrics.persistFailures
          /\ UNCHANGED <<delivered, owed>> /\ rawId' = rawId /\ pc = "traders"
          /\ sink'.raw = sink.raw /\ sink'.market = sink.market
          /\ sink'.trader = sink.trader \cup TraderRows
      BY <1>1, <1>7 DEF PersistTraders, Numbered, frameVars, rawId
    <2>2. rawId \in sink.raw /\ ~ LacksMarketRow(rawId)
      BY <2>1 DEF Handling, ArchivedFirst, OwedInOrder, InFrame
    <2>3. ~ HasLoss(rawId)'
      BY <2>1, <2>2 DEF HasLoss, LacksPayload, LacksMarketRow, LacksTraderRows, TraderRows, frame
    <2>. QED  BY <2>1, <2>3 DEF Lost
  <1>. QED  BY <1>2, <1>3, <1>4, <1>5, <1>6, <1>7, NextCases DEF Persist

(* Every step keeps a failure counted for each frame that lost something.  *)
LEMMA CountedStep ==
    ASSUME Handling, Handling', Counted, [Next]_vars
    PROVE  Counted'
  <1> SUFFICES ASSUME pc' # "raised"
               PROVE  Cardinality(Lost') <= metrics'.persistFailures
    BY DEF Counted
  <1>1. /\ Cardinality(Lost) <= metrics.persistFailures
        /\ metrics.persistFailures \in Nat
        /\ IsFiniteSet(Lost) /\ Cardinality(Lost) \in Nat
    BY RaisedIsFinal, LostIsFinite DEF Counted, Handling, Numbered
  <1>2. Lost' \subseteq Lost \cup {rawId'}
    <2>1. ASSUME NEW id \in Lost', id # rawId'
          PROVE  id \in Lost
      <3>1. id \in DOMAIN delivered' /\ HasLoss(id)'
        BY <2>1 DEF Lost
      <3>2. id \in DOMAIN delivered
        <4>1. /\ DOMAIN delivered = 1 .. rawId /\ rawId \in Nat
              /\ DOMAIN delivered' = 1 .. rawId' /\ rawId' \in Nat
          BY DEF Handling, Numbered, rawId
        <4>2. rawId' \in {rawId, rawId + 1}
          BY NextCases, QuietKeeps, ReceiveNumbers, StoringKeeps DEF Handling, Kept, rawId
        <4>. QED  BY <2>1, <3>1, <4>1, <4>2
      <3>3. HasLoss(id)
        BY <2>1, <3>1, <3>2, OthersKeep
      <3>4. pc \in {"parsing", "accepting", "traders"} => rawId' = rawId
        BY NextCases, QuietKeeps, StoringKeeps DEF Handling, Kept, rawId, Receive
      <3>. QED  BY <2>1, <3>2, <3>3, <3>4 DEF Lost
    <2>. QED  BY <2>1
  <1>3. /\ Cardinality(Lost') \in Nat
        /\ Cardinality(Lost') <= Cardinality(Lost) + 1
        /\ rawId' \notin Lost' \/ rawId' \in Lost => Cardinality(Lost') <= Cardinality(Lost)
    <2> DEFINE S == Lost
               T == Lost'
               x == rawId'
    <2>1. IsFiniteSet(S) /\ T \subseteq S \cup {x}
      BY <1>1, <1>2
    <2>. HIDE DEF S, T, x
    <2>2. /\ IsFiniteSet(T)
          /\ Cardinality(T) <= Cardinality(S) + 1
          /\ x \notin T \/ x \in S => Cardinality(T) <= Cardinality(S)
      BY <2>1, OneMore
    <2>3. Cardinality(T) \in Nat
      BY <2>2, FS_CardinalityType
    <2>. QED  BY <2>2, <2>3 DEF S, T, x
  <1>. QED  BY <1>1, <1>3, LossIsCounted

(* Nothing is lost at the start.                                           *)
LEMMA InitCounted == Init => Counted
  <1> SUFFICES ASSUME Init
               PROVE  Cardinality(Lost) = 0 /\ metrics.persistFailures = 0
    BY DEF Counted
  <1>1. delivered = <<>>
    BY DEF Init
  <1>2. Lost = {}
    BY <1>1 DEF Lost
  <1>. QED  BY <1>2, FS_EmptySet DEF Init

(* A failure is counted for each frame that lost something, throughout.    *)
THEOREM CountedInvariance == Spec => []Counted
  BY HandlingInvariance, InitCounted, CountedStep, PTL DEF Spec

(* No uncounted loss: between frames, metrics.persistence_failures is at   *)
(* least the number of frames whose payload, market rows or trader rows    *)
(* the sink lacks.                                                         *)
THEOREM LossesAreCounted == Spec => []LossesCounted
  <1>1. Counted => LossesCounted
    <2>1. pc \in {"receiving", "finished"} => Lost = {id \in DOMAIN delivered : HasLoss(id)}
      BY DEF Lost
    <2>. QED  BY <2>1 DEF Counted, LossesCounted
  <1>. QED  BY CountedInvariance, <1>1, PTL

----------------------------------------------------------------------------
(* While no more events were let through than the duplicate detector       *)
(* holds, and no more time has passed than its window, it forgets nothing: *)
(* its memory mirrors the events let through, so no identity is owed two   *)
(* rows.                                                                   *)

NothingForgotten == Len(admitted) <= Capacity

Entry == [key : {Dedup!Identity(e) : e \in AllEvents}, seenAt : Times]

Mirrors ==
    /\ seen \in Seq(Entry)
    /\ admitted \in Seq([event : AllEvents, at : Times])
    /\ Len(seen) = Len(admitted)
    /\ \A i \in 1 .. Len(seen) : seen[i].key = Dedup!Identity(admitted[i].event)

OwedOnce ==
    /\ \A r \in owed :
          \E j \in 1 .. Len(admitted) :
              Dedup!Identity(admitted[j].event) = Dedup!Identity(r.event)
    /\ \A r, q \in owed : Dedup!Identity(r.event) = Dedup!Identity(q.event) => r = q
    /\ sink.market \subseteq owed
    /\ pc = "accepting" => MarketRows \subseteq owed

(* Nothing is old enough to expire.                                        *)
LEMMA NothingExpires ==
    ASSUME Window \in Nat, MaxTime <= Window, NEW s \in Seq(Entry), NEW t \in Times
    PROVE  Dedup!Expired(s, t - Window) = s
  <1>1. /\ Len(s) \in Nat /\ DOMAIN s = 1 .. Len(s)
        /\ \A i \in 1 .. Len(s) : s[i] \in Entry
    OBVIOUS
  <1>2. \A i \in 1 .. Len(s) : s[i].seenAt >= t - Window
    <2>1. \A x \in Entry : x.seenAt \in 0 .. MaxTime
      BY DEF Entry, Times
    <2>2. t \in 0 .. MaxTime
      BY DEF Times
    <2>3. \A n \in 0 .. MaxTime : n >= t - Window
      BY <2>2
    <2>. QED  BY <1>1, <2>1, <2>3
  <1>3. Dedup!Fresh(s, t - Window) = 1 .. Len(s)
    BY <1>1, <1>2 DEF Dedup!Fresh
  <1>4. CASE s = <<>>
    BY <1>3, <1>4 DEF Dedup!Expired
  <1>5. CASE s # <<>>
    <2>1. Len(s) >= 1 /\ 1 .. Len(s) # {} /\ 1 \in 1 .. Len(s)
      <3>1. Len(s) # 0
        BY <1>5
      <3>2. Len(s) \in Nat
        BY <1>1
      <3>3. \A n \in Nat : n # 0 => n >= 1 /\ 1 \in 1 .. n
        OBVIOUS
      <3>. QED  BY <3>1, <3>2, <3>3
    <2>2. Dedup!Min(1 .. Len(s)) = 1
      BY <1>1, <2>1 DEF Dedup!Min
    <2>3. SubSeq(s, 1, Len(s)) = s
      OBVIOUS
    <2>4. Dedup!Fresh(s, t - Window) # {} /\ Dedup!Min(Dedup!Fresh(s, t - Window)) = 1
      BY <1>3, <2>1, <2>2
    <2>. QED  BY <2>3, <2>4 DEF Dedup!Expired
  <1>. QED  BY <1>4, <1>5

(* An event of the frame in hand, as the duplicate detector sees it.       *)
LEMMA AdmissionMirrors ==
    ASSUME Window \in Nat, Capacity \in Nat, MaxTime <= Window,
           Handling, Mirrors, NothingForgotten', AcceptEvent
    PROVE  /\ Mirrors'
           /\ admitted' = Append(admitted, [event |-> Head(pending), at |-> lastDataAt])
           /\ \A j \in 1 .. Len(admitted) :
                 Dedup!Identity(admitted[j].event) # Dedup!Identity(Head(pending))
  <1> DEFINE e == Head(pending)
             entry == [key |-> Dedup!Identity(e), seenAt |-> lastDataAt]
             admission == [event |-> e, at |-> lastDataAt]
             live == Dedup!Expired(seen, lastDataAt - Window)
             grown == Append(live, entry)
  <1>1. e \in AllEvents /\ lastDataAt \in Times
    BY HeadIsObservable
  <1>2. live = seen
    BY <1>1, NothingExpires DEF Mirrors
  <1>3. /\ ~ Dedup!Remembers(seen, Dedup!Identity(e))
        /\ seen' = Dedup!Evicted(Append(seen, entry))
        /\ admitted' = Append(admitted, admission)
    BY <1>2 DEF AcceptEvent, Dedup!Admit, receivedAt
  <1>4. entry \in Entry /\ admission \in [event : AllEvents, at : Times]
    BY <1>1 DEF Entry
  <1>5. /\ seen \in Seq(Entry) /\ admitted \in Seq([event : AllEvents, at : Times])
        /\ Len(seen) = Len(admitted)
        /\ \A i \in 1 .. Len(seen) : seen[i].key = Dedup!Identity(admitted[i].event)
    BY DEF Mirrors
  <1>6. entry.key = Dedup!Identity(e) /\ admission.event = e
    OBVIOUS
  <1>. HIDE DEF e, entry, admission, live, grown
  <1>7. /\ Append(seen, entry) \in Seq(Entry)
        /\ Len(seen) \in Nat /\ DOMAIN seen = 1 .. Len(seen)
        /\ Len(Append(seen, entry)) = Len(seen) + 1
        /\ \A i \in 1 .. Len(seen) : Append(seen, entry)[i] = seen[i]
        /\ Append(seen, entry)[Len(seen) + 1] = entry
    BY <1>4, <1>5
  <1>8. /\ admitted' \in Seq([event : AllEvents, at : Times])
        /\ Len(admitted') = Len(admitted) + 1
        /\ \A i \in 1 .. Len(admitted) : admitted'[i] = admitted[i]
        /\ admitted'[Len(admitted) + 1] = admission
    BY <1>3, <1>4, <1>5
  <1>9. seen' = Append(seen, entry)
    <2>1. Len(seen) + 1 <= Capacity
      BY <1>5, <1>8 DEF NothingForgotten
    <2>2. ~ (Len(seen) + 1 > Capacity)
      BY <1>7, <2>1
    <2>. QED  BY <1>3, <1>7, <2>2 DEF Dedup!Evicted
  <1>10. Mirrors'
    <2>1. ASSUME NEW i \in 1 .. Len(seen')
          PROVE  seen'[i].key = Dedup!Identity(admitted'[i].event)
      <3>1. CASE i \in 1 .. Len(seen)
        BY <1>5, <1>7, <1>8, <1>9, <3>1
      <3>2. CASE i = Len(seen) + 1
        BY <1>5, <1>6, <1>7, <1>8, <1>9, <3>2
      <3>. QED  BY <1>7, <1>9, <3>1, <3>2
    <2>. QED  BY <1>5, <1>7, <1>8, <1>9, <2>1 DEF Mirrors
  <1>11. \A j \in 1 .. Len(admitted) : Dedup!Identity(admitted[j].event) # Dedup!Identity(e)
    BY <1>3, <1>5, <1>7 DEF Dedup!Remembers
  <1>. QED  BY <1>3, <1>10, <1>11 DEF e, admission

(* Nothing is seen, admitted or owed at the start.                         *)
LEMMA InitMirrors == Init => Mirrors /\ OwedOnce
  BY DEF Init, Dedup!Init, Mirrors, OwedOnce

(* As long as nothing is forgotten, the detector mirrors what it admitted. *)
LEMMA MirrorsStep ==
    ASSUME Window \in Nat, Capacity \in Nat, MaxTime <= Window,
           Handling, Mirrors, NothingForgotten', [Next]_vars
    PROVE  Mirrors'
  <1>1. CASE AcceptEvent
    BY <1>1, AdmissionMirrors
  <1>2. CASE DropDuplicate
    <2>1. /\ pc = "accepting" /\ admitted' = admitted
          /\ seen' = Dedup!Expired(seen, lastDataAt - Window)
      BY <1>2 DEF DropDuplicate, Dedup!Duplicate, receivedAt
    <2>2. lastDataAt \in Times /\ seen \in Seq(Entry)
      BY <2>1 DEF Handling, ArchivedFirst, InFrame, Mirrors
    <2>3. seen' = seen
      BY <2>1, <2>2, NothingExpires
    <2>. QED  BY <2>1, <2>3 DEF Mirrors
  <1>3. CASE ~ AcceptEvent /\ ~ DropDuplicate
    <2>1. UNCHANGED <<seen, admitted>>
      BY <1>3 DEF Next, Tick, Open, Receive, Parse, ParseFails, ControlFrame,
             NormalizationFails, SchemaRejects, Normalize, Persist, PersistMarket,
             MarketWriteFails, PersistTraders, TraderWriteFails, CheckFreshness,
             MonitorPass, Finish,
             vars, dedupVars
    <2>. QED  BY <2>1 DEF Mirrors
  <1>. QED  BY <1>1, <1>2, <1>3

(* A new row is owed only for an identity no row is owed for.              *)
LEMMA OwedOnceStep ==
    ASSUME Window \in Nat, Capacity \in Nat, MaxTime <= Window,
           Handling, Mirrors, OwedOnce, NothingForgotten', [Next]_vars
    PROVE  OwedOnce'
  <1>1. Numbered /\ Len(admitted) \in Nat
    BY DEF Handling, Mirrors
  <1>2. CASE AcceptEvent
    <2> DEFINE e == Head(pending)
               row == [event |-> e, raw |-> rawId]
    <2>1. /\ admitted' = Append(admitted, [event |-> e, at |-> lastDataAt])
          /\ \A j \in 1 .. Len(admitted) :
                Dedup!Identity(admitted[j].event) # Dedup!Identity(e)
      BY <1>2, AdmissionMirrors
    <2>2. /\ e \in AllEvents /\ lastDataAt \in Times
          /\ admitted \in Seq([event : AllEvents, at : Times])
      BY <1>2, HeadIsObservable DEF Mirrors
    <2>3. /\ Len(admitted') = Len(admitted) + 1
          /\ \A j \in 1 .. Len(admitted) : admitted'[j] = admitted[j]
          /\ admitted'[Len(admitted) + 1].event = e
      BY <2>1, <2>2
    <2>4. /\ pc = "accepting" /\ rawId' = rawId /\ sink'.market = sink.market
      BY <1>1, <1>2, StoringKeeps DEF AcceptEvent, Accepted, GapWriteRaises, WriteRaises,
             Numbered, rawId
    <2>5. CASE GapWriteRaises(e)
      <3>1. UNCHANGED owed /\ pc' = "raised"
        BY <2>5 DEF GapWriteRaises
      <3>. QED  BY <1>1, <2>3, <2>4, <3>1 DEF OwedOnce
    <2>6. CASE Accepted(e)
      <3>1. owed' = owed \cup {row} /\ accepted' = Append(accepted, e) /\ pc' = pc
        BY <2>6 DEF Accepted
      <3>2. row.event = e /\ row.raw = rawId
        OBVIOUS
      <3>3. accepted \in Seq(AllEvents)
        BY <2>4 DEF Handling, PendingOfFrame
      <3>4. MarketRows' = MarketRows \cup {row}
        <4>1. /\ DOMAIN accepted' = DOMAIN accepted \cup {Len(accepted) + 1}
              /\ \A i \in DOMAIN accepted : accepted'[i] = accepted[i]
              /\ accepted'[Len(accepted) + 1] = e
          <5>. HIDE DEF e
          <5>. QED  BY <2>2, <3>1, <3>3
        <4>. QED  BY <2>4, <4>1 DEF MarketRows
      <3>. HIDE DEF row, e
      <3>5. \A r \in owed : Dedup!Identity(r.event) # Dedup!Identity(e)
        BY <2>1 DEF OwedOnce
      <3>6. \A r \in owed' :
               \E j \in 1 .. Len(admitted') :
                   Dedup!Identity(admitted'[j].event) = Dedup!Identity(r.event)
        <4>1. ASSUME NEW r \in owed
              PROVE  \E j \in 1 .. Len(admitted') :
                         Dedup!Identity(admitted'[j].event) = Dedup!Identity(r.event)
          <5>1. PICK j \in 1 .. Len(admitted) :
                    Dedup!Identity(admitted[j].event) = Dedup!Identity(r.event)
            BY DEF OwedOnce
          <5>2. j \in 1 .. Len(admitted') /\ admitted'[j] = admitted[j]
            BY <1>1, <2>3
          <5>. QED  BY <5>1, <5>2
        <4>2. Len(admitted) + 1 \in 1 .. Len(admitted')
          BY <1>1, <2>3
        <4>. QED  BY <2>3, <3>1, <3>2, <4>1, <4>2
      <3>7. \A r, q \in owed' : Dedup!Identity(r.event) = Dedup!Identity(q.event) => r = q
        <4>1. \A r, q \in owed : Dedup!Identity(r.event) = Dedup!Identity(q.event) => r = q
          BY DEF OwedOnce
        <4>. QED  BY <3>1, <3>2, <3>5, <4>1
      <3>8. MarketRows \subseteq owed /\ sink.market \subseteq owed
        BY <2>4 DEF OwedOnce
      <3>9. MarketRows' \subseteq owed' /\ sink'.market \subseteq owed'
        BY <2>4, <3>1, <3>4, <3>8
      <3>. QED  BY <3>6, <3>7, <3>9 DEF OwedOnce
    <2>. QED  BY <1>2, <2>5, <2>6 DEF AcceptEvent
  <1>3. CASE ~ AcceptEvent
    <2>1. UNCHANGED <<owed, admitted>>
      <3>1. CASE DropDuplicate
        BY <3>1 DEF DropDuplicate, Dedup!Duplicate
      <3>2. CASE ~ DropDuplicate
        BY <1>3, <3>2 DEF Next, Tick, Open, Receive, Parse, ParseFails, ControlFrame,
             NormalizationFails, SchemaRejects, Normalize, Persist, PersistMarket,
             MarketWriteFails, PersistTraders, TraderWriteFails, CheckFreshness,
             MonitorPass, Finish,
             vars, dedupVars, frameVars
      <3>. QED  BY <3>1, <3>2
    <2>2. sink'.market \subseteq owed
      <3>1. CASE PersistMarket \/ MarketWriteFails
        <4>1. /\ pc = "accepting"
              /\ sink'.market \in {sink.market, sink.market \cup MarketRows}
          BY <1>1, <3>1 DEF PersistMarket, MarketWriteFails, WriteRaises, Numbered
        <4>. QED  BY <4>1 DEF OwedOnce
      <3>2. CASE ~ (PersistMarket \/ MarketWriteFails)
        <4>1. sink'.market = sink.market
          <5>1. CASE Quiet
            BY <1>1, <5>1, QuietKeeps DEF Kept
          <5>2. CASE \E f \in Frames : Receive(f)
            BY <1>1, <5>2, ReceiveNumbers DEF WithRaw, Numbered
          <5>3. CASE PersistTraders \/ TraderWriteFails
            BY <1>1, <5>3 DEF PersistTraders, TraderWriteFails, WriteRaises, Numbered
          <5>. QED  BY <1>3, <3>2, <5>1, <5>2, <5>3, NextCases DEF Persist
        <4>. QED  BY <4>1 DEF OwedOnce
      <3>. QED  BY <3>1, <3>2
    <2>3. pc' = "accepting" => MarketRows' \subseteq owed
      <3>1. CASE Normalize
        BY <3>1 DEF Normalize, MarketRows
      <3>2. CASE ~ Normalize
        <4>1. pc' = "accepting" => pc = "accepting" /\ UNCHANGED <<accepted, metrics.received>>
          <5>1. CASE DropDuplicate
            BY <1>1, <5>1, QuietKeeps DEF DropDuplicate, Quiet, Kept
          <5>2. CASE ~ DropDuplicate
            BY <1>3, <3>2, <5>2 DEF Next, Tick, Open, Receive, Archived, ArchiveRaises, Parse,
                ParseFails, ControlFrame, NormalizationFails, SchemaRejects, Persist,
                PersistMarket, MarketWriteFails, PersistTraders, TraderWriteFails,
                CheckFreshness, MonitorPass, Finish, vars, frameVars
          <5>. QED  BY <5>1, <5>2
        <4>. QED  BY <4>1 DEF OwedOnce, MarketRows, rawId
      <3>. QED  BY <3>1, <3>2
    <2>4. /\ \A r \in owed :
                \E j \in 1 .. Len(admitted) :
                    Dedup!Identity(admitted[j].event) = Dedup!Identity(r.event)
          /\ \A r, q \in owed : Dedup!Identity(r.event) = Dedup!Identity(q.event) => r = q
      BY DEF OwedOnce
    <2>. QED  BY <2>1, <2>2, <2>3, <2>4 DEF OwedOnce
  <1>. QED  BY <1>2, <1>3

(* No event is counted twice: as long as the detector's capacity and       *)
(* window hold the run, no two market rows in the sink have one identity,  *)
(* however often frames are redelivered and writes raise.                  *)
THEOREM CountsOnce ==
    ASSUME Window \in Nat, Capacity \in Nat, MaxTime <= Window
    PROVE  Spec /\ [](Len(admitted) <= Capacity) => []NoDoubleCount
  <1>1. Handling /\ Mirrors /\ OwedOnce /\ (Len(admitted) <= Capacity)' /\ [Next]_vars
            => Mirrors' /\ OwedOnce'
    BY MirrorsStep, OwedOnceStep DEF NothingForgotten
  <1>2. OwedOnce => NoDoubleCount
    BY DEF OwedOnce, NoDoubleCount
  <1>. QED  BY HandlingInvariance, InitMirrors, <1>1, <1>2, PTL DEF Spec
=============================================================================

---------------------------- MODULE GapDetector ----------------------------
(***************************************************************************)
(* The per-stream continuity tracker of services/market_data/gaps.py.      *)
(*                                                                         *)
(* A stream is one (asset, event type) pair.  The detector keeps, for each *)
(* stream, the highest sequence number seen and the receipt time of the    *)
(* last message, and returns a report whenever a sequence number jumps     *)
(* forward.  Messages may arrive repeated, late or never, and carry a      *)
(* wall-clock receipt time that may step back: every order of              *)
(* observations over SeqNumbers and Times is a behaviour.                  *)
(*                                                                         *)
(* started, observed and reports are history: the first number and every   *)
(* number observed, and every report ever returned by observe().           *)
(***************************************************************************)
EXTENDS Integers, FiniteSets

CONSTANTS
    Streams,            \* the (asset, event type) pairs
    SeqNumbers,         \* sequence numbers the venue assigns
    Times,              \* wall-clock receipt times
    SilenceThreshold,   \* silence_threshold
    None                \* Python's None

(* What the constants must satisfy: Recorder, which instantiates this      *)
(* module, assumes it of its own, and the theorems about it assume it.     *)
GapDetectorAssumption ==
    /\ SeqNumbers \subseteq Nat
    /\ Times \subseteq Nat
    /\ None \notin Nat
    /\ SilenceThreshold \in Nat

VARIABLES
    positions,  \* stream -> StreamPosition
    started,    \* history: stream -> the first sequence number observed on it
    observed,   \* history: stream -> sequence numbers observed on it
    reports     \* history: the sequence gaps returned

vars == <<positions, started, observed, reports>>

----------------------------------------------------------------------------
(* StreamPosition and GapReport.  A stream whose lastSeenAt is None has no *)
(* entry in the detector's dict yet.                                       *)

StreamPosition ==
    [lastSequence : Nat \cup {None}, lastSeenAt : Nat \cup {None}]

NewPosition == [lastSequence |-> None, lastSeenAt |-> None]

GapReport ==
    [stream : Streams, expected : Nat, actual : Nat, gapStart : Nat, gapEnd : Nat]

MissingNumbers(report) == report.expected .. (report.actual - 1)

----------------------------------------------------------------------------
(* Mutants of observe().                                                   *)

Advanced_Rewinds(previous, sequence) ==
    IF sequence = None THEN previous ELSE sequence

SequenceGap_IncludesPrevious(s, position, sequence, seenAt) ==
    IF sequence # None /\ position.lastSequence # None
       /\ sequence > position.lastSequence + 1
    THEN {[stream   |-> s,
           expected |-> position.lastSequence,
           actual   |-> sequence,
           gapStart |-> position.lastSeenAt,
           gapEnd   |-> seenAt]}
    ELSE {}

----------------------------------------------------------------------------
(* The last sequence number moves forward only.                            *)
Advanced(previous, sequence) ==
    IF sequence # None /\ (previous = None \/ sequence > previous)
    THEN sequence
    ELSE previous

(* Only a forward jump proves absence.                                     *)
Jumps(previous, sequence) ==
    /\ sequence # None
    /\ previous # None
    /\ sequence > previous + 1

(* The position after one observation.                                     *)
Observed(position, sequence, seenAt) ==
    [lastSequence |-> Advanced(position.lastSequence, sequence),
     lastSeenAt   |-> seenAt]

(* The report observe() returns: a set of at most one.                     *)
SequenceGap(s, position, sequence, seenAt) ==
    IF Jumps(position.lastSequence, sequence)
    THEN {[stream   |-> s,
           expected |-> position.lastSequence + 1,
           actual   |-> sequence,
           gapStart |-> position.lastSeenAt,
           gapEnd   |-> seenAt]}
    ELSE {}

(* check_silence(): the streams quiet for longer than the threshold.       *)
SilentStreams(now) ==
    {s \in Streams :
        /\ positions[s].lastSeenAt # None
        /\ now - positions[s].lastSeenAt > SilenceThreshold}

----------------------------------------------------------------------------
Init ==
    /\ positions = [s \in Streams |-> NewPosition]
    /\ started = [s \in Streams |-> None]
    /\ observed = [s \in Streams |-> {}]
    /\ reports = {}

Observe(s, sequence, seenAt) ==
    /\ positions' = [positions EXCEPT ![s] = Observed(@, sequence, seenAt)]
    /\ started' = [started EXCEPT ![s] = IF @ = None THEN sequence ELSE @]
    /\ observed' = [observed EXCEPT ![s] = @ \cup ({sequence} \ {None})]
    /\ reports' = reports \cup SequenceGap(s, positions[s], sequence, seenAt)

Next ==
    \E s \in Streams, sequence \in SeqNumbers \cup {None}, seenAt \in Times :
        Observe(s, sequence, seenAt)

Spec == Init /\ [][Next]_vars

----------------------------------------------------------------------------
TypeOK ==
    /\ positions \in [Streams -> StreamPosition]
    /\ started \in [Streams -> Nat \cup {None}]
    /\ observed \in [Streams -> SUBSET Nat]
    /\ reports \subseteq GapReport

(* The numbers some report on stream s claims missing.                     *)
ReportedMissing(s) ==
    UNION {MissingNumbers(r) : r \in {q \in reports : q.stream = s}}

(* No silent loss: every number from the first a stream delivered up to    *)
(* its highest was observed, or some report of observe() claims it missing *)
(* -- however messages are repeated, reordered or dropped (gaps.py:        *)
(* "missing data must never silently disappear").                          *)
Coverage ==
    \A s \in Streams :
        started[s] # None =>
            \A n \in started[s] .. positions[s].lastSequence :
                n \in observed[s] \cup ReportedMissing(s)

(* No loss is counted twice: the intervals reported for one stream are     *)
(* pairwise disjoint, so the sum of missing_count over the reports never   *)
(* exceeds what is missing.                                                *)
ReportsDisjoint ==
    \A r, q \in reports :
        r.stream = q.stream /\ r # q => MissingNumbers(r) \cap MissingNumbers(q) = {}

(* A report is definite: at the moment observe() returns it, none of the   *)
(* numbers it claims missing had been received.  (Late delivery may fill   *)
(* the interval afterwards.)                                               *)
ReportsAreDefinite ==
    [][\A r \in reports' \ reports : MissingNumbers(r) \cap observed[r.stream] = {}]_vars

(* What makes the three properties above inductive: the last number is the *)
(* highest observed, a stream with a number has a receipt time, and every  *)
(* report ends at or below the last number of its stream.                  *)
PositionsSummarise ==
    \A s \in Streams :
        /\ started[s] = None <=> positions[s].lastSequence = None
        /\ positions[s].lastSequence = None => observed[s] = {}
        /\ positions[s].lastSequence # None =>
              /\ positions[s].lastSequence \in observed[s]
              /\ positions[s].lastSeenAt # None
              /\ \A n \in observed[s] : n <= positions[s].lastSequence

ReportsBehindPosition ==
    \A r \in reports :
        /\ positions[r.stream].lastSequence # None
        /\ r.expected < r.actual
        /\ r.actual <= positions[r.stream].lastSequence

IInv ==
    /\ TypeOK
    /\ PositionsSummarise
    /\ ReportsBehindPosition
    /\ Coverage
    /\ ReportsDisjoint
=============================================================================

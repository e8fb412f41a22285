------------------------------ MODULE Recorder ------------------------------
(***************************************************************************)
(* The recorder loop of services/market_data/recorder.py: one frame at a   *)
(* time is received, archived, parsed, normalized, deduplicated, checked   *)
(* for continuity, persisted and followed by a freshness check.            *)
(*                                                                         *)
(* An action is the code between two awaits of _handle(), so every await   *)
(* of the sink is a place where the process may stop, time may pass and    *)
(* the write may raise.  The duplicate detector and the gap detector are   *)
(* the components DuplicateDetector and GapDetector: their actions are     *)
(* conjoined here, on the same variables.                                  *)
(*                                                                         *)
(* The source may deliver any frame of Frames, any number of times and in  *)
(* any order; a frame carries what normalize() makes of it.  A write that  *)
(* raises may or may not have stored its rows.                             *)
(*                                                                         *)
(* On the command line a monitor, Monitor's other task, moves the same     *)
(* state machine: MonitorPass is what the recorder sees of it.             *)
(***************************************************************************)
EXTENDS Integers, Sequences, FiniteSetsExt, RecorderState

CONSTANTS
    Frames,             \* records [kind, events, traders]
    Streams,            \* the (asset, event type) pairs of their events
    SeqNumbers,         \* the sequence numbers of their events
    MaxFrames,          \* bound on frames received
    MaxTime,            \* bound on the clock
    HeartbeatThreshold, \* threshold of Heartbeat
    SilenceThreshold,   \* silence_threshold of GapDetector
    StalenessLimit,     \* staleness_limit of the monitor
    Window,             \* window of DuplicateDetector
    Capacity,           \* capacity of DuplicateDetector
    FailingWrites,      \* the sink operations that may raise
    None                \* Python's None

Kinds == {"data", "control", "unparseable", "unnormalizable", "rejected"}
Verdicts == {"VALID", "WARNING", "INVALID"}
Times == 0 .. MaxTime
Operations == {"raw", "gap", "market", "trader", "flush"}

AllEvents == UNION {{f.events[i] : i \in DOMAIN f.events} : f \in Frames}

ASSUME FramesAssumption ==
    /\ \A f \in Frames :
          f.kind \in Kinds /\ f.traders \in Nat /\ f.events \in Seq(AllEvents)
    /\ \A e \in AllEvents :
          /\ e.stream \in Streams
          /\ e.sequence \in SeqNumbers \cup {None}
          /\ e.quality \in Verdicts
    /\ MaxFrames \in Nat /\ MaxTime \in Nat
    /\ HeartbeatThreshold \in Nat /\ StalenessLimit \in Nat
    /\ FailingWrites \subseteq Operations

VARIABLES
    now,        \* clock.now()
    pc,         \* where run() and _handle() are
    state,      \* machine.state
    lastDataAt, \* heartbeat.last_data_at
    metrics,    \* RecorderMetrics
    delivered,  \* history: the frames received, the n-th under raw id n
    pending,    \* market events of the current frame still to accept
    accepted,   \* market events of the current frame accepted so far
    owed,       \* history: every row _accept_market_events() returned
    sink        \* what the sink has stored

VARIABLES seen, stats, admitted, highest   \* DuplicateDetector
VARIABLES positions, started, observed, reports     \* GapDetector

dedupVars == <<seen, stats, admitted, highest>>
gapVars == <<positions, started, observed, reports>>
frameVars == <<delivered, pending, accepted, owed>>
vars == <<now, pc, state, lastDataAt, metrics, frameVars, sink, dedupVars, gapVars>>

Dedup == INSTANCE DuplicateDetector
    WITH Events <- AllEvents, ClockStep <- 0
Gaps == INSTANCE GapDetector

ASSUME DetectorAssumption == Gaps!GapDetectorAssumption

rawId == metrics.received       \* raw_id: the receive counter and the time
frame == delivered[rawId]

receivedAt_ReadAgain == now     \* mutant: not the time on the frame

receivedAt == lastDataAt        \* received_at of the frame in hand

----------------------------------------------------------------------------
Init ==
    /\ now = 0
    /\ pc = "opening"
    /\ state = "STARTING"
    /\ lastDataAt = None
    /\ metrics = [received |-> 0, archived |-> 0, parsed |-> 0, invalid |-> 0,
                  control |-> 0, marketWritten |-> 0, traderWritten |-> 0,
                  duplicates |-> 0, gaps |-> 0, persistFailures |-> 0,
                  quality |-> [VALID |-> 0, WARNING |-> 0, INVALID |-> 0]]
    /\ delivered = <<>>
    /\ pending = <<>>
    /\ accepted = <<>>
    /\ owed = {}
    /\ sink = [raw |-> {}, market |-> {}, trader |-> {}, gaps |-> {}]
    /\ Dedup!Init
    /\ Gaps!Init

Tick ==
    /\ now < MaxTime
    /\ now' = now + 1
    /\ UNCHANGED <<pc, state, lastDataAt, metrics, frameVars, sink, dedupVars, gapVars>>

----------------------------------------------------------------------------
(* run(): the four transitions made before the source is iterated; no      *)
(* await lies between them.                                                *)
OpeningPath == <<"STARTING", "CONNECTING", "CONNECTED", "SUBSCRIBING", "HEALTHY">>

Open ==
    /\ pc = "opening"
    /\ state = OpeningPath[1]
    /\ \A i \in 1 .. 4 : CanTransition(OpeningPath[i], OpeningPath[i + 1])
    /\ state' = OpeningPath[5]
    /\ pc' = "receiving"
    /\ UNCHANGED <<now, lastDataAt, metrics, frameVars, sink, dedupVars, gapVars>>

(* _degrade(): not if already there or not permitted.                      *)
Degraded == IF CanTransition(state, "DEGRADED") THEN "DEGRADED" ELSE state

CountFailure == metrics' = [metrics EXCEPT !.persistFailures = @ + 1]

(* A write that raises: its rows are stored or they are not (a batch is    *)
(* extended before its flush fails).                                       *)
WriteRaises(operation, stored) ==
    /\ operation \in FailingWrites
    /\ sink' \in {sink, stored}

WithRaw == [sink EXCEPT !.raw = @ \cup {rawId + 1}]

Archived ==
    /\ sink' = WithRaw
    /\ metrics' = [metrics EXCEPT !.received = @ + 1, !.archived = @ + 1]
    /\ pc' = "parsing"
    /\ UNCHANGED state

ArchiveRaises_ButContinues ==
    /\ WriteRaises("raw", WithRaw)
    /\ metrics' = [metrics EXCEPT !.received = @ + 1, !.persistFailures = @ + 1]
    /\ state' = Degraded
    /\ pc' = "parsing"

(* Counted, degraded, and nothing derived from the frame.                  *)
ArchiveRaises ==
    /\ WriteRaises("raw", WithRaw)
    /\ metrics' = [metrics EXCEPT !.received = @ + 1, !.persistFailures = @ + 1]
    /\ state' = Degraded
    /\ UNCHANGED pc

(* 1. A frame arrives and is archived before anything can go wrong.        *)
Receive(f) ==
    /\ pc = "receiving"
    /\ Len(delivered) < MaxFrames
    /\ delivered' = Append(delivered, f)
    /\ lastDataAt' = now
    /\ Archived \/ ArchiveRaises
    /\ UNCHANGED <<now, pending, accepted, owed, dedupVars, gapVars>>

----------------------------------------------------------------------------
(* parse_message() raises MessageParseError.                               *)
ParseFails ==
    /\ pc = "parsing"
    /\ frame.kind = "unparseable"
    /\ metrics' = [metrics EXCEPT !.invalid = @ + 1]
    /\ pc' = "receiving"
    /\ UNCHANGED <<now, state, lastDataAt, frameVars, sink, dedupVars, gapVars>>

(* Acknowledgements and pongs end here, before the freshness check.        *)
ControlFrame ==
    /\ pc = "parsing"
    /\ frame.kind = "control"
    /\ metrics' = [metrics EXCEPT !.parsed = @ + 1, !.control = @ + 1]
    /\ pc' = "receiving"
    /\ UNCHANGED <<now, state, lastDataAt, frameVars, sink, dedupVars, gapVars>>

(* normalize() raises NormalizationError.                                  *)
NormalizationFails ==
    /\ pc = "parsing"
    /\ frame.kind = "unnormalizable"
    /\ metrics' = [metrics EXCEPT !.parsed = @ + 1, !.invalid = @ + 1]
    /\ pc' = "receiving"
    /\ UNCHANGED <<now, state, lastDataAt, frameVars, sink, dedupVars, gapVars>>

(* The event schema's validators raise: neither caught here nor in run().  *)
SchemaRejects ==
    /\ pc = "parsing"
    /\ frame.kind = "rejected"
    /\ metrics' = [metrics EXCEPT !.parsed = @ + 1]
    /\ pc' = "raised"
    /\ UNCHANGED <<now, state, lastDataAt, frameVars, sink, dedupVars, gapVars>>

Normalize ==
    /\ pc = "parsing"
    /\ frame.kind = "data"
    /\ metrics' = [metrics EXCEPT !.parsed = @ + 1]
    /\ pending' = frame.events
    /\ accepted' = <<>>
    /\ pc' = "accepting"
    /\ UNCHANGED <<now, state, lastDataAt, delivered, owed, sink, dedupVars, gapVars>>

----------------------------------------------------------------------------
(* _accept_market_events(), one event of the frame at a time.              *)

DropDuplicate ==
    /\ pc = "accepting"
    /\ pending # <<>>
    /\ Dedup!Duplicate(Head(pending), receivedAt)
    /\ metrics' = [metrics EXCEPT !.duplicates = @ + 1]
    /\ pending' = Tail(pending)
    /\ UNCHANGED <<now, pc, state, lastDataAt, delivered, accepted, owed, sink, gapVars>>

(* The gap observe() returns for the event, if any.                        *)
NewGap(e) == Gaps!SequenceGap(e.stream, positions[e.stream], e.sequence, receivedAt)

Accepted_GapOnlyCounted(e) ==
    /\ metrics' = [metrics EXCEPT !.gaps = @ + Cardinality(NewGap(e)),
                                  !.quality[e.quality] = @ + 1]
    /\ accepted' = Append(accepted, e)
    /\ owed' = owed \cup {[event |-> e, raw |-> rawId]}
    /\ UNCHANGED <<pc, sink>>

(* The event is accepted whatever its quality verdict.                     *)
Accepted(e) ==
    /\ sink' = [sink EXCEPT !.gaps = @ \cup NewGap(e)]
    /\ metrics' = [metrics EXCEPT !.gaps = @ + Cardinality(NewGap(e)),
                                  !.quality[e.quality] = @ + 1]
    /\ accepted' = Append(accepted, e)
    /\ owed' = owed \cup {[event |-> e, raw |-> rawId]}
    /\ UNCHANGED pc

(* write_gap() raises: outside any try, so the exception leaves run() with *)
(* the identity remembered and the position advanced.                      *)
GapWriteRaises(e) ==
    /\ NewGap(e) # {}
    /\ WriteRaises("gap", [sink EXCEPT !.gaps = @ \cup NewGap(e)])
    /\ metrics' = [metrics EXCEPT !.gaps = @ + 1]
    /\ pc' = "raised"
    /\ UNCHANGED <<accepted, owed>>

(* An event not seen before: the gap it implies is written first.          *)
AcceptEvent ==
    /\ pc = "accepting"
    /\ pending # <<>>
    /\ LET e == Head(pending)
       IN  /\ Dedup!Admit(e, receivedAt)
           /\ Gaps!Observe(e.stream, e.sequence, receivedAt)
           /\ Accepted(e) \/ GapWriteRaises(e)
    /\ pending' = Tail(pending)
    /\ UNCHANGED <<now, state, lastDataAt, delivered>>

----------------------------------------------------------------------------
MarketRows == {[event |-> accepted[i], raw |-> rawId] : i \in DOMAIN accepted}

(* 5. Persist: the accepted market events, when there are any.             *)
PersistMarket ==
    /\ pc = "accepting"
    /\ pending = <<>>
    /\ sink' = [sink EXCEPT !.market = @ \cup MarketRows]
    /\ metrics' = [metrics EXCEPT !.marketWritten = @ + Len(accepted)]
    /\ pc' = "traders"
    /\ UNCHANGED <<now, state, lastDataAt, frameVars, dedupVars, gapVars>>

MarketWriteFails_Uncounted ==
    /\ pc = "accepting"
    /\ pending = <<>>
    /\ accepted # <<>>
    /\ WriteRaises("market", [sink EXCEPT !.market = @ \cup MarketRows])
    /\ state' = Degraded
    /\ pc' = "receiving"
    /\ UNCHANGED <<now, lastDataAt, metrics, frameVars, dedupVars, gapVars>>

MarketWriteFails_GoesOn ==
    /\ pc = "accepting"
    /\ pending = <<>>
    /\ accepted # <<>>
    /\ WriteRaises("market", [sink EXCEPT !.market = @ \cup MarketRows])
    /\ CountFailure
    /\ state' = Degraded
    /\ pc' = "traders"
    /\ UNCHANGED <<now, lastDataAt, frameVars, dedupVars, gapVars>>

(* The write raises: the rest of the frame is given up.                    *)
MarketWriteFails ==
    /\ pc = "accepting"
    /\ pending = <<>>
    /\ accepted # <<>>
    /\ WriteRaises("market", [sink EXCEPT !.market = @ \cup MarketRows])
    /\ CountFailure
    /\ state' = Degraded
    /\ pc' = "receiving"
    /\ UNCHANGED <<now, lastDataAt, frameVars, dedupVars, gapVars>>

TraderRows == IF frame.traders > 0 THEN {rawId} ELSE {}

(* Trader events are written for every frame that has them, whether or not *)
(* its market events were duplicates.                                      *)
PersistTraders ==
    /\ pc = "traders"
    /\ sink' = [sink EXCEPT !.trader = @ \cup TraderRows]
    /\ metrics' = [metrics EXCEPT !.traderWritten = @ + frame.traders]
    /\ pc' = "checking"
    /\ UNCHANGED <<now, state, lastDataAt, frameVars, dedupVars, gapVars>>

(* The write raises: degraded, and on to the freshness check.              *)
TraderWriteFails ==
    /\ pc = "traders"
    /\ TraderRows # {}
    /\ WriteRaises("trader", [sink EXCEPT !.trader = @ \cup TraderRows])
    /\ CountFailure
    /\ state' = Degraded
    /\ pc' = "checking"
    /\ UNCHANGED <<now, lastDataAt, frameVars, dedupVars, gapVars>>

----------------------------------------------------------------------------
(* Heartbeat.is_silent()                                                   *)
IsSilent == lastDataAt # None /\ now - lastDataAt > HeartbeatThreshold

(* 6. Monitor: degrade if silent, else return to HEALTHY if degraded.      *)
CheckFreshness ==
    /\ pc = "checking"
    /\ state' = IF IsSilent THEN Degraded
                ELSE IF state = "DEGRADED" THEN "HEALTHY" ELSE state
    /\ pc' = "receiving"
    /\ UNCHANGED <<now, lastDataAt, metrics, frameVars, sink, dedupVars, gapVars>>

(* A pass of the monitor, which shares the machine: one that finds the     *)
(* connection alive and every stream fresh returns the state to HEALTHY,   *)
(* whatever it was that degraded it; one that does not degrades it, maybe  *)
(* late, as it may be suspended between what it read and what it concludes.*)
StaleStreams ==
    {s \in Streams :
        /\ positions[s].lastSeenAt # None
        /\ now - positions[s].lastSeenAt > StalenessLimit}

MonitorRecovers ==
    /\ state = "DEGRADED"
    /\ ~ IsSilent
    /\ StaleStreams = {}
    /\ state' = "HEALTHY"

MonitorDegrades ==
    /\ state = "HEALTHY"
    /\ lastDataAt # None
    /\ state' = "DEGRADED"

MonitorPass ==
    /\ MonitorRecovers \/ MonitorDegrades
    /\ UNCHANGED <<now, pc, lastDataAt, metrics, frameVars, sink, dedupVars, gapVars>>

(* The source is exhausted: flush, and run() returns its metrics -- or the *)
(* flush raises out of run().                                              *)
Finish ==
    /\ pc = "receiving"
    /\ pc' \in {"finished"} \cup (IF "flush" \in FailingWrites THEN {"raised"} ELSE {})
    /\ UNCHANGED <<now, state, lastDataAt, metrics, frameVars, sink, dedupVars, gapVars>>

Parse == ParseFails \/ ControlFrame \/ NormalizationFails \/ SchemaRejects \/ Normalize

Persist == PersistMarket \/ MarketWriteFails \/ PersistTraders \/ TraderWriteFails

Next ==
    \/ Tick
    \/ Open
    \/ \E f \in Frames : Receive(f)
    \/ Parse
    \/ DropDuplicate
    \/ AcceptEvent
    \/ Persist
    \/ CheckFreshness
    \/ MonitorPass
    \/ Finish

Spec == Init /\ [][Next]_vars

----------------------------------------------------------------------------
Row == [event : AllEvents, raw : 1 .. MaxFrames]

RecorderMetrics ==
    [received : Nat, archived : Nat, parsed : Nat, invalid : Nat, control : Nat,
     marketWritten : Nat, traderWritten : Nat, duplicates : Nat, gaps : Nat,
     persistFailures : Nat, quality : [Verdicts -> Nat]]

TypeOK ==
    /\ now \in Times
    /\ pc \in {"opening", "receiving", "parsing", "accepting", "traders",
              "checking", "finished", "raised"}
    /\ state \in RecorderStates
    /\ lastDataAt \in Times \cup {None}
    /\ metrics \in RecorderMetrics
    /\ delivered \in Seq(Frames)
    /\ metrics.received = Len(delivered)
    /\ pending \in Seq(AllEvents)
    /\ accepted \in Seq(AllEvents)
    /\ owed \subseteq Row
    /\ sink.raw \subseteq 1 .. MaxFrames
    /\ sink.market \subseteq Row
    /\ sink.trader \subseteq 1 .. MaxFrames
    /\ sink.gaps \subseteq Gaps!GapReport

(* The promises of the gap detector (see GapDetector), of the detector as  *)
(* the recorder drives it: behind the duplicate detector, with every write *)
(* failing at will.                                                        *)
ReportsDisjoint == Gaps!ReportsDisjoint
ReportsAreDefinite == Gaps!ReportsAreDefinite

(* Nothing is silent: as long as no exception has left run(), every number *)
(* a stream skipped or carried since its first is either in an archived    *)
(* raw frame or inside a gap the sink has stored -- even when its event    *)
(* was dropped as a duplicate, arrived late, or failed to be stored.       *)
Archives(s, n) ==
    \E id \in sink.raw :
        \E i \in DOMAIN delivered[id].events :
            /\ delivered[id].events[i].stream = s
            /\ delivered[id].events[i].sequence = n

NothingSilent ==
    pc # "raised" =>
        \A s \in Streams :
            started[s] # None =>
                \A n \in started[s] .. positions[s].lastSequence :
                    \/ Archives(s, n)
                    \/ \E g \in sink.gaps : g.stream = s /\ n \in Gaps!MissingNumbers(g)

(* What a frame can lose: its payload, a row owed for it, its trader rows. *)
LacksPayload(id) == id \notin sink.raw

LacksMarketRow(id) == \E row \in owed : row.raw = id /\ row \notin sink.market

LacksTraderRows(id) ==
    /\ delivered[id].kind = "data"
    /\ delivered[id].traders > 0
    /\ id \notin sink.trader

HasLoss(id) == LacksPayload(id) \/ LacksMarketRow(id) \/ LacksTraderRows(id)

(* No uncounted loss: between frames, there is a counted persistence       *)
(* failure for every frame that has lost something.                        *)
LossesCounted ==
    pc \in {"receiving", "finished"} =>
        Cardinality({id \in DOMAIN delivered : HasLoss(id)}) <= metrics.persistFailures

(* No event is counted twice: with a window and a capacity large enough    *)
(* for the run, no two stored market rows have one identity, however often *)
(* frames are redelivered and writes raise.                                *)
NoDoubleCount ==
    \A r, q \in sink.market :
        Dedup!Identity(r.event) = Dedup!Identity(q.event) => r = q

(* A loss is made visible ("must be visible rather than reported as        *)
(* healthy", state.py): no frame that has lost its payload or a market row *)
(* it owed leaves the machine HEALTHY.  The machine can be HEALTHY with    *)
(* that loss behind it only because the monitor, a task that knows nothing *)
(* of losses, took it back between frames, on a connection that is alive   *)
(* and streams that are fresh.                                             *)
HealthyAfterLoss ==
    /\ pc = "receiving" /\ delivered # <<>>
    /\ LacksPayload(rawId) \/ LacksMarketRow(rawId)
    /\ state = "HEALTHY"

LossVisible ==
    [][HealthyAfterLoss' =>
          \/ HealthyAfterLoss
          \/ pc = "receiving" /\ rawId' = rawId /\ ~ IsSilent /\ StaleStreams = {}]_vars

(* The monitor's view of a run: what the recorder does to the heartbeat,   *)
(* the positions and the state are steps the monitor is checked against,   *)
(* whichever writes fail and wherever an exception leaves the frame -- so  *)
(* what Monitor shows is true of a monitor beside this recorder.           *)
Watched == INSTANCE Monitor
    WITH state <- IF pc = "opening" THEN "HEALTHY" ELSE state,
         pc <- "sleeping", stop <- FALSE, nextCheck <- 0, check <- None, last <- None,
         reported <- {}, registered <- <<>>, Interval <- 0, CallbackFails <- FALSE

AsMonitored ==
    /\ Watched!Init
    /\ [][MonitorPass \/ Watched!Tick \/ Watched!Handle]_(Watched!vars)

(* "A frame that cannot be processed does not stop the recorder."          *)
KeepsRunning == pc # "raised"

(* The recorder implements the evidence promise: the raw frame before      *)
(* anything derived from it, nothing taken back.                           *)
Evidence == INSTANCE EvidenceArchive
    WITH Frames <- 1 .. MaxFrames,
         archive <- sink.raw,
         derived <- {row.raw : row \in sink.market} \cup sink.trader
KeepsEvidence == Evidence!Spec

=============================================================================

# TLA+ verification of the market-data recorder

This directory holds TLA+ models of the program, TLC configurations that check
them on small instances, and TLAPS proofs for every value of the constants.

What exists of the program today is a **market-data recorder**: it connects to a
venue, archives every frame it receives, derives normalized events, and watches
its own continuity. The trading engines (`src/services/*_engine`) are empty
packages described in `docs/`. The recorder's own promise is the thread through
all the models: *raw evidence first, nothing lost silently, nothing counted
twice, and a state that does not claim health while data is missing*.

## 1. Inventory

Concurrency is that of one asyncio event loop: two tasks (recorder and monitor)
interleave at `await`s, and every `await` of a store or of the venue is a place
where time passes, the call raises, or the process ends.

| Component (source) | State | Operations | Interacts with | Hard behaviours |
|---|---|---|---|---|
| WebSocket source (`libs/exchange/hyperliquid/websocket.py`) | attempt counter, disconnect time, the sleep | `frames()`, `_subscribe()`, `delay_for()` | venue, event loop; yields frames to the recorder | refused attempts, drops while subscribing, clean and unclean ends, long outages |
| Recorder (`services/market_data/recorder.py`) | metrics, raw id counter, the frame in hand | `run()`, `_handle()` and its six stages | source, sink, both detectors, heartbeat, state machine | any write raising with or without storing; redelivery; exceptions nobody catches |
| State machine (`state.py`) | the state, its history | `to()`, `can()` | moved by recorder **and** monitor | two writers with different evidence |
| Gap detector, heartbeat (`gaps.py`) | last number and receipt time per stream; last data time | `observe()`, `check_silence()`, `is_silent()` | called by the recorder, read by the monitor | late, repeated and lost messages; a wall clock that steps back |
| Duplicate detector (`dedup.py`) | ordered dictionary of identities, counters | `is_duplicate()` with expiry and eviction | called by the recorder | bound and window at their limits; clock steps; identity collisions |
| Monitor (`monitor.py`) | reported gap ids, the schedule | `check()`, `run()` | gap detector, heartbeat, state machine, `on_gap` callback | a pass is suspended in the middle; the callback raises |
| Store sink (`store_sinks.py`) | three batches, age of the oldest row | `write_raw/market/trader`, `write_gap`, `flush` | object storage, ClickHouse, Postgres | half-done flushes, answers that are lost, crashes, quiet periods |
| Gap registry (`registry.py`, `postgres/003_data_gap_registry.sql`) | registered gaps and their status; the rows of `data_gaps` | `register`, `record_attempt`, `close`, `summary`; `write_gap` | monitor's callback; constraints of its table | any order of closes and attempts; a refused or half-done insert, crashes |
| Capture and replay (`capture.py`, `replay.py`, `libs/domain/clock.py`) | a session file; the clock of a replay | write, load, replay, compare | recorder | truncated files, frames without a time |
| Parsing, normalization, quality (`messages.py`, `normalize.py`, `quality.py`, `schemas/`) | none | `parse_message`, `normalize`, the schemas' validators, `validate` | recorder | three layers that judge one number, each relying on the others; a record that fails in the middle of a frame |
| Migrations (`libs/storage/migrations.py`) | ledger table | `discover`, `plan`, `apply` | Postgres, ClickHouse | a crash between a migration and its ledger row |
| Settings (`libs/config/settings.py`) | none after start | validators, `may_submit_orders`, `market_data_is_read_only` | command line | combinations of flags; two guards that read one key differently |
| Acceptance (`acceptance.py`, `infrastructure/scripts/acceptance_m1_m2.py`) | evidence counters | `decide_m1`, `decide_m2`, ordered sink | recorder | decisions over partial evidence |
| Command line (`cli.py`) | the two tasks and the stop event | `run`, replay, dry run, the report | composes all of the above | one task of two ending while the other sleeps, waits for a callback, or has died |

What makes each correct:

* **WebSocket source** - keeps trying as documented, gives up only after the
  configured number of consecutive failures, bounded sleeps, an outage dated
  from its beginning.
* **Recorder** - raw before derived; every loss counted; every skipped number
  archived or in a stored gap, or its gap's failed write the end of the run; no
  double count; a loss visible in the state until the monitor finds everything fresh;
  no frame stops it.
* **Gap detector** - every missing number reported, once, and only when really
  not received.
* **Duplicate detector** - redeliveries recognised within window and capacity, nothing
  dropped that does not repeat a recent event in all its identity covers, bounded memory.
* **Monitor** - every silence registered exactly once, no return to HEALTHY without
  recent evidence, a quiet stream or connection eventually noticed.
* **Parsing, normalization, quality** - a frame yields all its facts or none, is
  refused only for an impossible number, and what is usable for training is plausible.
* **Settings and command line** - reading market data opens no execution path; a run
  always ends, and its report omits no silence the monitor found.
* **Store sink** - event rows refer to indexed and archived frames, accepted
  rows are never dropped by a failing flush, repeated only when an answer was
  lost, and a crash costs less than one batch.
* **Gap registry** - a gap once written stays written, and what cannot be recovered
  stays declared.
* **Capture and replay** - what was archived is in the file and loads; a replay
  restores what was stored live; it is refused only for a clock that stepped back.
* **Migrations** - in order, each completely, recorded under the checksum of what
  was executed, and never on top of a history other than the one planned from.
* **Acceptance** - accepted only on a lossless run of sufficient coverage, failed
  only for a cause in the run.

## 2. Modules

| Module | Models | EXTENDS / INSTANCE |
|---|---|---|
| `GapDetector` | `gaps.py`: `observe()`, `check_silence()` | |
| `DuplicateDetector` | `dedup.py` | |
| `RecorderState` | the transition table of `state.py` | |
| `EvidenceArchive` | abstract: frames are kept, then rows are derived from kept frames, nothing is taken back | |
| `Recorder` | `recorder.py`, over any sink whose writes may raise, beside the passes of a monitor | extends `RecorderState`; instances `DuplicateDetector`, `GapDetector`; refines `EvidenceArchive` and the recorder's side of `Monitor` |
| `Monitor` | `monitor.py` beside the recorder's task, with its stop event | extends `RecorderState`; instances `GapDetector` |
| `Settings` | `settings.py`: what loads, and what it permits | |
| `CommandLine` | `run()` of `cli.py` around the two tasks | extends `Monitor`; instances `Settings` |
| `VenueMessages` | the pure functions of `messages.py`, `normalize.py`, the event schemas and `quality.py` | |
| `Normalization` | one frame's way through them, and what is left when one raises | extends `VenueMessages` |
| `StoreSink` | `store_sinks.py` and crashes of the process | refines `EvidenceArchive` |
| `GapRegistry` | `registry.py`, `write_gap()` and its table | |
| `WebSocketSource` | the reconnect loop | |
| `CaptureReplay` | `capture.py`, `replay.py`, `ReplayClock`, the capturing sink of `cli.py` | |
| `Migrations` | `migrations.py` bound to either store | |
| `Acceptance` | `acceptance_m1_m2.py` and the decisions of `acceptance.py` | |
| `RecorderProofs` | theorems about `Recorder` and the gap detector | extends `Recorder` |
| `CommandLineProofs` | theorems about `Monitor`, `Settings`, `CommandLine` | extends `CommandLine` |
| `StoreSinkProofs`, `DuplicateDetectorProofs`, `CaptureReplayProofs`, `AcceptanceProofs` | theorems about the module named | extend it |
| `DatabaseProofs` | theorems about `Migrations`, `GapRegistry` | extends both |
| `HyperliquidProofs` | theorems about `WebSocketSource`, `VenueMessages`, `Normalization` | extends `WebSocketSource`, `Normalization` |
| `MC*` | constants, state spaces and bounds for TLC | extend the module they check |

Operators whose names end in a description of a bug (`Advanced_Rewinds`,
`Remaining_DropsAll`, ...) are mutants: variants of the definition before the
underscore, never used by a specification, kept to show that a property fails
when the code is wrong in that way.

### How the models correspond to the code

**GapDetector.** `positions` is `_positions`; a stream that is not in the
dictionary has `lastSeenAt = None`. `Observe` is one call of `observe()`: the
position moves by `Observed`, and `SequenceGap` is the report returned.
`started`, `observed`, `reports` are history. `report_disconnect()` and
`Heartbeat.reset()` are never called by the program and are left out.

**DuplicateDetector.** `seen` is the `OrderedDict` as a sequence, oldest insertion
first. `Duplicate` and `Admit` are the two results of `is_duplicate()`, each with
the expiry that precedes them. Expiry stops at the first entry young enough, as
in the code, so an entry behind a younger one outlives its window after a clock
step. An event is the record of what its identity tells apart: stream, venue number,
hashed and unhashed fields. `Repeats` is when one stands for another.

**Recorder.** An action is the code between two `await`s; `pc` says between which. A
frame is what `normalize()` makes of it, or the way processing ends: `control`,
`unparseable`, `unnormalizable`, and `rejected` (the validators of the event
schema raise an exception that is not a `NormalizationError`); `Normalization` says
which frames are which. The two detectors
are instances on the recorder's own variables, so `AcceptEvent` is
`Dedup!Admit /\ Gaps!Observe /\ ...`. `FailingWrites` names the sink operations that
may raise; one that raises has stored its rows or not (`WriteRaises`). `run()`
makes its four opening transitions with no `await` between: one step. The monitor is
another task on the same state: between any two steps of a frame `MonitorPass` may recover
a degraded state over a connection that is alive and streams that are all fresh, or degrade
a healthy one that has had data.

**Monitor.** A pass with no new silence awaits nothing and is one step (`QuietPass`);
the others are split where they await: `BeginCheck` reads everything, `ReportSilence`
is one callback, `EndCheck` moves the state. The wait between two passes ends at the
interval or when the stop event wakes it (`StopWakes`). `Handle` is the recorder's
task step by step, as far as the monitor can see it: a frame is received and its archive
write may raise (`Receive`), an event of it moves the position of its stream
(`ObserveEvent`), a later write raises (`WriteFails`), or the frame is done
(`CheckFreshness`). So a frame may carry any streams and end after any of its steps.

**Recorder and Monitor together.** Each module has the other's task as far as it meets
it, and both halves are checked. `AsMonitored` says that what `Recorder` does to
heartbeat, positions and state is a step `Monitor` allows for (`Handle`), for every
frame, write that raises and exception. The theorem `PassesAsSeen` says that what
`Monitor` does to the state, suspended passes included, is a `MonitorPass` of `Recorder`.

**Settings.** `Loads` is every validator passing, `MaySubmitOrders` and
`MarketDataIsReadOnly` the two properties of the loaded settings; `VenueEndpoint` is the
derived address. `CouldMoveCapital` and `MisplacedKey` state what the guards are for
without using them. A key is its prefix, its length and whether it is hexadecimal.

**CommandLine.** `cmd` is the place in `run()`. `Starting` has one disjunct for each way
`run()` returns or raises before there are tasks, in the order of the code, and `Start`;
then the steps of `Monitor` are those of the two tasks. `RecordingEnds` is the `finally`
clause: how the recorder's task ended, and the stop event set, in one step, because
nothing is awaited in between. `Ending` is what follows the monitor's end: its
exception, the recorder's, or the report.

**VenueMessages, Normalization.** A field is its form and the number it stands for:
`Readable` is what `Decimal()` takes, `IsInteger` what `int()` takes. `Unnormalizable`
and `Rejected` are the two exceptions of a record, the second one from the validators.
`Normalization` applies them record by record in the order of the code; `Discard` is an
exception leaving with what had been made. The four outcomes are the kinds of frames
of `Recorder`. There duplicates are dropped before their quality is assessed;
here each event is assessed.

**StoreSink.** `allowed` is the caller's place in the frame: raw, then market, then
trader writes, each only if the one before returned. `FlushRaises` picks the table whose
insert raises: those before it are out, it is in doubt or not stored, and those
from it on stay pending. `Crash` empties the batches between any two calls. A
frame's rows for a table stand together as one row, so `BatchSize` counts those.

**GapRegistry.** `registry` is `_gaps`, an entry per registered report;
`NewEntry`, `Closed` and `Attempted` are the three `RegisteredGap` the code
builds. Beside it is the other place a gap goes: `Insert` and `Commit` are the two
calls of `write_gap()` that can fail, on a connection without autocommit that
nobody rolls back, so one that raised is `aborted` until the process starts anew.
No code updates a row after it is inserted, so the table holds reports.

**WebSocketSource.** `pc` is the place in `frames()`: `starting`, `connecting`,
`open`, `waiting`, `returned`, `raised`. `DelaysFor` is `delay_for()`: the capped delay
and any jitter within its fraction; the two ways it can raise are in `DelayDefined`.

**CaptureReplay.** Three phases of one file. *Live*: a line is handed to the file
and flushed before the inner sink sees the frame (`CaptureFrame`); `written` is
what was handed over and `onDisk` how much of it a crash leaves for certain.
*Loading*: one line a step, with the receipt times a bare frame is given
(`BareReceipt`) and the re-dating of leading frames at the end (`Anchored`).
*Replaying*: the replay clock refuses to go back, the duplicate detector is empty,
and the in-memory sink does not fail. A fixture is any file of a few lines, of
which some make the loader raise (`LoadRaises`).

**Migrations.** A run of a runner is `Discover` (the directory in one step), `Plan`
(against the ledger as it is then), and for each pending version its statements
(`ExecuteStatement`) and its row (`RecordMigration`), each a call of its own that can
fail with or without effect. `ChangeDirectory` is people. A content stands for its
checksum; `store` decides what the ledger does with a second row for a version.

**Acceptance.** `Deliver` is one frame through the capture, the ordering sink and the
recorder, in one step because nothing suspends in between; `EndRecording` is the time
limit or an exception, after which run() has neither recorder nor sinks (`Evidence`).
`M2State` is `decide_m2()` with its early return, `M1State` is `decide_m1()`.

## 3. Runs

Each run finishes within a minute or two. "Expected violation" runs each refute one
sentence of the repository's own documentation; see section 6.

| Run | Checks | Instance |
|---|---|---|
| `MCDuplicateDetector` | `RedeliveryRecognised`, `EntriesExpire`, `DropsOnlyRepeats` | 3 trades and 2 quotes that differ in size only, capacity 2, window 2, clock 0..5 stepping back 1, 5 calls |
| `MCRecorder` | `ReportsDisjoint`, `ReportsAreDefinite`, `NothingSilent`, `LossesCounted`, `NoDoubleCount`, `LossVisible`, `AsMonitored`, `KeepsEvidence` (refinements) | 9 frames of 5 kinds, 3 received, every write may raise, monitor passes anywhere |
| `MCStoreSink` | `IndexedEvidence`, `AcceptedKept`, `VolatileBounded`, `RepeatedOnlyInDoubt`, `KeepsEvidence` (refinement) | 3 frames (9 rows), batch of 3, 1 insert in doubt |
| `MCCommandLine` | `ReportedOnce`, `EverySilenceRegistered`, `RecoversOnEvidence`, `ReadOnlyRun`, `ReportIsComplete`; liveness: `SilenceNoticed`, `SilentConnectionDetected`, `CommandEnds` | every combination of settings and arguments; 2 streams, clock 0..3, limits of 1, callback may raise, every way to end |
| `MCHyperliquid` | `OutageStamped`, `GivesUpInTime`; `RejectedForCause`, `FactsComplete`, `UsableIsPlausible` | 4 attempts, all endings, clock 0..32; frames of every channel, fields of every form, both sides of every limit |
| `MCDatabase` | `EarlierRecordedFirst`, `RecordedAsExecuted`, `OneHistory`, `AppliedIsRecorded`; `WrittenIsKept` | 2 runners, versions up to 2, 2 contents, 2 edits, both stores; 2 gaps, one of them refused by the table, 3 closing times, 2 attempts |
| `MCCaptureReplay` | `ArchivedIsLoaded`, `ReplayRestores`, `RefusedOnlyForClock`, `SpanIsOfSession` | sessions of 3 frames, every fixture of up to 4 lines, 3 times |
| `MCAcceptance` | `AcceptedIsLossless`, `FailedForCause` | 2 channels, minimum 3, runs of up to 4 frames |
| `MCRecorderSchema`, `MCHyperliquidDrop` | expected violations: `KeepsRunning`, `KeepsTrying` | smallest that show them |
| `MCDatabaseUnrecoverable`, `MCDuplicateDetectorQuotes` | expected violations: `UnrecoverableStays`, `DropsNothingNew` | those of the passing runs |

`MCHyperliquid` and `MCDatabase` check two components each that share no state: one
rests where it began while the other takes its steps.


The runs are spent on what could be wrong. The type invariants are proved (`TypeCorrect`,
`RegistryTypeCorrect`, `NormalizationTypeCorrect`, `GapDetectorTypeCorrect`) instead of
checked, as are `Coverage`, `BoundedMemory`, `LedgerContiguous`, `SleepBounded` and
`AcceptedIsCovered`.

### Bounds, and why they are enough

* *Capacity 2, window 2, 5 calls*: both expiry and eviction happen within a
  behaviour, and a clock step of 1 puts receipt times out of order in `seen`. Numbers
  collide across streams, and two quotes share an identity.
* *Three frames through the recorder*: a first frame, a failure, and a redelivery
  or a jump after it; one of the nine frames comes late into the interval of a jump
  and skips a number itself, so a detector that moved back would report twice.
  `HeartbeatThreshold = 0` lets a single tick during a frame make it stale, and
  `StalenessLimit = 0` a stream, so passes of the monitor degrade and recover. The
  theorems have no bound on frames, streams, numbers or the clock.
* *`MaxTime`* bounds the clock. In `CommandLine` a stream must fall silent, come back, and
  fall silent again with passes between: 3 ticks leave room for that with limits of 1
  (silent means *strictly* older), because a frame received at 1 may be handled at 2, after
  the silence since 0 was found, and is itself too old at 3. Another stream's frames keep a
  silent stream apart from a silent connection. The time limit of 1 falls before, at
  and after the passes, as the interval is 1 too.
* *Settings*: every environment, both flags, keys of no, too few and the right number
  of characters with and without prefix and hexadecimal, lists that are empty, have empty
  names, or name an unsupported asset, in both forms, a limit of 0, a positive one, and
  one that a `timedelta` cannot hold.
* *Frames of the venue*: a trades frame has up to two entries, a book up to two levels a
  side. Each field takes every form in turn, numbers on both sides of 0 and of the
  limits of time, delay, skew and spread; a record differs from a good one in one field
  (two for a context), and both entries, or both sides, may be bad at once. Two
  readings of the clock are at the receipt time and before it.
* *Batch of 3, nine rows*: a flush by size falls on any of the three writes of
  a frame. Two clock readings make a batch old or not; the clock moves freely.
* *`MaxDoubts`* bounds the inserts that store their rows and raise; the property
  counts them, and the theorem has no bound.
* *Delays of 5, 10, 10 s* with a jitter of one second on the capped ones, and a
  clock of 32: an outage of all four attempts allowed, before or after a connection.
* *`MaxExponent`* stands for the largest power of the multiplier that is a float (1023
  for a multiplier of 2); the runs stay below it, the theorems hold for any.
* *Two runners, two versions, two edits*: a second runner can start from an older or
  newer directory at any point of the first one's run, and a file can be edited
  between discovery, execution and record. One content has two statements, so a run
  can stop between them. `MaxVersion`, `MaxEdits` and the contents are arbitrary in
  the theorems.
* *Three frames in a session* are a frame, its redelivery and another event; *times
  120, 121, 130* are one receipt delay and more apart and leave room for the re-dating
  of up to four leading frames above the cutoff.
* *Two gaps*: they meet only in the connection. The end of one precedes
  its start, so the table refuses it; the other has no end. `MaxAttempts` bounds the attempts.
* *Four frames, minimum 3*: each of two channels, the minimum, and one frame more that
  may be anything. The theorems have no bound.

`CHECK_DEADLOCK FALSE`: the clock is bounded, frames run out, the recorder
finishes or raises, the source returns; a real end is not an error. Runners of
migrations can always start over and a crash is always possible in
`GapRegistry`, so in `MCDatabase` deadlock is checked.

### Fairness

Liveness is stated of the command line and its monitor. `FairCommandSpec` has weak
fairness of `TimePasses`, of `MonitorSteps` (the event loop resumes a task whose sleep
is over, whose event is set, or whose callback answered), of `TimeLimitReached` (the
timer of `wait_for`) and of `Ending` (an awaited task that is done is noticed). **No
fairness of frames, of raising or of interruption**: nothing obliges a venue to send,
a source to fail, or anyone to press a key. So `CommandEnds` speaks of runs with a
time limit and of runs whose recorder has ended; a run with neither goes on, as it
should. That callbacks answer is an assumption about `register()`, which awaits
nothing. The bounded clock stops at `MaxTime`; there the sleep ends at once so passes
go on, and `SilenceNoticed` speaks only of receipt times that leave room for a
silence. The source is not given fairness: that it keeps trying is a question of
`delay_for()` being defined, stated as the invariant `KeepsTrying`.

## 4. Proofs

TLAPS checks the following for every value of the constants that the named
assumptions admit, and every order of failures and crashes.

**`RecorderProofs`** (assumes `FramesAssumption`: the events of the frames are of the
declared streams, numbers and verdicts; and `DetectorAssumption`)

* `TypeCorrect`; `LossIsVisible` (`LossVisible`), `LossesAreCounted` (`LossesCounted`),
  `NothingIsSilent` (`NothingSilent`), `CountsOnce` (`NoDoubleCount`),
  `RecorderReportsDisjoint` (`ReportsDisjoint`), `RecorderReportsDefinite`
  (`ReportsAreDefinite`), and `RecorderKeepsEvidence`: every behaviour of the recorder is
  one of `EvidenceArchive` under the mapping archive = stored raw frames, derived =
  frames with stored rows; and `MonitorSeesRecorder` (`AsMonitored`). These are all the
  properties of `MCRecorder`, for any frames, in any order, redelivered at will, any
  writes that raise, and passes of the monitor between any two steps.
* `Handling` is the invariant the others rest on: the receive counter numbers the
  frames (`Numbered`), a frame is worked on only when its payload is archived
  (`ArchivedFirst`), the events still to accept are those of the frame in hand
  (`PendingOfFrame`), and the rows owed for it are the accepted ones until they are
  written (`OwedInOrder`). `LossVisible` is an action property: from a frame that lost
  something, only a pass that finds the connection and every stream fresh leads to
  HEALTHY. That no step of the recorder does is what these conjuncts are for: a loss
  degrades the state in the very step, and the next freshness check is of another frame.
* The gap detector is proved about first, and on its own: `GapDetectorTypeCorrect`,
  `NothingMissingUnreported` (`Coverage`), `NothingCountedTwice` (`ReportsDisjoint`),
  `GapReportsDefinite` (`ReportsAreDefinite`) are theorems of `Gaps!Spec`, for any calls.
  `Coverage` alone is not inductive: without knowing that the last number is the
  *highest* observed (`PositionsSummarise`) and that every report ends at or below it
  (`ReportsBehindPosition`), a new report could overlap an old one or claim a
  number already received. `Gaps!IInv` is their conjunction, with a lemma per conjunct.
* It is not proved about twice. `GapsStep` shows that every step of the
  recorder is a step of the gap detector or leaves it alone, so that invariant
  holds of the recorder's (`GapsInvariance`); with `Registered`
  (what was observed is archived, what was reported is stored) it gives `NothingSilent`.
* For `LossesCounted`, `Counted` bounds the frames that have lost something, the
  one in hand aside while its rows may still be written.
* `CountsOnce` is about runs in which the detector forgets nothing: no more time passes
  than its window, and no more events are admitted than its capacity, which is the
  temporal hypothesis of the theorem. `Mirrors` says that memory and history agree
  then, `OwedOnce` that the rows owed have one identity each.

**`StoreSinkProofs`** (assumes: batch size at least 1, ages and times naturals)

* `TypeCorrect`, `EvidenceIndexed`, `NothingAcceptedLost`, `RowsRepeatInDoubt`,
  `CrashCostBounded` (`VolatileBounded`), and `ImplementsEvidence`: every behaviour of the
  sink is one of `EvidenceArchive` under the mapping archive = object storage, derived =
  frames with stored event rows.
* What a crash costs is bounded because a write accepts a row only when it returns with
  the batches smaller than `BatchSize` or flushed, a row is accepted once
  (`AcceptedOnce`), and no other step adds one that is accepted and not stored.
* The argument for `IndexedEvidence` is that the batches themselves are ordered
  (`RawRowFirst`): whatever is pending for an event table has its index row
  stored or pending in the batch `flush()` inserts *first*. For
  `RepeatedOnlyInDoubt` it is that a row enters a batch at most once
  (`PendingOnce`), which rests on the order in which the caller writes.

**`CommandLineProofs`** (assumes `ThresholdsAssumption`: limits, interval and clock are
naturals; `DetectorAssumption`; and `CommandAssumption`: a positive time limit and key
length, Python's `None` is no name of a network, and a staleness limit the settings accept
is the one the monitor gets, as in `cli.py:195`; any streams, and any environments besides)

* Of the monitor, alone and under the command: `SilencesReportedOnce` (`ReportedOnce`),
  `SilencesAllRegistered` (`EverySilenceRegistered`), `RecoveryIsOnEvidence`
  (`RecoversOnEvidence`, an action property). Of the command: `TypeCorrect`,
  `RunsAreReadOnly` (`ReadOnlyRun`), `ReportsAreComplete` (`ReportIsComplete`).
* `Watching` is the invariant. A pass awaits its callbacks, so between what it read and
  what it concludes lies anything: `PassKeepsItsSilences` says that a silence it read is
  still to be handed over or remembered, and none is both; `ReportedIsHandedOver` that
  what is remembered was handed over, unless a callback raised, which ends the monitor;
  `NothingBeforeData` that everything dated goes back to a frame. A pass that was suspended
  has a new silence, so it is not healthy and cannot recover the state on what it read.
* `PassesAsSeen`: whatever a step of a pass does to what it shares with the recorder,
  `MonitorPass` of `Recorder` allows. With `MonitorSeesRecorder` of `RecorderProofs` it
  joins the two sets of theorems.
* `WatchStep` covers every step the monitor can see, so one proof serves both
  specifications: `MonitorAlone` and `UnderCommand` show that there are no others.
* That two guards read the key differently is what `AcceptedExposesNothing` is about: for
  every environment, settings that load and pass the endpoint guard cannot move capital.

**`DatabaseProofs`**, migrations (assumes: a content has a natural number of statements; the
bounds are naturals)

* `TypeCorrect`, `AppliedInOrder` (`LedgerContiguous` and `EarlierRecordedFirst`),
  `ChecksumsAreOfWhatRan` (`RecordedAsExecuted`), `NeverOnAnotherHistory`
  (`OneHistory`), `ReturnedMeansRecorded` (`AppliedIsRecorded`).
* What a runner knows was true when it planned, and other runners record in
  between. The strengthening says what survives that: the files it read are
  numbered from 1 (`ReadsContiguous`), what it does not hold pending is in the
  ledger, on PostgreSQL under the checksum it read (`ReadIsRecorded`: rows are
  never changed there), the statements it has passed were executed (`Passed`), and a
  run that returned has nothing left (`NothingLeft`). `BelowIsRecorded` turns
  this into the order of the ledger.

**`DatabaseProofs`**, gaps (assumes: finitely many reports, times are naturals)

* `RegistryTypeCorrect`, `WrittenGapsStay` (`WrittenIsKept`).
* A returned write is committed because the row of the write under way is in the open
  transaction until then (`RowsAccounted`).

**`AcceptanceProofs`** (assumes: a minimum of at least one frame)

* `TypeCorrect`, `AcceptedWithoutLoss`, `AcceptedOnCoverage`, `FailedOnlyForCause`: the
  three properties of the run, for runs of any length over any channels.
* A decision sees counters, not frames. `LossesNoticed` connects them: no write
  failed exactly if every delivered frame is archived, and archived frames with events
  have them stored. `RawNotedFirst` is what `raw_first_holds()` can find, and
  `VerdictOfEvidence` that the evidence no longer changes once decided on.

**`CaptureReplayProofs`** (assumes: the kinds of payloads are distinct, `PayloadAssumption`;
times lie after the cutoff, as those of "any genuine capture" do, `TimesAssumption`; and a
fixture has fewer lines than the cutoff has units of time, `BoundsAssumption`: the code's is
a year of milliseconds after the fallback base)

* `TypeCorrect`, `CapturedSurvives` (`ArchivedIsLoaded`), `ReplaysRestore`
  (`ReplayRestores`), `RefusedForClockOnly` (`RefusedOnlyForClock`), `SpansAreOfSessions`
  (`SpanIsOfSession`): every property of the run, for sessions of any length and fixtures of
  any length below that.
* The invariant follows a session through its phases: what the session writes and stores
  (`SessionWritten`, `SessionRows`), what of it is in the file (`SessionFile`: its last
  line may be torn), which lines the frames loaded so far are (`SessionLoaded`).
* `RefusedOnlyForClock` is that the frames of a file that does not mix its lines are in
  order (`FramesInOrder`). Leading frames are re-dated when all lines are read
  (`AnchoredInOrder`, `AnchoredSpan`); how many there are is a prefix the invariant
  carries along with the lines (`LeadingFound`), so no induction over a file is needed.

**`HyperliquidProofs`**, source (assumes: a policy of natural numbers, `PolicyAssumption`,
and that the powers of the multiplier up to `MaxExponent` are naturals, `PowersAssumption`)

* `TypeCorrect`, `OutageStampedOnce` (`OutageStamped`), `GivesUpOnTime`
  (`GivesUpInTime`), `SleepsBounded` (`SleepBounded`). `AttemptsCounted` ties the
  counter to the failures since the last connection at each place of the loop.

**`HyperliquidProofs`**, frames (assumes: the limits are naturals, `Null` is neither a
field nor a number, and `VenueAssumption`: what the venue sends is a frame of one of its
channels, each part of which may have any form or be of the wrong JSON type)

* `NormalizationTypeCorrect`, `RejectionsHaveACause` (`RejectedForCause`), `AllFactsOrNone`
  (`FactsComplete`), `TrainingDataIsPlausible` (`UsableIsPlausible`), for frames of any
  number of entries, levels and wallets, any numbers in them and any clock.
* `RecordFacts` is what one record becomes: well-typed events with a time after 0, and
  the schemas refuse one of them exactly if the record is impossible, which is stated on the
  fields and not through the events. The trader events of a trade are never the cause
  (`TradersFollowTheTrade`): what they would refuse, the market event refuses first.
* The invariant counts along: after k records, each of the first k passed, and the
  events state their facts (`ReadSoFar`, `FactsUpTo`). The wallets are counted as
  a set of places (`WalletsUpTo`), whose cardinality grows by that of one record.
* `ValidIsPlausible`: an event the schemas allowed and no check of the quality engine
  noted is plausible; the spread ratio is compared without a division.

**`DuplicateDetectorProofs`** (assumes: a capacity of at least one, a window and times
of naturals)

* `TypeCorrect`, `MemoryBounded` (`BoundedMemory`), by lemmas that a suffix of a
  dictionary, and one with a new key appended, is a dictionary.
* `RecognisesRedelivery` (`RedeliveryRecognised`), `EntriesDoExpire` (`EntriesExpire`), for
  a clock that steps back by any `ClockStep`, and `DropsRepeatsOnly` (`DropsOnlyRepeats`),
  for any events, those that share an identity included. The
  invariant is that the memory is the end of the history of what was let through
  (`Recalls`), that what is before that end was forgotten duly, by age or by
  eviction, and that receipt times are in order up to the step. So what is still
  remembered is among the last admitted, what expiry leaves is no older than the window and
  one step (`KeptIsRecent`), and who shares an identity repeats its event (`SameIdentity`).

Every safety property of the passing runs, action properties and refinements included, is
a theorem. Only model-checked are the liveness properties under fairness
(`SilenceNoticed`, `SilentConnectionDetected`, `CommandEnds`): liveness and `ENABLED` are
out of the prover's reach. `KeepsRunning`, `KeepsTrying`, `UnrecoverableStays` and
`DropsNothingNew` are refuted, not proved. No
theorem needs induction over data, which is out of reach as well: where the code folds over
a sequence, the state machine takes it one element a step and the invariant carries the
fold along.

## 5. Not modelled

* `StoreSink` is not wired into the command line yet (`cli.py` returns an error
  without `--dry-run` or `--replay`); `Recorder` is therefore checked against any
  sink and `StoreSink` against the recorder's order of calls. Both refine
  the same abstract specification, which is what connects them. For the same reason
  the registry and the table are two independent stores in `GapRegistry`.
* In `CommandLine`: the capture file (it is in `CaptureReplay`; here opening it may
  fail), a second interruption while the command shuts down, the detail of
  `_replay()`, whose exit codes are taken as inputs, and the endpoint market data is
  read from, which no guard looks at. A registry whose `register()` may raise stands for
  one backed by a store.
* A capture line longer than the writer's buffer, after a flush that failed: it may be torn
  or lost and take the next one with it (`capture.py:142`). Lines are taken to fit the
  buffer, so what a failed flush left behind goes out with the next one.
* The counts, streams and durations of the registry's summary.
* The composition of `Normalization` with `Recorder`: they meet in the kinds of frames.
* `verify_determinism()` beyond its answer: two replays of one file are one function
  of it in the model. In `Acceptance` the answer is arbitrary.
* The latency and users analyses, fault injection and the rendering of the acceptance report.
* The contents of payloads, hashes and logs; settings nothing decides on, such as
  the addresses of the stores and the notional limits of engines not written yet.
* Value types, health probes, client construction, log formatting, redaction: no
  state that a property would be about.

## 6. Where the code and its own words differ

Shown by a run whose counterexample is a behaviour of the code:

| Run | What happens |
|---|---|
| `MCRecorderSchema` | A frame the schema's validators refuse ends the recorder. |
| `MCHyperliquidDrop` | An error on an open connection ends the source: `delay_for(0)` raises. |
| `MCDatabaseUnrecoverable` | A gap closed as UNRECOVERABLE, which "stays visible forever" (`registry.py:15`), is closed again as RECOVERED and counts as missing data no longer. |
| `MCDuplicateDetectorQuotes` | An update of a quote's sizes only, in one millisecond, is dropped as a duplicate, and so is a trade without a number whose content equals another's; "a genuinely repeated market event is not" (`dedup.py:60`). |

Visible in the models, with the condition under which the passing runs hold:

*Recorder, detectors and monitor*

* The recorder returns to HEALTHY on a data frame of any stream (`CheckFreshness`), also
  from a degradation the monitor made for another stream that is still stale, and also
  on the very frame whose trader write failed.
* A loss leaves the state DEGRADED only until the next monitor pass: over a live connection
  and fresh streams it returns to HEALTHY (`monitor.py:217`), though the payload or the row
  is still missing and no frame has come since. `LossVisible` says that nothing else
  does; the failure stays in the metrics (`LossesCounted`).
* An event without a venue time, as those of asset contexts, is hashed with its receipt
  time (`timestamps.py:86`), so a redelivered one is never recognised.
* A gap is dated from wall-clock receipt times (`Observe` takes any), so a clock step gives
  `gap_end < gap_start`, which the table refuses (`003_data_gap_registry.sql:36`).
* A gap write that raises ends `run()`; that gap, and only that one, stays
  unrecorded (`NothingSilent`).
* Trader events are not deduplicated (`PersistTraders` looks at no detector), although
  `dedup.py:3` asks it of every ingestion path; `NoDoubleCount` is about market rows.
* With a staleness limit above the silence threshold, the second pass over a silence is
  healthy: that the monitor recovers only when no stream is silent
  (`RecoversOnEvidence`) needs `StalenessLimit <= SilenceThreshold`. The settings accept any
  positive limit (`settings.py:121`), `cli.py:195` hands it to the monitor, and the
  threshold stays at its default of 30 s (`gaps.py:78`); with a limit of a minute a
  stream silent for 45 s is reported once, and the next pass returns the state to HEALTHY.
* A connection that never delivers anything is never found silent;
  `SilentConnectionDetected` starts from something having arrived.

*Normalization and quality*

* A mark or oracle price that is zero or negative, an open interest below zero, `NaN` in
  any of them, or a crossed quote passes the parser and the time check and is refused by
  the schemas, which ends the recorder (`RejectedForCause` says exactly which frames do).
* A field nothing is made of has to be readable too (`ContextReadable`, and the levels of
  a book below its best): one that is not discards the whole frame.
* A quote with one side has no spread to be too wide (`WideSpread`).

*Command line and settings*

* The command line's source has no attempt limit, so `frames()` never returns: without
  `--minutes` the run ends by an exception only and no report is printed (`Report`).
* A monitor that died replaces whatever else was on its way out, a report of a run
  that reached its time limit included (`MonitorRaises`).
* The report's gaps are the registry's, to which only the monitor has access (`cli.py:196`,
  `cli.py:237`): numbers the recorder found missing are counted but not listed.
* The state in a report can be HEALTHY while a stream is silent, as the recorder
  recovers on any frame.
* A key of `0x` alone is none for the validator and one for `may_submit_orders`
  (`KeyGiven`, `KeyLeft`); a run stays read-only because the guard is the stricter of the two.
* A staleness limit that no `timedelta` can hold overflows where nothing catches it
  (`LimitOverflows`), and so does what `websocket_url()` raises (`GuardRaises`).
* A run that received acknowledgements only exits with 1, as one whose frames were not
  understood (`NothingUnderstood`).

*Source*

* A connection closed cleanly is not stamped as a disconnect and is retried without a
  delay (`ConnectionCloses`); `OutageStamped` dates such an outage from the next error.
* At attempt 1025 of one outage (about 8.5 hours at the default cap of 30 s)
  `2.0 ** 1024` raises before the cap applies: `DelayDefined`.

*Sink and registry*

* The age limit of a batch is looked at only when something is written (`Holds`), so
  the last rows before a quiet period wait for its end.
* A gap insert that raises, for instance one refused because of a clock step, leaves
  the connection's transaction aborted, and nothing in the sink rolls it back: every
  later `write_gap()` raises too (`InsertRaises`).
* `close()` compares the end with the start only for RECOVERED; any other status
  may be closed with an end before the start, which the table would refuse
  (`MayClose`). A gap closed as RECOVERED and then otherwise, or attempted again, keeps
  the impact NONE.

*Capture and replay*

* A wall clock that steps back during a session makes its file unreplayable, and a file
  that mixes envelopes with bare frames can date one before the other:
  the two exceptions of `RefusedOnlyForClock`.
* With `--capture`, a payload that opens like JSON and is not is neither captured nor
  archived (`RefuseFrame`): the capture's `json.loads` raises first (`capture.py:130`),
  although "a frame that fails to parse is still archived" (`recorder.py:11`).
* A frame the schema refuses, whose archive write failed live, makes the replay raise.
* A header that is no object, a monotonic reading that is no integer and a venue time no
  datetime can hold leave `load_session()` as exceptions instead of being counted as
  malformed (`LoadRaises`).

*Migrations*

* A failed migration is not in the ledger, so an edited one is not refused, although
  `clickhouse.py:145` says the checksum guard enforces that it is not edited: its executed
  statements stay and the ledger gets the new checksum (`RecordedAsExecuted` asks
  only that the recorded content was executed).
* On ClickHouse a second runner's row for a version replaces the first one's checksum;
  `OneHistory` is about PostgreSQL.

*Acceptance*

* A live run that raises is decided on without its counts: "no frames were received"
  is INCONCLUSIVE, whatever had been received and lost (`Evidence`).
* A thin run of control frames is FAILED ("no events were written") before its size is
  looked at, although the decision is meant to call too little evidence inconclusive.
* A capture that cannot be replayed (the loader or the replay raises) ends the
  script without a report.

## 7. Plan

Done, in this order: the detectors (leaves), the recorder over them with an abstract
archive, the store sink with its refinement and proofs, the monitor beside
the recorder, the source, migrations, capture and replay, the acceptance run, the gap
registry, the command line with its settings, parsing and normalization; recorder and
monitor joined from both sides; proofs for all of them, every safety property of the
runs included.

Next, most important first:

1. `Normalization` as the source of `Recorder`'s frames, as a refinement of the four kinds.
2. The latency and users analyses of the acceptance run, when they decide something.

---------------------------- MODULE CommandLine ----------------------------
(***************************************************************************)
(* run() of services/market_data/cli.py: the settings are loaded, the      *)
(* recorder and the monitor are started as two tasks of one event loop,    *)
(* and when the recorder's ends -- by its time limit, by an exception, by  *)
(* an interruption -- the monitor is stopped and awaited before the        *)
(* report is put together.                                                 *)
(*                                                                         *)
(* Monitor gives the two tasks; here is the coroutine around them.  Until  *)
(* it starts them, their variables stand at their initial values.          *)
(*                                                                         *)
(* The source of the command line reconnects without an attempt limit, so  *)
(* frames() never returns: run() of the recorder ends by raising only.     *)
(***************************************************************************)
EXTENDS Monitor

CONSTANTS
    PERMITTED_ENVIRONMENTS, SUPPORTED_ASSETS, PrivateKeyHexLength,  \* Settings
    Environments,       \* what the environment may hold: the inputs of Settings
    MaxStaleness,       \* the longest staleness limit a timedelta can hold
    TimeLimit,          \* --minutes, when it is given
    Raised              \* the outcome of a run() that an exception leaves

(* The staleness limit of the settings is the one the monitor works with.  *)
ASSUME CommandAssumption ==
    /\ TimeLimit \in Times \ {0}
    /\ MaxStaleness \in Nat
    /\ \A s \in Environments :
          s.stalenessLimit \in 1 .. MaxStaleness => s.stalenessLimit = StalenessLimit
    /\ PrivateKeyHexLength \in Nat \ {0}
    /\ None \notin {"testnet", "mainnet"}

VARIABLES
    cmd,        \* where run() is: "starting", "recording", "stopping", "ended"
    args,       \* the arguments: [replay, dryRun, minutes]
    capital,    \* history: the settings of a started run could move capital
    ending,     \* how the recorder's task ended: "timedOut", "raised", or None
    report,     \* the report printed, or None
    outcome     \* the exit code, Raised, or None

commandVars == <<cmd, args, capital, ending, report, outcome>>
taskVars == <<now, state, lastDataAt, monitorVars, gapVars>>
allVars == <<taskVars, commandVars>>

Config == INSTANCE Settings

Arguments == [replay : BOOLEAN, dryRun : BOOLEAN, minutes : {0, TimeLimit}]

----------------------------------------------------------------------------
(* Mutants.                                                                *)

StopMonitor_NotAfterFailure(how) == stop' = (how # "raised")

MonitorDone_NotAwaited == pc # "dead"

EndpointGuard_ReadsAnything(s) == TRUE

----------------------------------------------------------------------------
CommandInit ==
    /\ Init
    /\ cmd = "starting"
    /\ args \in Arguments
    /\ capital = FALSE
    /\ ending = None
    /\ report = None
    /\ outcome = None

EndWith(result) == cmd' = "ended" /\ outcome' = result

NotStarted ==
    UNCHANGED <<taskVars, args, capital, ending, report>>

(* load_settings() refuses.                                                *)
RefuseSettings(s) ==
    /\ ~ Config!Loads(s)
    /\ EndWith(2)
    /\ NotStarted

(* _replay(): nothing to replay, a replay that differs, or a report; or    *)
(* the file does not load, which nothing here catches.                     *)
Replay(s) ==
    /\ Config!Loads(s)
    /\ args.replay
    /\ \E result \in {0, 1, 2, Raised} : EndWith(result)
    /\ NotStarted

(* websocket_url() raises what only load_settings() is guarded against.    *)
EndpointGuard(s) == Config!MarketDataIsReadOnly(s)

GuardRaises(s) ==
    /\ Config!Loads(s)
    /\ ~ args.replay
    /\ ~ EndpointGuard(s)
    /\ EndWith(Raised)
    /\ NotStarted

RefuseStores(s) ==
    /\ Config!Loads(s)
    /\ ~ args.replay
    /\ EndpointGuard(s)
    /\ ~ args.dryRun
    /\ EndWith(2)
    /\ NotStarted

Accepts(s) ==
    /\ Config!Loads(s)
    /\ ~ args.replay
    /\ EndpointGuard(s)
    /\ args.dryRun

(* timedelta() overflows.                                                  *)
LimitOverflows(s) ==
    /\ Accepts(s)
    /\ s.stalenessLimit > MaxStaleness
    /\ EndWith(Raised)
    /\ NotStarted

Exposes(s) ==
    \/ Config!CouldMoveCapital(s)
    \/ Config!MisplacedKey(s)
    \/ Config!VenueEndpoint(s.execution) = "mainnet"

(* The monitor's task is created and the capture, if asked for, opens;     *)
(* recorder.run() reaches HEALTHY before anything yields to the monitor.   *)
Start(s) ==
    /\ Accepts(s)
    /\ s.stalenessLimit <= MaxStaleness
    /\ capital' = Exposes(s)
    /\ cmd' = "recording"
    /\ UNCHANGED <<taskVars, args, ending, report, outcome>>

(* The capture does not open: the recorder's task never runs.              *)
StartFails(s) ==
    /\ Accepts(s)
    /\ s.stalenessLimit <= MaxStaleness
    /\ capital' = Exposes(s)
    /\ ending' = "raised"
    /\ cmd' = "stopping"
    /\ SetStop
    /\ UNCHANGED <<args, report, outcome>>

Starting ==
    /\ cmd = "starting"
    /\ \E s \in Environments :
          \/ RefuseSettings(s)
          \/ Replay(s)
          \/ GuardRaises(s)
          \/ RefuseStores(s)
          \/ LimitOverflows(s)
          \/ Start(s)
          \/ StartFails(s)

----------------------------------------------------------------------------
Running == cmd \in {"recording", "stopping"}

TimePasses == Running /\ Tick /\ UNCHANGED commandVars

MonitorSteps == Running /\ Check /\ UNCHANGED commandVars

RecorderSteps == cmd = "recording" /\ Handle /\ UNCHANGED commandVars

(* The finally clause, on the way out of the recorder's task: nothing is   *)
(* awaited between its last await and stop.set().                          *)
StopMonitor(how) == stop' = TRUE

RecordingEnds(how) ==
    /\ cmd = "recording"
    /\ ending' = how
    /\ StopMonitor(how)
    /\ cmd' = "stopping"
    /\ UNCHANGED <<now, state, pc, nextCheck, check, last, reported, registered, gapVars>>
    /\ UNCHANGED <<args, capital, report, outcome>>

(* wait_for() cancels the recorder where it waits.                         *)
TimeLimitReached ==
    /\ args.minutes > 0
    /\ now >= args.minutes
    /\ RecordingEnds("timedOut")
    /\ UNCHANGED lastDataAt

(* The source raises or the run is interrupted; or an exception leaves     *)
(* _handle(), as when a frame makes an event that its schema refuses.      *)
RecordingRaises ==
    /\ RecordingEnds("raised")
    /\ UNCHANGED lastDataAt

----------------------------------------------------------------------------
(* await monitor_task returns, or raises what ended the monitor.           *)
MonitorDone == pc = "stopped"

(* A monitor that died: what ended it replaces whatever else was on its    *)
(* way out.                                                                *)
MonitorRaises ==
    /\ cmd = "stopping"
    /\ pc = "dead"
    /\ EndWith(Raised)
    /\ UNCHANGED <<taskVars, args, capital, ending, report>>

EndWithoutReport ==
    /\ cmd = "stopping"
    /\ MonitorDone
    /\ ending = "raised"
    /\ EndWith(Raised)
    /\ UNCHANGED <<taskVars, args, capital, ending, report>>

(* Frames were received and no event was written.                          *)
NothingUnderstood ==
    lastDataAt # None /\ \A s \in Streams : positions[s].lastSeenAt = None

Report ==
    /\ cmd = "stopping"
    /\ MonitorDone
    /\ ending = "timedOut"
    \* The registry of this run; the recorder's own gaps go to the sink only.
    /\ report' = [state |-> state, silent |-> last, gaps |-> Registered]
    /\ EndWith(IF NothingUnderstood THEN 1 ELSE 0)
    /\ UNCHANGED <<taskVars, args, capital, ending>>

Ending == MonitorRaises \/ EndWithoutReport \/ Report

CommandNext ==
    \/ Starting
    \/ TimePasses
    \/ MonitorSteps
    \/ RecorderSteps
    \/ TimeLimitReached
    \/ RecordingRaises
    \/ Ending

CommandSpec == CommandInit /\ [][CommandNext]_allVars

(* Time passes, the event loop runs whichever task is due, and a time      *)
(* limit that is up is acted on.  Nothing obliges the venue to send, the   *)
(* source to raise, or anyone to interrupt.                                *)
FairCommandSpec ==
    /\ CommandSpec
    /\ WF_allVars(TimePasses)
    /\ WF_allVars(MonitorSteps)
    /\ WF_allVars(TimeLimitReached)
    /\ WF_allVars(Ending)

----------------------------------------------------------------------------
(* "The invariant this asserts is: mainnet market data did not open an     *)
(* execution path" (settings.py): a run that reads market data, from       *)
(* wherever it does, holds no combination of settings under which an order *)
(* could be signed and sent, and no key where none may be.                 *)
ReadOnlyRun == ~ capital

(* A report is put together only when the monitor is done with its pass,   *)
(* and it lists every silence that pass or an earlier one has seen: a run  *)
(* that ends while a silence is being handed over does not lose it.        *)
ReportIsComplete ==
    report # None => pc = "stopped" /\ reported \cup report.silent \subseteq report.gaps

CommandTypeOK ==
    /\ TypeOK
    /\ cmd \in {"starting", "recording", "stopping", "ended"}
    /\ args \in Arguments
    /\ capital \in BOOLEAN
    /\ ending \in {"timedOut", "raised", None}
    /\ report # None =>
          report \in [state : {"HEALTHY", "DEGRADED"}, silent : SUBSET Silence, gaps : SUBSET Silence]
    /\ outcome \in {0, 1, 2, Raised, None}

(* No run hangs: with a time limit, and whenever the recorder's task has   *)
(* ended, whatever the monitor is doing then, the command ends.            *)
CommandEnds ==
    (cmd = "recording" /\ args.minutes > 0) \/ cmd = "stopping" ~> cmd = "ended"
=============================================================================

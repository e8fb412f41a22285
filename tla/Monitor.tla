------------------------------ MODULE Monitor ------------------------------
(***************************************************************************)
(* The monitor loop of services/market_data/monitor.py beside the recorder *)
(* it watches: two tasks of one event loop over the same gap detector,     *)
(* heartbeat and state machine.                                            *)
(*                                                                         *)
(* A pass of check() reads the clock, the heartbeat and every stream's     *)
(* position at once, then awaits on_gap for each new silence, then moves   *)
(* the state; while it awaits, frames are handled and the clock advances.  *)
(* A pass with no new silence awaits nothing.  Between two passes run()    *)
(* waits for the stop event, at most for the interval.                     *)
(* Of a frame the monitor can see the heartbeat, the positions of the      *)
(* streams it carries, and the state: each step the recorder makes on them *)
(* is an action here, in any order (Recorder has the frame as a whole, and *)
(* AsMonitored shows that it makes no other).                              *)
(***************************************************************************)
EXTENDS Integers, Sequences, FiniteSets, RecorderState

CONSTANTS
    Streams,            \* the (asset, event type) pairs
    SeqNumbers,         \* the sequence numbers of their events
    MaxTime,            \* bound on the clock
    StalenessLimit,     \* staleness_limit
    SilenceThreshold,   \* silence_threshold of GapDetector
    HeartbeatThreshold, \* threshold of Heartbeat
    Interval,           \* interval between passes
    CallbackFails,      \* whether on_gap may raise
    None                \* Python's None

Times == 0 .. MaxTime

ASSUME ThresholdsAssumption ==
    /\ MaxTime \in Nat /\ StalenessLimit \in Nat /\ SilenceThreshold \in Nat
    /\ HeartbeatThreshold \in Nat /\ Interval \in Nat /\ CallbackFails \in BOOLEAN

VARIABLES
    now,        \* clock.now()
    state,      \* machine.state
    lastDataAt, \* heartbeat.last_data_at
    pc,         \* the monitor: "sleeping", "checking", "stopped" or "dead"
    stop,       \* the stop event is set
    nextCheck,  \* when the sleep between two passes ends
    check,      \* the MonitorCheck of the pass under way, or None
    last,       \* last_check: the silences it saw, or None
    reported,   \* reported_gap_ids
    registered  \* the silences handed to on_gap, in order

VARIABLES positions, started, observed, reports     \* GapDetector

gapVars == <<positions, started, observed, reports>>
monitorVars == <<pc, stop, nextCheck, check, last, reported, registered>>
vars == <<now, state, lastDataAt, monitorVars, gapVars>>

Gaps == INSTANCE GapDetector

ASSUME DetectorAssumption == Gaps!GapDetectorAssumption

Silence == [stream : Streams, gapStart : Times]

MonitorCheck ==
    [stale : SUBSET Streams, connectionSilent : BOOLEAN,
     silences : SUBSET Silence, todo : SUBSET Silence, new : SUBSET Silence]

(* What on_gap has been given.                                             *)
Registered == {registered[i] : i \in DOMAIN registered}

----------------------------------------------------------------------------
(* Mutants.                                                                *)

Unreported_Forgets(silences) == silences

Unreported_ByStream(silences) ==
    {g \in silences : \A k \in reported : k.stream # g.stream}

IsHealthy_NewSilencesOnly(c) == ~ c.connectionSilent /\ c.new = {}

IsHealthy_IgnoresConnection(c) == c.new = {} /\ c.stale = {}

CallbackRaises_Survives(g) ==
    /\ CallbackFails
    /\ pc' = pc
    /\ UNCHANGED registered

----------------------------------------------------------------------------
Init ==
    /\ now = 0
    /\ state = "HEALTHY"            \* run() has opened its source
    /\ lastDataAt = None
    /\ pc = "sleeping"
    /\ stop = FALSE
    /\ nextCheck = 0
    /\ check = None
    /\ last = None
    /\ reported = {}
    /\ registered = <<>>
    /\ Gaps!Init

Tick ==
    /\ now < MaxTime
    /\ now' = now + 1
    /\ UNCHANGED <<state, lastDataAt, monitorVars, gapVars>>

----------------------------------------------------------------------------
(* The recorder's task.                                                    *)

(* Frames are handled in the order they were received, maybe late.         *)
ReceivedAt == {at \in Times : at <= now /\ (lastDataAt = None \/ at >= lastDataAt)}

Degraded == IF CanTransition(state, "DEGRADED") THEN "DEGRADED" ELSE state

(* A frame arrives; the write of its payload may raise.                    *)
Receive(at) ==
    /\ lastDataAt' = at
    /\ state' \in {state, Degraded}
    /\ UNCHANGED <<now, monitorVars, gapVars>>

(* An event of the frame, not seen before, reaches the gap detector.       *)
ObserveEvent(s, sequence) ==
    /\ lastDataAt # None
    /\ Gaps!Observe(s, sequence, lastDataAt)
    /\ UNCHANGED <<now, state, lastDataAt, monitorVars>>

(* The write of what was derived from the frame raises.                    *)
WriteFails ==
    /\ lastDataAt # None
    /\ state' = Degraded
    /\ UNCHANGED <<now, lastDataAt, monitorVars, gapVars>>

(* The frame's last step: Recorder._check_freshness().                     *)
CheckFreshness ==
    /\ lastDataAt # None
    /\ state' = IF now - lastDataAt > HeartbeatThreshold THEN Degraded
                ELSE IF state = "DEGRADED" THEN "HEALTHY" ELSE state
    /\ UNCHANGED <<now, lastDataAt, monitorVars, gapVars>>

Handle ==
    \/ \E at \in ReceivedAt : Receive(at)
    \/ \E s \in Streams, sequence \in SeqNumbers \cup {None} : ObserveEvent(s, sequence)
    \/ WriteFails
    \/ CheckFreshness

----------------------------------------------------------------------------
(* The monitor's task.                                                     *)

(* _freshness(): the streams older than the limit.                         *)
StaleStreams ==
    {s \in Streams :
        /\ positions[s].lastSeenAt # None
        /\ now - positions[s].lastSeenAt > StalenessLimit}

IsSilent == lastDataAt # None /\ now - lastDataAt > HeartbeatThreshold

(* The silences check_silence() returns, as check() tells them apart.      *)
Silences == {[stream |-> s, gapStart |-> positions[s].lastSeenAt] : s \in Gaps!SilentStreams(now)}

Unreported(silences) == silences \ reported

(* What a pass reads at its start.                                         *)
Observation ==
    [stale            |-> StaleStreams,
     connectionSilent |-> IsSilent,
     silences         |-> Silences,
     todo             |-> Unreported(Silences),
     new              |-> Unreported(Silences)]

(* MonitorCheck.is_healthy                                                 *)
IsHealthy(c) == ~ c.connectionSilent /\ c.new = {} /\ c.stale = {}

(* _reflect_in_state()                                                     *)
Reflected(c) ==
    IF ~ IsHealthy(c) /\ state = "HEALTHY" THEN "DEGRADED"
    ELSE IF IsHealthy(c) /\ state = "DEGRADED" THEN "HEALTHY"
    ELSE state

(* The wait after a pass: none if the stop event is already set.  Where    *)
(* the bound stops the clock the wait ends at once, so passes go on.       *)
Wait ==
    /\ pc' = IF stop THEN "stopped" ELSE "sleeping"
    /\ nextCheck' = IF now + Interval <= MaxTime THEN now + Interval ELSE MaxTime

PassDue == pc = "sleeping" /\ now >= nextCheck

(* A pass with nothing new to report.                                      *)
QuietPass ==
    /\ PassDue
    /\ Unreported(Silences) = {}
    /\ state' = Reflected(Observation)
    /\ last' = Silences
    /\ Wait
    /\ UNCHANGED <<now, lastDataAt, stop, check, reported, registered, gapVars>>

(* A pass up to its first callback.                                        *)
BeginCheck ==
    /\ PassDue
    /\ Unreported(Silences) # {}
    /\ check' = Observation
    /\ pc' = "checking"
    /\ UNCHANGED <<now, state, lastDataAt, stop, nextCheck, last, reported, registered, gapVars>>

CallbackReturns(g) ==
    /\ registered' = Append(registered, g)
    /\ UNCHANGED pc

(* on_gap raises: the exception ends the monitor's task.                   *)
CallbackRaises(g) ==
    /\ CallbackFails
    /\ pc' = "dead"
    /\ UNCHANGED registered

(* One new silence: remembered as reported, then handed over.              *)
ReportSilence(g) ==
    /\ pc = "checking"
    /\ g \in check.todo
    /\ check' = [check EXCEPT !.todo = @ \ {g}]
    /\ reported' = reported \cup {g}
    /\ CallbackReturns(g) \/ CallbackRaises(g)
    /\ UNCHANGED <<now, state, lastDataAt, stop, nextCheck, last, gapVars>>

(* The rest of the pass, when every callback has answered.                 *)
EndCheck ==
    /\ pc = "checking"
    /\ check.todo = {}
    /\ state' = Reflected(check)
    /\ last' = check.silences
    /\ check' = None
    /\ Wait
    /\ UNCHANGED <<now, lastDataAt, stop, reported, registered, gapVars>>

(* The stop event ends the wait: not before a first pass, which nothing    *)
(* precedes, and unless the wait has just ended by itself.                 *)
StopWakes ==
    /\ pc = "sleeping"
    /\ stop
    /\ last # None
    /\ pc' = "stopped"
    /\ UNCHANGED <<now, state, lastDataAt, stop, nextCheck, check, last, reported, registered, gapVars>>

Check == QuietPass \/ BeginCheck \/ (\E g \in Silence : ReportSilence(g)) \/ EndCheck \/ StopWakes

(* Whoever started the monitor sets the event.                             *)
SetStop ==
    /\ ~ stop
    /\ stop' = TRUE
    /\ UNCHANGED <<now, state, lastDataAt, pc, nextCheck, check, last, reported, registered, gapVars>>

Next == Tick \/ Handle \/ Check \/ SetStop

Spec == Init /\ [][Next]_vars

----------------------------------------------------------------------------
TypeOK ==
    /\ now \in Times
    /\ state \in {"HEALTHY", "DEGRADED"}
    /\ lastDataAt \in Times \cup {None}
    /\ pc \in {"sleeping", "checking", "stopped", "dead"}
    /\ stop \in BOOLEAN
    /\ nextCheck \in Times
    /\ check # None => check \in MonitorCheck
    /\ last # None => last \subseteq Silence
    /\ reported \subseteq Silence
    /\ registered \in Seq(Silence)
    /\ Gaps!TypeOK

(* One silence, one row: no silence of a stream is handed over twice,      *)
(* however many passes it lasts and whatever arrives during a pass ("A     *)
(* silence gap for a stream already reported is not reported again").      *)
ReportedOnce ==
    \A i, j \in DOMAIN registered : registered[i] = registered[j] => i = j

(* Once a pass is over, every stream silent at its start has been handed   *)
(* over as silent since that very moment -- a second silence of a stream   *)
(* reported before included.                                               *)
EverySilenceRegistered ==
    pc \in {"sleeping", "stopped"} /\ last # None =>
        last \subseteq Registered

(* Two tasks move one state machine, on different evidence.  Whichever of  *)
(* them takes it back to HEALTHY, something has arrived within the         *)
(* heartbeat's threshold; and when it is the monitor, every stream is      *)
(* fresh at that moment, and none is silent, reported before or not,       *)
(* where staleness_limit is not the longer of the two limits -- although a *)
(* pass may be suspended between what it read and what it concludes.       *)
RecoversOnEvidence ==
    [][state = "DEGRADED" /\ state' = "HEALTHY" =>
          /\ lastDataAt' # None
          /\ now - lastDataAt' <= HeartbeatThreshold
          /\ QuietPass \/ EndCheck =>
                /\ StaleStreams = {}
                /\ StalenessLimit <= SilenceThreshold => Silences = {}]_vars

(* A stream that goes quiet is noticed: its silence is handed over or its  *)
(* data comes back, unless the monitor is told to stop or a failing        *)
(* callback has ended it.  Only receipt times the bound on the clock       *)
(* leaves room for are considered.                                         *)
SilenceNoticed ==
    \A s \in Streams, t \in 0 .. MaxTime - SilenceThreshold - 1 :
        positions[s].lastSeenAt = t ~>
            \/ positions[s].lastSeenAt # t
            \/ [stream |-> s, gapStart |-> t] \in Registered
            \/ stop
            \/ pc = "dead"

(* "Heartbeat monitoring must detect a silent connection": once nothing at *)
(* all has arrived since t, the state leaves HEALTHY or something arrives, *)
(* unless the monitor is told to stop or a failing callback has ended it.  *)
(* A connection that never delivers anything has no such t: is_silent() is *)
(* False for good.                                                         *)
SilentConnectionDetected ==
    \A t \in 0 .. MaxTime - HeartbeatThreshold - 1 :
        lastDataAt = t ~> lastDataAt # t \/ state # "HEALTHY" \/ stop \/ pc = "dead"

(* What makes the safety properties inductive.  A pass under way still     *)
(* holds everything it read and has not handed over.                       *)
PassKeepsItsSilences ==
    pc = "checking" =>
        /\ check \in MonitorCheck
        /\ check.new # {}
        /\ check.todo \cap reported = {}
        /\ check.silences \subseteq check.todo \cup reported

(* What is remembered as reported is what was handed over, but for the     *)
(* silence whose callback raised; and what the last pass saw is among it.  *)
ReportedIsHandedOver ==
    /\ Registered \subseteq reported
    /\ pc # "dead" => reported \subseteq Registered
    /\ last # None \/ pc = "stopped" => last \subseteq reported

(* Whatever is dated, numbered or silent, and a state that has left        *)
(* HEALTHY, goes back to a frame.                                          *)
NothingBeforeData ==
    /\ \A s \in Streams :
          /\ positions[s].lastSeenAt \in Times \cup {None}
          /\ positions[s].lastSeenAt = None => positions[s].lastSequence = None
    /\ lastDataAt = None =>
          /\ state = "HEALTHY" /\ pc # "checking"
          /\ \A s \in Streams : positions[s].lastSeenAt = None

Watching ==
    /\ TypeOK
    /\ PassKeepsItsSilences
    /\ ReportedIsHandedOver
    /\ NothingBeforeData
    /\ ReportedOnce
=============================================================================

------------------------- MODULE CommandLineProofs -------------------------
(***************************************************************************)
(* Proofs about Monitor and CommandLine: for every set of streams, every   *)
(* clock, every limit and interval, every callback, and every set of       *)
(* environments, over any interleaving of the two tasks and any end of the *)
(* recorder's.                                                             *)
(***************************************************************************)
EXTENDS CommandLine, SequenceTheorems, TLAPS

USE ThresholdsAssumption, DetectorAssumption
    DEF Gaps!GapDetectorAssumption, Times

----------------------------------------------------------------------------
(* The steps the monitor can see, whoever takes them: its own, the clock's *)
(* and the recorder's, and the end of the recorder's task, which sets the  *)
(* stop event.                                                             *)
Interrupted ==
    /\ stop' \in BOOLEAN
    /\ UNCHANGED <<now, state, lastDataAt, pc, nextCheck, check, last, reported, registered, gapVars>>

WatchStep == Tick \/ Handle \/ Check \/ Interrupted \/ UNCHANGED vars

(* On its own the monitor does nothing but its steps.                      *)
LEMMA MonitorAlone ==
    ASSUME TypeOK, [Next]_vars
    PROVE  WatchStep
  BY DEF TypeOK, Next, SetStop, WatchStep, Interrupted

(* Under the command it does nothing else either.                          *)
LEMMA UnderCommand ==
    ASSUME TypeOK, [CommandNext]_allVars
    PROVE  WatchStep
  <1>1. CASE Starting \/ Ending \/ UNCHANGED allVars
    <2>1. UNCHANGED vars \/ SetStop
      BY <1>1 DEF Starting, RefuseSettings, Replay, GuardRaises, RefuseStores, LimitOverflows,
             Start, StartFails, Ending, MonitorRaises, EndWithoutReport, Report, NotStarted,
             allVars, taskVars, vars
    <2>. QED  BY <2>1, MonitorAlone DEF Next
  <1>2. CASE TimePasses \/ MonitorSteps \/ RecorderSteps
    BY <1>2 DEF TimePasses, MonitorSteps, RecorderSteps, WatchStep
  <1>3. CASE TimeLimitReached \/ RecordingRaises
    BY <1>3 DEF TypeOK, TimeLimitReached, RecordingRaises, RecordingEnds, StopMonitor, WatchStep,
           Interrupted
  <1>. QED  BY <1>1, <1>2, <1>3 DEF CommandNext

----------------------------------------------------------------------------
(* What a pass reads is what a pass may hold.                              *)
LEMMA ObservationTyped ==
    ASSUME Watching
    PROVE  /\ Silences \subseteq Silence
           /\ StaleStreams \subseteq Streams
           /\ IsSilent \in BOOLEAN
           /\ Observation \in MonitorCheck
  <1>1. Silences \subseteq Silence
    BY DEF Watching, NothingBeforeData, Silences, Silence, Gaps!SilentStreams
  <1>2. StaleStreams \subseteq Streams /\ IsSilent \in BOOLEAN
    BY DEF StaleStreams, IsSilent
  <1>. QED  BY <1>1, <1>2 DEF Observation, MonitorCheck, Unreported

(* The state a silence leads to is one of the two.                         *)
LEMMA DegradedIs ==
    ASSUME TypeOK
    PROVE  Degraded \in {"HEALTHY", "DEGRADED"}
  BY DEF TypeOK, Degraded

(* The state a pass reflects is one of the two.                            *)
LEMMA ReflectedIs ==
    ASSUME TypeOK, NEW c
    PROVE  Reflected(c) \in {"HEALTHY", "DEGRADED"}
  BY DEF TypeOK, Reflected

(* What an observation makes of the detector's variables, a jump in the    *)
(* numbers and its report included.                                        *)
LEMMA ObserveFacts ==
    ASSUME Watching, NEW s \in Streams, NEW sequence \in SeqNumbers \cup {None}, NEW at \in Times,
           Gaps!Observe(s, sequence, at)
    PROVE  /\ Gaps!TypeOK'
           /\ \A t \in Streams : positions'[t] = positions[t] \/ positions'[t].lastSeenAt = at
  <1>1. /\ positions \in [Streams -> Gaps!StreamPosition]
        /\ started \in [Streams -> Nat \cup {None}]
        /\ observed \in [Streams -> SUBSET Nat]
        /\ reports \subseteq Gaps!GapReport
    BY DEF Watching, TypeOK, Gaps!TypeOK
  <1>2. /\ positions[s].lastSequence \in Nat \cup {None}
        /\ positions[s].lastSeenAt = None => positions[s].lastSequence = None
        /\ positions[s].lastSeenAt \in Nat \cup {None}
        /\ at \in Nat
    BY <1>1 DEF Watching, NothingBeforeData, Gaps!StreamPosition
  <1>3. Gaps!Observed(positions[s], sequence, at) \in Gaps!StreamPosition
    BY <1>2 DEF Gaps!Observed, Gaps!Advanced, Gaps!StreamPosition
  <1>4. Gaps!SequenceGap(s, positions[s], sequence, at) \subseteq Gaps!GapReport
    BY <1>2 DEF Gaps!SequenceGap, Gaps!Jumps, Gaps!GapReport
  <1>5. positions' \in [Streams -> Gaps!StreamPosition]
    BY <1>1, <1>3 DEF Gaps!Observe
  <1>6. started' \in [Streams -> Nat \cup {None}] /\ observed' \in [Streams -> SUBSET Nat]
    BY <1>1 DEF Gaps!Observe
  <1>7. reports' \subseteq Gaps!GapReport
    BY <1>1, <1>4 DEF Gaps!Observe
  <1>8. \A t \in Streams : positions'[t] = positions[t] \/ positions'[t].lastSeenAt = at
    BY <1>1 DEF Gaps!Observe, Gaps!Observed
  <1>. QED  BY <1>5, <1>6, <1>7, <1>8 DEF Gaps!TypeOK

(* A step on a frame leaves the monitor's own variables alone, and the     *)
(* position of every stream but one it observes, which is dated from the   *)
(* frame's receipt.                                                        *)
LEMMA HandleFacts ==
    ASSUME Watching, Handle
    PROVE  /\ UNCHANGED <<now, monitorVars>>
           /\ lastDataAt' \in Times
           /\ state' \in {"HEALTHY", "DEGRADED"}
           /\ \A s \in Streams :
                 positions'[s] = positions[s] \/ positions'[s].lastSeenAt = lastDataAt'
           /\ Gaps!TypeOK'
  <1>1. TypeOK /\ Gaps!TypeOK
    BY DEF Watching, TypeOK
  <1>2. ASSUME NEW at \in ReceivedAt, Receive(at)
        PROVE  /\ UNCHANGED <<now, monitorVars, gapVars>>
               /\ lastDataAt' \in Times
               /\ state' \in {"HEALTHY", "DEGRADED"}
    BY <1>1, <1>2, DegradedIs DEF Receive, ReceivedAt, TypeOK
  <1>3. ASSUME WriteFails \/ CheckFreshness
        PROVE  /\ UNCHANGED <<now, monitorVars, gapVars>>
               /\ lastDataAt' \in Times
               /\ state' \in {"HEALTHY", "DEGRADED"}
    BY <1>1, <1>3, DegradedIs DEF WriteFails, CheckFreshness, TypeOK
  <1>4. ASSUME UNCHANGED gapVars
        PROVE  UNCHANGED positions /\ Gaps!TypeOK'
    BY <1>1, <1>4 DEF gapVars, Gaps!TypeOK
  <1>5. ASSUME NEW s \in Streams, NEW sequence \in SeqNumbers \cup {None}, ObserveEvent(s, sequence)
        PROVE  /\ UNCHANGED <<now, monitorVars, lastDataAt>>
               /\ lastDataAt' \in Times
               /\ state' \in {"HEALTHY", "DEGRADED"}
               /\ \A t \in Streams :
                     positions'[t] = positions[t] \/ positions'[t].lastSeenAt = lastDataAt'
               /\ Gaps!TypeOK'
    <2>1. /\ lastDataAt \in Times /\ Gaps!Observe(s, sequence, lastDataAt)
          /\ UNCHANGED <<now, state, lastDataAt, monitorVars>>
      BY <1>1, <1>5 DEF ObserveEvent, TypeOK
    <2>. QED  BY <1>1, <2>1, ObserveFacts DEF TypeOK
  <1>. QED  BY <1>2, <1>3, <1>4, <1>5 DEF Handle

----------------------------------------------------------------------------
(* Each part of the invariant under each step the monitor can see.         *)

LEMMA WaitFacts ==
    ASSUME TypeOK, Wait
    PROVE  /\ nextCheck' \in Times
           /\ pc' \in {"sleeping", "stopped"}
  BY DEF TypeOK, Wait

(* Every step keeps the types.                                             *)
LEMMA TypeStep ==
    ASSUME Watching, WatchStep
    PROVE  TypeOK'
  <1>0. TypeOK
    BY DEF Watching
  <1>1. CASE Tick
    BY <1>0, <1>1 DEF Tick, TypeOK, monitorVars, gapVars, Gaps!TypeOK
  <1>2. CASE Handle
    BY <1>0, <1>2, HandleFacts DEF TypeOK, monitorVars
  <1>3. CASE QuietPass
    <2>1. nextCheck' \in Times /\ pc' \in {"sleeping", "stopped"}
      BY <1>0, <1>3, WaitFacts DEF QuietPass
    <2>2. state' \in {"HEALTHY", "DEGRADED"} /\ last' \subseteq Silence
      BY <1>0, <1>3, ReflectedIs, ObservationTyped DEF QuietPass
    <2>. QED  BY <1>0, <1>3, <2>1, <2>2 DEF QuietPass, TypeOK, gapVars, Gaps!TypeOK
  <1>4. CASE BeginCheck
    BY <1>0, <1>4, ObservationTyped DEF BeginCheck, TypeOK, gapVars, Gaps!TypeOK
  <1>5. ASSUME NEW g \in Silence, ReportSilence(g)
        PROVE  TypeOK'
    <2>1. check \in MonitorCheck
      BY <1>5 DEF Watching, PassKeepsItsSilences, ReportSilence
    <2>2. [check EXCEPT !.todo = @ \ {g}] \in MonitorCheck
      BY <2>1 DEF MonitorCheck
    <2>3. pc' \in {"checking", "dead"}
      BY <1>5 DEF ReportSilence, CallbackReturns, CallbackRaises
    <2>4. registered \in Seq(Silence) /\ Append(registered, g) \in Seq(Silence)
      BY <1>0, AppendProperties DEF TypeOK
    <2>5. registered' \in Seq(Silence)
      BY <1>5, <2>4 DEF ReportSilence, CallbackReturns, CallbackRaises
    <2>. QED  BY <1>0, <1>5, <2>2, <2>3, <2>5 DEF ReportSilence, TypeOK, gapVars, Gaps!TypeOK
  <1>6. CASE EndCheck
    <2>1. nextCheck' \in Times /\ pc' \in {"sleeping", "stopped"}
      BY <1>0, <1>6, WaitFacts DEF EndCheck
    <2>2. state' \in {"HEALTHY", "DEGRADED"}
      BY <1>0, <1>6, ReflectedIs DEF EndCheck
    <2>3. check.silences \subseteq Silence
      BY <1>6 DEF Watching, PassKeepsItsSilences, EndCheck, MonitorCheck
    <2>. QED  BY <1>0, <1>6, <2>1, <2>2, <2>3 DEF EndCheck, TypeOK, gapVars, Gaps!TypeOK
  <1>7. CASE StopWakes
    BY <1>0, <1>7 DEF StopWakes, TypeOK, gapVars, Gaps!TypeOK
  <1>8. CASE Interrupted
    BY <1>0, <1>8 DEF Interrupted, TypeOK, gapVars, Gaps!TypeOK
  <1>9. CASE UNCHANGED vars
    BY <1>0, <1>9 DEF vars, monitorVars, TypeOK, gapVars, Gaps!TypeOK
  <1>. QED
    BY <1>1, <1>2, <1>3, <1>4, <1>5, <1>6, <1>7, <1>8, <1>9 DEF WatchStep, Check

(* What a pass has still to hand over shrinks by what becomes reported.    *)
LEMMA PassStep ==
    ASSUME Watching, WatchStep
    PROVE  PassKeepsItsSilences'
  <1>1. CASE Tick \/ Handle \/ Interrupted \/ UNCHANGED vars
    <2>1. UNCHANGED <<pc, check, reported>>
      BY <1>1, HandleFacts DEF Tick, Interrupted, vars, monitorVars
    <2>. QED  BY <2>1 DEF Watching, PassKeepsItsSilences
  <1>2. CASE QuietPass \/ EndCheck \/ StopWakes
    <2>1. pc' # "checking"
      BY <1>2 DEF QuietPass, EndCheck, StopWakes, Wait
    <2>. QED  BY <2>1 DEF PassKeepsItsSilences
  <1>3. CASE BeginCheck
    BY <1>3, ObservationTyped DEF BeginCheck, Observation, Unreported, PassKeepsItsSilences
  <1>4. ASSUME NEW g \in Silence, ReportSilence(g)
        PROVE  PassKeepsItsSilences'
    <2>1. /\ check \in MonitorCheck /\ check.new # {}
          /\ check.todo \cap reported = {}
          /\ check.silences \subseteq check.todo \cup reported
      BY <1>4 DEF Watching, PassKeepsItsSilences, ReportSilence
    <2>2. /\ check' = [check EXCEPT !.todo = @ \ {g}]
          /\ reported' = reported \cup {g}
      BY <1>4 DEF ReportSilence
    <2>3. check' \in MonitorCheck /\ check'.todo = check.todo \ {g}
          /\ check'.new = check.new /\ check'.silences = check.silences
      BY <2>1, <2>2 DEF MonitorCheck
    <2>. QED  BY <2>1, <2>2, <2>3 DEF PassKeepsItsSilences
  <1>. QED  BY <1>1, <1>2, <1>3, <1>4 DEF WatchStep, Check

(* A silence appended to the register is registered.                       *)
LEMMA AppendedRegistered ==
    ASSUME registered \in Seq(Silence), NEW g \in Silence, registered' = Append(registered, g)
    PROVE  Registered' = Registered \cup {g}
  BY DEF Registered

(* Every step keeps what is remembered as reported handed over.            *)
LEMMA HandedOverStep ==
    ASSUME Watching, WatchStep
    PROVE  ReportedIsHandedOver'
  <1>0. ReportedIsHandedOver
    BY DEF Watching
  <1>1. CASE Tick \/ Handle \/ Interrupted \/ BeginCheck \/ UNCHANGED vars
    <2>1. /\ UNCHANGED <<reported, registered, last>>
          /\ pc' = pc \/ (pc = "sleeping" /\ pc' = "checking")
      BY <1>1, HandleFacts DEF Tick, Interrupted, BeginCheck, PassDue, vars, monitorVars
    <2>. QED  BY <1>0, <2>1 DEF ReportedIsHandedOver, Registered
  <1>2. CASE QuietPass \/ EndCheck
    <2>1. UNCHANGED <<reported, registered>> /\ pc # "dead"
      BY <1>2 DEF QuietPass, EndCheck, PassDue
    <2>2. last' \subseteq reported
      BY <1>2 DEF QuietPass, EndCheck, Unreported, Watching, PassKeepsItsSilences
    <2>. QED  BY <1>0, <2>1, <2>2 DEF ReportedIsHandedOver, Registered
  <1>3. ASSUME NEW g \in Silence, ReportSilence(g)
        PROVE  ReportedIsHandedOver'
    <2>1. /\ reported' = reported \cup {g} /\ UNCHANGED last
          /\ pc = "checking" /\ pc' \in {"checking", "dead"}
      BY <1>3 DEF ReportSilence, CallbackReturns, CallbackRaises
    <2>2. CASE CallbackReturns(g)
      <3>1. Registered' = Registered \cup {g}
        BY <2>2, AppendedRegistered DEF CallbackReturns, Watching, TypeOK
      <3>. QED  BY <1>0, <2>1, <3>1 DEF ReportedIsHandedOver
    <2>3. CASE CallbackRaises(g)
      <3>1. UNCHANGED registered /\ pc' = "dead"
        BY <2>3 DEF CallbackRaises
      <3>. QED  BY <1>0, <2>1, <3>1 DEF ReportedIsHandedOver, Registered
    <2>. QED  BY <1>3, <2>2, <2>3 DEF ReportSilence
  <1>4. CASE StopWakes
    <2>1. /\ UNCHANGED <<reported, registered, last>>
          /\ pc = "sleeping" /\ last # None
      BY <1>4 DEF StopWakes
    <2>. QED  BY <1>0, <2>1 DEF ReportedIsHandedOver, Registered
  <1>. QED  BY <1>1, <1>2, <1>3, <1>4 DEF WatchStep, Check

(* A pass that reads a silence, or an age, reads it off a frame.           *)
LEMMA UnhealthyHasData ==
    ASSUME NothingBeforeData, lastDataAt = None
    PROVE  Silences = {} /\ StaleStreams = {} /\ ~ IsSilent
  BY DEF NothingBeforeData, Silences, Gaps!SilentStreams, StaleStreams, IsSilent

(* Every step keeps the monitor quiet until there is data.                 *)
LEMMA DataStep ==
    ASSUME Watching, WatchStep
    PROVE  NothingBeforeData'
  <1>0. NothingBeforeData
    BY DEF Watching
  <1>1. CASE Handle
    BY <1>0, <1>1, HandleFacts DEF NothingBeforeData
  <1>2. CASE Tick \/ BeginCheck \/ StopWakes \/ (\E g \in Silence : ReportSilence(g)) \/ UNCHANGED vars
    <2>1. UNCHANGED <<lastDataAt, state, positions>>
      BY <1>2 DEF Tick, BeginCheck, StopWakes, ReportSilence, vars, gapVars
    <2>2. pc' = "checking" => pc = "checking" \/ BeginCheck
      BY <1>2 DEF Tick, BeginCheck, StopWakes, ReportSilence, vars, monitorVars
    <2>3. BeginCheck => lastDataAt # None
      BY <1>0, UnhealthyHasData DEF BeginCheck, Unreported
    <2>. QED  BY <1>0, <2>1, <2>2, <2>3 DEF NothingBeforeData
  <1>3. CASE Interrupted
    <2>1. UNCHANGED <<state, lastDataAt, pc, positions>>
      BY <1>3 DEF Interrupted, gapVars
    <2>. QED  BY <1>0, <2>1 DEF NothingBeforeData
  <1>4. CASE QuietPass
    <2>1. UNCHANGED <<lastDataAt, positions>> /\ pc' # "checking" /\ state' = Reflected(Observation)
      BY <1>4 DEF QuietPass, Wait, gapVars
    <2>2. lastDataAt = None => IsHealthy(Observation)
      BY UnhealthyHasData, <1>0 DEF IsHealthy, Observation, Unreported
    <2>. QED  BY <1>0, <2>1, <2>2 DEF NothingBeforeData, Reflected
  <1>5. CASE EndCheck
    <2>1. UNCHANGED <<lastDataAt, positions>> /\ pc' # "checking" /\ pc = "checking"
      BY <1>5 DEF EndCheck, Wait, gapVars
    <2>. QED  BY <1>0, <2>1 DEF NothingBeforeData
  <1>. QED  BY <1>1, <1>2, <1>3, <1>4, <1>5 DEF WatchStep, Check

(* A silence is handed over while it is in todo, and leaves it for good.   *)
LEMMA OnceStep ==
    ASSUME Watching, WatchStep
    PROVE  ReportedOnce'
  <1>0. ReportedOnce /\ registered \in Seq(Silence)
    BY DEF Watching, TypeOK
  <1>1. ASSUME NEW g \in Silence, ReportSilence(g), CallbackReturns(g)
        PROVE  ReportedOnce'
    <2>1. registered' = Append(registered, g)
      BY <1>1 DEF CallbackReturns
    <2>2. g \notin Registered
      BY <1>1 DEF ReportSilence, Watching, PassKeepsItsSilences, ReportedIsHandedOver
    <2>. QED  BY <1>0, <2>1, <2>2 DEF ReportedOnce, Registered
  <1>2. CASE ~ \E g \in Silence : ReportSilence(g) /\ CallbackReturns(g)
    <2>1. UNCHANGED registered
      BY <1>2, HandleFacts DEF WatchStep, Check, Tick, QuietPass, BeginCheck, ReportSilence,
             CallbackRaises, EndCheck, StopWakes, Interrupted, vars, monitorVars
    <2>. QED  BY <1>0, <2>1 DEF ReportedOnce
  <1>. QED  BY <1>1, <1>2

(* Every step of the monitor preserves its inductive invariant.            *)
LEMMA WatchingStep ==
    ASSUME Watching, WatchStep
    PROVE  Watching'
  BY TypeStep, PassStep, HandedOverStep, DataStep, OnceStep DEF Watching

(* The invariant of the monitor holds at the start.                        *)
LEMMA InitWatching == Init => Watching
  <1> SUFFICES ASSUME Init
               PROVE  Watching
    OBVIOUS
  <1>1. Gaps!TypeOK
    BY DEF Init, Gaps!Init, Gaps!TypeOK, Gaps!NewPosition, Gaps!StreamPosition
  <1>2. TypeOK
    <2>1. registered \in Seq(Silence)
      BY DEF Init
    <2>2. 0 \in Times
      OBVIOUS
    <2>3. /\ now \in Times /\ nextCheck \in Times /\ lastDataAt \in Times \cup {None}
          /\ state \in {"HEALTHY", "DEGRADED"} /\ pc = "sleeping"
      BY <2>2 DEF Init
    <2>4. stop \in BOOLEAN
      BY DEF Init
    <2>5. check = None /\ last = None /\ reported = {}
      BY DEF Init
    <2>. QED  BY <1>1, <2>1, <2>3, <2>4, <2>5 DEF TypeOK
  <1>3. Registered = {}
    BY DEF Init, Registered
  <1>. QED
    BY <1>2, <1>3 DEF Init, Gaps!Init, Gaps!NewPosition, Watching, PassKeepsItsSilences,
         ReportedIsHandedOver, NothingBeforeData, ReportedOnce

(* The monitor beside the recorder it watches, however it is stopped.      *)
THEOREM MonitorInvariance == Spec => []Watching
  <1>1. Watching /\ [Next]_vars => Watching'
    BY MonitorAlone, WatchingStep DEF Watching
  <1>. QED  BY InitWatching, <1>1, PTL DEF Spec

(* The same two tasks as the command line runs them.                       *)
THEOREM CommandInvariance == CommandSpec => []Watching
  <1>1. CommandInit => Watching
    BY InitWatching DEF CommandInit
  <1>2. Watching /\ [CommandNext]_allVars => Watching'
    BY UnderCommand, WatchingStep DEF Watching
  <1>. QED  BY <1>1, <1>2, PTL DEF CommandSpec

(* One silence, one row: whatever arrives while Monitor.check() awaits     *)
(* on_gap, however many passes a silence lasts, no two rows of the         *)
(* registry are of one silence.                                            *)
THEOREM SilencesReportedOnce == CommandSpec => []ReportedOnce
  <1>1. Watching => ReportedOnce
    BY DEF Watching
  <1>. QED  BY CommandInvariance, <1>1, PTL

(* No silence a pass of Monitor.check() has seen is missing from what was  *)
(* handed over, once that pass is over.                                    *)
THEOREM SilencesAllRegistered == CommandSpec => []EverySilenceRegistered
  <1>1. Watching => EverySilenceRegistered
    BY DEF Watching, ReportedIsHandedOver, EverySilenceRegistered
  <1>. QED  BY CommandInvariance, <1>1, PTL

----------------------------------------------------------------------------
(* Recovery.                                                               *)

(* A stream older than the silence threshold is older than a staleness     *)
(* limit that is no longer.                                                *)
LEMMA SilentIsStale ==
    ASSUME Watching, StalenessLimit <= SilenceThreshold, StaleStreams = {}
    PROVE  Silences = {}
  <1>1. ASSUME NEW s \in Gaps!SilentStreams(now)
        PROVE  s \in StaleStreams
    <2>1. /\ s \in Streams /\ positions[s].lastSeenAt # None
          /\ now - positions[s].lastSeenAt > SilenceThreshold
      BY <1>1 DEF Gaps!SilentStreams
    <2>2. positions[s].lastSeenAt \in Times /\ now \in Times
      BY <2>1 DEF Watching, NothingBeforeData, TypeOK
    <2>3. now - positions[s].lastSeenAt > StalenessLimit
      BY <2>1, <2>2
    <2>. QED  BY <2>1, <2>3 DEF StaleStreams
  <1>. QED  BY <1>1 DEF Silences

(* A pass declares recovery only on the evidence the property names.       *)
LEMMA RecoveryStep ==
    ASSUME Watching, WatchStep, state = "DEGRADED", state' = "HEALTHY"
    PROVE  /\ lastDataAt' # None
           /\ now - lastDataAt' <= HeartbeatThreshold
           /\ QuietPass \/ EndCheck =>
                 /\ StaleStreams = {}
                 /\ StalenessLimit <= SilenceThreshold => Silences = {}
  <1>1. TypeOK /\ lastDataAt # None
    BY DEF Watching, NothingBeforeData
  <1>2. ASSUME EndCheck
        PROVE  FALSE
    <2>1. IsHealthy(check) /\ check.new # {}
      BY <1>2 DEF EndCheck, Reflected, Watching, PassKeepsItsSilences
    <2>. QED  BY <2>1 DEF IsHealthy
  <1>3. ASSUME QuietPass
        PROVE  StaleStreams = {} /\ ~ IsSilent /\ lastDataAt' = lastDataAt
    <2>1. IsHealthy(Observation) /\ lastDataAt' = lastDataAt
      BY <1>3 DEF QuietPass, Reflected
    <2>. QED  BY <2>1 DEF IsHealthy, Observation
  <1>4. lastDataAt' # None /\ now - lastDataAt' <= HeartbeatThreshold
    <2>1. CASE QuietPass
      <3>1. ~ (now - lastDataAt > HeartbeatThreshold) /\ lastDataAt' = lastDataAt
        BY <1>1, <1>3, <2>1 DEF IsSilent
      <3>2. now \in Nat /\ lastDataAt \in Nat
        BY <1>1 DEF TypeOK
      <3>. QED  BY <1>1, <3>1, <3>2
    <2>2. CASE Handle
      <3>1. CheckFreshness
        BY <2>2 DEF Handle, Receive, ObserveEvent, WriteFails, Degraded
      <3>2. ~ (now - lastDataAt > HeartbeatThreshold) /\ lastDataAt' = lastDataAt
        BY <3>1 DEF CheckFreshness, Degraded
      <3>3. lastDataAt \in Nat /\ now \in Nat
        BY <1>1 DEF TypeOK
      <3>. QED  BY <1>1, <3>2, <3>3
    <2>3. CASE ~ QuietPass /\ ~ Handle
      <3>1. state' = state
        BY <1>2, <2>3 DEF WatchStep, Check, Tick, BeginCheck, ReportSilence, StopWakes, Interrupted, vars
      <3>. QED  BY <3>1
    <2>. QED  BY <2>1, <2>2, <2>3
  <1>. QED  BY <1>2, <1>3, <1>4, SilentIsStale

(* Whichever of the two tasks takes the recorder back to HEALTHY, a frame  *)
(* has arrived within the heartbeat's threshold; and when it is            *)
(* Monitor._reflect_in_state(), every stream is fresh, and none is silent  *)
(* where the staleness limit is not the longer one.                        *)
THEOREM RecoveryIsOnEvidence == CommandSpec => RecoversOnEvidence
  <1>1. ASSUME Watching, [CommandNext]_allVars
        PROVE  [state = "DEGRADED" /\ state' = "HEALTHY" =>
                   /\ lastDataAt' # None
                   /\ now - lastDataAt' <= HeartbeatThreshold
                   /\ QuietPass \/ EndCheck =>
                         /\ StaleStreams = {}
                         /\ StalenessLimit <= SilenceThreshold => Silences = {}]_vars
    BY <1>1, UnderCommand, RecoveryStep DEF Watching
  <1>. QED  BY CommandInvariance, <1>1, PTL DEF CommandSpec, RecoversOnEvidence

----------------------------------------------------------------------------
(* What the recorder sees of the monitor, as MonitorPass of Recorder says. *)
SeenOfPass ==
    /\ \/ state' = state
       \/ state = "DEGRADED" /\ ~ IsSilent /\ StaleStreams = {} /\ state' = "HEALTHY"
       \/ state = "HEALTHY" /\ lastDataAt # None /\ state' = "DEGRADED"
    /\ UNCHANGED <<now, lastDataAt, gapVars>>

(* A step of a pass, one suspended at a callback included, does to what is *)
(* shared with the recorder what MonitorPass of Recorder allows.           *)
LEMMA PassStepSeen ==
    ASSUME Watching, Check
    PROVE  SeenOfPass
  <1>1. NothingBeforeData /\ TypeOK
    BY DEF Watching
  <1>2. CASE QuietPass
    <2>1. state' = Reflected(Observation) /\ UNCHANGED <<now, lastDataAt, gapVars>>
      BY <1>2 DEF QuietPass
    <2>2. IsHealthy(Observation) => ~ IsSilent /\ StaleStreams = {}
      BY DEF IsHealthy, Observation
    <2>3. ~ IsHealthy(Observation) => lastDataAt # None
      BY <1>1, UnhealthyHasData DEF IsHealthy, Observation, Unreported
    <2>. QED  BY <2>1, <2>2, <2>3 DEF Reflected, SeenOfPass
  <1>3. CASE EndCheck
    <2>1. ~ IsHealthy(check) /\ lastDataAt # None
      BY <1>1, <1>3 DEF EndCheck, Watching, PassKeepsItsSilences, NothingBeforeData, IsHealthy
    <2>. QED  BY <1>3, <2>1 DEF EndCheck, Reflected, SeenOfPass
  <1>4. CASE BeginCheck \/ StopWakes \/ \E g \in Silence : ReportSilence(g)
    BY <1>4 DEF BeginCheck, StopWakes, ReportSilence, SeenOfPass
  <1>. QED  BY <1>2, <1>3, <1>4 DEF Check

(* Monitor.check() beside a recorder, however the command runs them, does  *)
(* nothing to the recorder but what Recorder's model of it may do: it      *)
(* degrades a state once there is data, and recovers one over a connection *)
(* that is alive and streams that are all fresh.                           *)
THEOREM PassesAsSeen == CommandSpec => [][Check => SeenOfPass]_vars
  <1>1. Watching => [Check => SeenOfPass]_vars
    BY PassStepSeen
  <1>. QED  BY CommandInvariance, <1>1, PTL

----------------------------------------------------------------------------
(* The command around them.                                                *)

(* What load_settings() and the guard of websocket_url() let through holds *)
(* no way to sign and send an order, and no key where none may be.         *)
LEMMA AcceptedExposesNothing ==
    ASSUME NEW s, Accepts(s)
    PROVE  ~ Exposes(s)
  <1>1. Config!KeyPermitted(s) /\ Config!MarketDataIsReadOnly(s)
    BY DEF Accepts, EndpointGuard, Config!Loads
  <1>2. ~ Config!CouldMoveCapital(s)
    <2>1. s.key.length = PrivateKeyHexLength => s.key.length > 0
      BY CommandAssumption
    <2>. QED
      BY <1>1, <2>1 DEF Config!CouldMoveCapital, Config!MarketDataIsReadOnly,
           Config!MaySubmitOrders, Config!KeyGiven
  <1>3. ~ Config!MisplacedKey(s)
    BY <1>1 DEF Config!MisplacedKey, Config!KeyPermitted, Config!KeyLeft
  <1>4. Config!VenueEndpoint(s.execution) # "mainnet"
    BY <1>1, CommandAssumption DEF Config!MarketDataIsReadOnly, Config!ReachesRealCapital,
         Config!VenueEndpoint
  <1>. QED  BY <1>2, <1>3, <1>4 DEF Exposes

(* "Mainnet market data did not open an execution path": a run that        *)
(* records holds no settings under which capital could move, for every set *)
(* of environments it may be started in.                                   *)
THEOREM RunsAreReadOnly == CommandSpec => []ReadOnlyRun
  <1>1. CommandInit => ReadOnlyRun
    BY DEF CommandInit, ReadOnlyRun
  <1>2. ReadOnlyRun /\ [CommandNext]_allVars => ReadOnlyRun'
    <2> SUFFICES ASSUME ReadOnlyRun, [CommandNext]_allVars
                 PROVE  ReadOnlyRun'
      OBVIOUS
    <2>1. ASSUME NEW s \in Environments, Start(s) \/ StartFails(s)
          PROVE  ReadOnlyRun'
      BY <2>1, AcceptedExposesNothing DEF Start, StartFails, ReadOnlyRun
    <2>2. CASE ~ \E s \in Environments : Start(s) \/ StartFails(s)
      <3>1. UNCHANGED capital
        BY <2>2 DEF CommandNext, Starting, RefuseSettings, Replay, GuardRaises, RefuseStores,
             LimitOverflows, NotStarted, TimePasses, MonitorSteps, RecorderSteps,
             TimeLimitReached, RecordingRaises, RecordingEnds, Ending, MonitorRaises,
             EndWithoutReport, Report, commandVars, allVars
      <3>. QED  BY <3>1 DEF ReadOnlyRun
    <2>. QED  BY <2>1, <2>2
  <1>. QED  BY <1>1, <1>2, PTL DEF CommandSpec

(* A report is the last thing a run does.                                  *)
ReportedIsEnded == report # None => cmd = "ended"

(* Every step keeps the report complete.                                   *)
LEMMA ReportStep ==
    ASSUME Watching, ReportedIsEnded, ReportIsComplete, [CommandNext]_allVars
    PROVE  ReportedIsEnded' /\ ReportIsComplete'
  <1>1. CASE Report
    <2>1. /\ pc = "stopped" /\ cmd' = "ended"
          /\ report' = [state |-> state, silent |-> last, gaps |-> Registered]
          /\ UNCHANGED <<pc, reported>>
      BY <1>1 DEF Report, MonitorDone, EndWith, taskVars, monitorVars
    <2>2. reported \cup last \subseteq Registered
      BY <2>1 DEF Watching, ReportedIsHandedOver
    <2>. QED  BY <2>1, <2>2 DEF ReportedIsEnded, ReportIsComplete
  <1>2. CASE ~ Report /\ report = None
    <2>1. report' = None
      BY <1>2 DEF CommandNext, Starting, RefuseSettings, Replay, GuardRaises, RefuseStores,
           LimitOverflows, Start, StartFails, NotStarted, TimePasses, MonitorSteps,
           RecorderSteps, TimeLimitReached, RecordingRaises, RecordingEnds, Ending,
           MonitorRaises, EndWithoutReport, commandVars, allVars
    <2>. QED  BY <2>1 DEF ReportedIsEnded, ReportIsComplete
  <1>3. CASE report # None
    <2>1. UNCHANGED allVars
      BY <1>3 DEF ReportedIsEnded, CommandNext, Starting, TimePasses, MonitorSteps,
           RecorderSteps, Running, TimeLimitReached, RecordingRaises, RecordingEnds, Ending,
           MonitorRaises, EndWithoutReport, Report
    <2>. QED
      BY <2>1 DEF allVars, taskVars, commandVars, monitorVars, ReportedIsEnded, ReportIsComplete
  <1>. QED  BY <1>1, <1>2, <1>3

(* A run that reports has awaited its monitor, and its report lists every  *)
(* silence the monitor has seen, one being handed over when the time limit *)
(* was reached included.                                                   *)
THEOREM ReportsAreComplete == CommandSpec => []ReportIsComplete
  <1>1. CommandInit => ReportedIsEnded /\ ReportIsComplete
    BY DEF CommandInit, ReportedIsEnded, ReportIsComplete
  <1>2. /\ Watching /\ ReportedIsEnded /\ ReportIsComplete /\ [CommandNext]_allVars
        => ReportedIsEnded' /\ ReportIsComplete'
    BY ReportStep
  <1>. QED  BY CommandInvariance, <1>1, <1>2, PTL DEF CommandSpec

(* The command's own variables stay typed, whichever way a run ends.       *)
THEOREM TypeCorrect == CommandSpec => []CommandTypeOK
  <1> DEFINE Inv == CommandTypeOK
  <1>1. CommandInit => Inv
    BY InitWatching DEF CommandInit, CommandTypeOK, Watching
  <1>2. Watching /\ Inv /\ [CommandNext]_allVars => Inv'
    <2> SUFFICES ASSUME Watching, CommandTypeOK, [CommandNext]_allVars
                 PROVE  CommandTypeOK'
      OBVIOUS
    <2>1. TypeOK'
      BY UnderCommand, WatchingStep DEF Watching
    <2>2. CASE Starting
      <3>1. UNCHANGED <<args, report>> /\ cmd' \in {"recording", "stopping", "ended"}
        BY <2>2 DEF Starting, RefuseSettings, Replay, GuardRaises, RefuseStores, LimitOverflows,
             Start, StartFails, NotStarted, EndWith
      <3>2. ending' \in {"raised", ending} /\ outcome' \in {0, 1, 2, Raised, outcome}
        BY <2>2 DEF Starting, RefuseSettings, Replay, GuardRaises, RefuseStores, LimitOverflows,
             Start, StartFails, NotStarted, EndWith
      <3>3. capital' \in BOOLEAN
        BY <2>2 DEF Starting, RefuseSettings, Replay, GuardRaises, RefuseStores, LimitOverflows,
             Start, StartFails, NotStarted, Exposes, CommandTypeOK
      <3>. QED  BY <2>1, <3>1, <3>2, <3>3 DEF CommandTypeOK
    <2>3. CASE TimePasses \/ MonitorSteps \/ RecorderSteps \/ UNCHANGED allVars
      <3>1. UNCHANGED commandVars
        BY <2>3 DEF TimePasses, MonitorSteps, RecorderSteps, allVars
      <3>. QED  BY <2>1, <3>1 DEF commandVars, CommandTypeOK
    <2>4. CASE TimeLimitReached \/ RecordingRaises
      BY <2>1, <2>4 DEF TimeLimitReached, RecordingRaises, RecordingEnds, CommandTypeOK
    <2>5. CASE MonitorRaises \/ EndWithoutReport
      BY <2>1, <2>5 DEF MonitorRaises, EndWithoutReport, EndWith, CommandTypeOK
    <2>6. CASE Report
      <3>1. /\ UNCHANGED <<args, capital, ending>> /\ cmd' = "ended" /\ outcome' \in {0, 1}
            /\ report' = [state |-> state, silent |-> last, gaps |-> Registered]
        BY <2>6 DEF Report, EndWith
      <3>2. state \in {"HEALTHY", "DEGRADED"} /\ last \subseteq Silence /\ Registered \subseteq Silence
        BY <2>6 DEF Report, MonitorDone, Watching, TypeOK, ReportedIsHandedOver
      <3>. QED  BY <2>1, <3>1, <3>2 DEF CommandTypeOK
    <2>. QED  BY <2>2, <2>3, <2>4, <2>5, <2>6 DEF CommandNext, Ending
  <1>. QED  BY CommandInvariance, <1>1, <1>2, PTL DEF CommandSpec
=============================================================================

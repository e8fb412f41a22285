----------------------------- MODULE Acceptance -----------------------------
(***************************************************************************)
(* The acceptance run of milestones M1 and M2: run() and _record_live() of *)
(* infrastructure/scripts/acceptance_m1_m2.py, with the analyses and the   *)
(* two decisions of services/market_data/acceptance.py.  The recorder      *)
(* writes through the capture and a sink that notes the order of writes    *)
(* into memory, for some minutes; the capture is then analysed, replayed   *)
(* twice, and the milestones are decided from what was collected.          *)
(*                                                                         *)
(* The memory sink neither raises nor suspends, so a frame is handled in   *)
(* one step and the time limit falls between two frames.  Latencies and    *)
(* the users field lead to warnings only and are left out, and so is the   *)
(* fault injection, which decides nothing.                                 *)
(***************************************************************************)
EXTENDS Naturals, Sequences

CONSTANTS
    Channels,       \* RECORDED_CHANNELS: a decision expects them all
    Stores,         \* the stores M1 requires
    MinimumFrames,  \* --minimum-frames
    MaxFrames       \* bound on the frames of a run

ASSUME MinimumAssumption == MinimumFrames \in Nat \ {0} /\ MaxFrames \in Nat

(* What a data frame can be: it yields new events; all its required fields *)
(* are there and it yields none (no records, a value that is not usable,   *)
(* duplicates only); a required field is missing, so it is not parsed; the *)
(* validators of the event schema refuse it.  And the frames that belong   *)
(* to no channel: an acknowledgement or text, and what opens like JSON and *)
(* is not.                                                                 *)
DataShapes == {"event", "idle", "partial", "refused"}
OtherShapes == {"other", "broken"}
DeliverableFrames == [channel : Channels, shape : DataShapes] \cup
                     [channel : {"none"}, shape : OtherShapes]

VARIABLES
    pc,             \* "started", "recording", "recorded", "analysed" or how it ended
    execution,      \* "open" if the settings let orders be submitted or reach capital
    delivered,      \* the frames the source has delivered, in order
    captured,       \* the frames in the capture file, by position
    framesWritten,  \* SessionWriter.frames_written
    order,          \* _OrderedSink.order
    archived,       \* frames in the memory sink
    stored,         \* frames whose events are in the memory sink
    persistFailures,
    live,           \* "raised" once an exception has left _record_live()
    replay,         \* replay_deterministic
    m1, m2,         \* the states decided
    exitCode

sinkVars == <<captured, framesWritten, order, archived, stored, persistFailures>>
verdictVars == <<m1, m2, exitCode>>
vars == <<pc, execution, delivered, sinkVars, live, replay, verdictVars>>

Positions == DOMAIN delivered
Shape(n) == delivered[n].shape

----------------------------------------------------------------------------
(* The evidence, and the decisions over it.                                *)

(* raw_first_holds(): every event marker has its frame's raw marker before *)
(* it, and there was a raw frame at all.                                   *)
RawFirstHolds(markers) ==
    /\ \E i \in DOMAIN markers : markers[i].kind = "raw"
    /\ \A j \in DOMAIN markers : markers[j].kind = "event" =>
          \E i \in 1..(j - 1) : markers[i] = [kind |-> "raw", frame |-> markers[j].frame]

(* analyse_schema(): the channels never seen in the capture, and the      *)
(* frames in which a required field is absent.                             *)
MissingChannels == Channels \ {delivered[n].channel : n \in captured}
Deviations == {n \in captured : Shape(n) = "partial"}

(* What run() passes to decide_m2().  A live run that raised has left it   *)
(* no recorder, no sinks and a count of zero -- and the capture file.      *)
Evidence ==
    [frames |-> IF live = "raised" THEN 0 ELSE framesWritten,
     deviations |-> Deviations,
     missing |-> MissingChannels,
     events |-> IF live = "raised" THEN {} ELSE stored,
     losses |-> IF live = "raised" THEN 0 ELSE persistFailures,
     order |-> IF live = "raised" THEN <<>> ELSE order,
     replay |-> replay]

Blocked_IgnoresLosses(e) ==
    e.deviations # {} \/ e.events = {} \/ ~RawFirstHolds(e.order) \/ e.replay = "differs"

M2State_NoEarlyReturn(e) ==
    IF \/ e.deviations # {} \/ e.events = {} \/ e.losses > 0
       \/ ~RawFirstHolds(e.order) \/ e.replay = "differs"
    THEN "LIVE_VERIFICATION_FAILED"
    ELSE IF e.frames < MinimumFrames \/ e.missing # {} \/ e.replay = "unchecked"
    THEN "LIVE_VERIFICATION_INCONCLUSIVE"
    ELSE "LIVE_VERIFIED"

(* decide_m2(): its blocking failures ...                                  *)
Blocked(e) ==
    \/ e.deviations # {}
    \/ e.events = {}
    \/ e.losses > 0
    \/ ~RawFirstHolds(e.order)
    \/ e.replay = "differs"

(* ... a sample that says nothing ...                                      *)
Thin(e) == e.frames < MinimumFrames

(* ... and its outcome.  No frames at all leave every check untested.      *)
M2State(e) ==
    IF e.frames = 0 THEN "LIVE_VERIFICATION_INCONCLUSIVE"
    ELSE IF Blocked(e) THEN "LIVE_VERIFICATION_FAILED"
    ELSE IF Thin(e) \/ e.missing # {} \/ e.replay = "unchecked"
    THEN "LIVE_VERIFICATION_INCONCLUSIVE"
    ELSE "LIVE_VERIFIED"

(* decide_m1() over _m1_store_results(): a store the report does not name  *)
(* counts as failed, and so do tests that did not run.                     *)
M1State(storage, integration) ==
    IF (\A s \in Stores : storage[s] = "HEALTHY") /\ integration = "passed"
    THEN "VERIFIED" ELSE "VERIFICATION_FAILED"

----------------------------------------------------------------------------
Init ==
    /\ pc = "started"
    /\ execution \in {"open", "closed"}
    /\ delivered = <<>> /\ captured = {} /\ framesWritten = 0
    /\ order = <<>> /\ archived = {} /\ stored = {}
    /\ persistFailures = 0
    /\ live = "fine"
    /\ replay = "unchecked"
    /\ m1 = "NOT_RUN" /\ m2 = "NOT_RUN"
    /\ exitCode = 0

(* The safety gate comes before any network activity, so decide_m2() never *)
(* finds execution enabled.                                                *)
Start ==
    /\ pc = "started"
    /\ IF execution = "open"
       THEN pc' = "ended" /\ exitCode' = 2
       ELSE pc' = "recording" /\ UNCHANGED exitCode
    /\ UNCHANGED <<execution, delivered, sinkVars, live, replay, m1, m2>>

(* The capture's write raises -- for a broken frame before anything is     *)
(* written, for another at the flush, with the line in the file or not.    *)
(* The recorder counts a failed archive write and drops the frame.         *)
CaptureRaises(n) ==
    /\ persistFailures' = persistFailures + 1
    /\ captured' \in {captured} \cup (IF delivered'[n].shape = "broken" THEN {}
                                      ELSE {captured \cup {n}})
    /\ UNCHANGED <<framesWritten, order, archived, stored>>

Marker(k, n) == [kind |-> k, frame |-> n]

(* The whole of _handle() once the capture took the frame.                 *)
Handle(n) ==
    /\ delivered'[n].shape # "broken"
    /\ captured' = captured \cup {n}
    /\ framesWritten' = framesWritten + 1
    /\ archived' = archived \cup {n}
    /\ IF delivered'[n].shape = "event"
       THEN /\ order' = Append(Append(order, Marker("raw", n)), Marker("event", n))
            /\ stored' = stored \cup {n}
       ELSE order' = Append(order, Marker("raw", n)) /\ UNCHANGED stored
    /\ UNCHANGED persistFailures

Deliver(f) ==
    /\ pc = "recording"
    /\ Len(delivered) < MaxFrames
    /\ delivered' = Append(delivered, f)
    /\ LET n == Len(delivered') IN
       \/ CaptureRaises(n) /\ UNCHANGED <<pc, live>>
       \/ /\ Handle(n)
          /\ live' = IF f.shape = "refused" THEN "raised" ELSE live
          /\ pc' = IF f.shape = "refused" THEN "recorded" ELSE pc
    /\ UNCHANGED <<execution, replay, verdictVars>>

(* Time is up, or the source is exhausted; or the source raises.           *)
EndRecording ==
    /\ pc = "recording"
    /\ pc' = "recorded"
    /\ live' \in {"fine", "raised"}
    /\ UNCHANGED <<execution, delivered, sinkVars, replay, verdictVars>>

(* verify_determinism(): two replays of one capture agree in every event   *)
(* and counter, or they do not.                                            *)
Comparisons == {"identical", "differs"}

(* The replay of the capture, if frames were counted: it is compared, or   *)
(* it raises -- on a frame that is refused, or where the receipt times     *)
(* step back -- and the run ends without a report.                         *)
Analyse ==
    /\ pc = "recorded"
    /\ IF Evidence.frames = 0
       THEN pc' = "analysed" /\ UNCHANGED <<replay, exitCode>>
       ELSE \/ /\ \A n \in captured : Shape(n) # "refused"
               /\ replay' \in Comparisons
               /\ pc' = "analysed"
               /\ UNCHANGED exitCode
            \/ /\ \E n \in captured : Shape(n) = "refused" \/ \E k \in captured : k < n
               /\ pc' = "unreported"
               /\ exitCode' = 1
               /\ UNCHANGED replay
    /\ UNCHANGED <<execution, delivered, sinkVars, live, m1, m2>>

Decide(storage, integration) ==
    /\ pc = "analysed"
    /\ pc' = "ended"
    /\ m1' = M1State(storage, integration)
    /\ m2' = M2State(Evidence)
    /\ exitCode' = IF m1' = "VERIFIED" /\ m2' = "LIVE_VERIFIED" THEN 0 ELSE 1
    /\ UNCHANGED <<execution, delivered, sinkVars, live, replay>>

Next ==
    \/ Start
    \/ \E f \in DeliverableFrames : Deliver(f)
    \/ EndRecording
    \/ Analyse
    \/ \E storage \in [Stores -> {"HEALTHY", "UNHEALTHY", "absent"}],
          integration \in {"passed", "failed", "skipped"} : Decide(storage, integration)

Spec == Init /\ [][Next]_vars

----------------------------------------------------------------------------
(* Properties.                                                             *)

States == {"NOT_RUN", "VERIFIED", "VERIFICATION_FAILED", "LIVE_VERIFIED",
           "LIVE_VERIFICATION_FAILED", "LIVE_VERIFICATION_INCONCLUSIVE"}

Markers == [kind : {"raw", "event"}, frame : Nat]

(* The types of the variables.                                             *)
TypeOK ==
    /\ pc \in {"started", "recording", "recorded", "analysed", "ended", "unreported"}
    /\ execution \in {"open", "closed"} /\ live \in {"fine", "raised"}
    /\ delivered \in Seq(DeliverableFrames)
    /\ captured \subseteq Positions
    /\ stored \subseteq archived /\ archived \subseteq Positions
    /\ order \in Seq(Markers)
    /\ framesWritten \in 0..Len(delivered) /\ persistFailures \in 0..Len(delivered)
    /\ replay \in {"unchecked"} \cup Comparisons
    /\ m1 \in States /\ m2 \in States
    /\ exitCode \in 0..2

(* M2 is accepted only if nothing was lost on the way: every frame the     *)
(* source delivered is in the capture and in the archive, every event of   *)
(* theirs is stored, and no exception ended the recording early.           *)
AcceptedIsLossless ==
    m2 = "LIVE_VERIFIED" =>
        /\ live = "fine"
        /\ captured = Positions /\ archived = Positions
        /\ \A n \in Positions : Shape(n) = "event" => n \in stored

(* M2 is accepted only on a sample that means something: as many frames as *)
(* asked for were delivered, some on every channel, none of them without a *)
(* required field, and events came of them ("Connecting is not             *)
(* acceptance").                                                           *)
AcceptedIsCovered ==
    m2 = "LIVE_VERIFIED" =>
        /\ Len(delivered) >= MinimumFrames
        /\ \A c \in Channels : \E n \in Positions : delivered[n].channel = c
        /\ \A n \in Positions : Shape(n) # "partial"
        /\ \E n \in Positions : Shape(n) = "event"

(* M2 is failed only for a cause in the run itself: a frame was lost or    *)
(* lacked a required field, the replay disagreed with itself, or frames    *)
(* were delivered and no event came of them.  A run that received nothing  *)
(* is never failed.                                                        *)
FailedForCause ==
    m2 = "LIVE_VERIFICATION_FAILED" =>
        \/ archived # Positions
        \/ \E n \in Positions : Shape(n) = "partial"
        \/ replay = "differs"
        \/ delivered # <<>> /\ stored = {}

=============================================================================

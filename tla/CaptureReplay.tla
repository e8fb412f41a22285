--------------------------- MODULE CaptureReplay ---------------------------
(***************************************************************************)
(* A recording session with --capture, the file it leaves, and the replay  *)
(* of that file: _CapturingSink of services/market_data/cli.py, the writer *)
(* and the loader of capture.py, ReplayEngine of replay.py and ReplayClock *)
(* of libs/domain/clock.py.  The file may also be a hand-written fixture.  *)
(*                                                                         *)
(* A frame is handled as in Recorder, reduced to what a replay can tell    *)
(* apart: whether it was archived, and whether its event was stored.       *)
(* Receipt times come from the wall clock, which may step back; one unit   *)
(* is SYNTHETIC_RECEIPT_DELAY_MS.  Comments and blank lines of a file are  *)
(* left out.                                                               *)
(***************************************************************************)
EXTENDS Integers, Sequences

CONSTANTS
    Events,         \* payloads with one new event each; a redelivery repeats it
    Control,        \* a payload that yields no event
    Broken,         \* a payload that opens like JSON and is not
    Fatal,          \* a payload the event schema refuses: it ends the run
    Times,          \* receipt and venue times
    Cutoff,         \* SYNTHETIC_ANCHOR_CUTOFF, a year of units after the fallback
    MaxFrames,      \* bound on the frames of a session
    MaxLines,       \* bound on the lines of a fixture
    None            \* Python's None

Fallback == 0       \* SYNTHETIC_FALLBACK_BASE

Payloads == Events \cup {Control, Broken, Fatal}

ASSUME TimesAssumption == \A t \in Times : t \in Nat /\ t > Cutoff
ASSUME BoundsAssumption ==
    /\ MaxFrames \in Nat
    /\ Cutoff \in Nat \ {0} /\ MaxLines \in 0..(Cutoff - 1)
ASSUME PayloadAssumption ==
    /\ None \notin Nat
    /\ Control \notin Events /\ Broken \notin Events /\ Fatal \notin Events
    /\ Control # Broken /\ Control # Fatal /\ Broken # Fatal

(* The lines of a file: at is the receipt time of an envelope and the      *)
(* venue time, or None, of a bare frame.  An unloadable line is JSON that  *)
(* makes the loader raise: a header that is no object, a monotonic reading *)
(* that is no integer, a venue time beyond what a datetime can hold.       *)
Header == [kind |-> "header", payload |-> Control, at |-> None]
Torn == [kind |-> "torn", payload |-> Control, at |-> None]
Unloadable == [kind |-> "unloadable", payload |-> Control, at |-> None]
Envelope(p, t) == [kind |-> "frame", payload |-> p, at |-> t]
Bare(p, t) == [kind |-> "bare", payload |-> p, at |-> t]

FixtureLines ==
    {Header, Torn, Unloadable} \cup {Envelope(Control, t) : t \in Times}
                               \cup {Bare(Control, t) : t \in Times \cup {None}}

VARIABLES
    origin,     \* what left the file: a "session" or a "fixture"
    phase,      \* "live", "loading", "loaded", "replaying" or how it ended
    pc,         \* the frame under way: "none", "captured" or "archived"
    written,    \* the lines handed to the file, in order
    onDisk,     \* how many of them are in the file to the end
    archived,   \* lines whose frame the inner sink archived
    seen,       \* the recorder's duplicate detector
    liveRows,   \* events the inner sink stored
    failed,     \* history: events of frames not handled to the end
    file,       \* the file, once the session is over
    loaded,     \* lines of it load_session() has read
    frames,     \* the frames it made of them
    malformed,  \* malformed_lines
    lastReceipt,\* last_receipt of the bare frames
    replayed,   \* frames replayed
    clock,      \* the replay clock
    replayRows  \* events the replay stored

liveVars == <<pc, written, onDisk, archived, seen, liveRows, failed>>
loadVars == <<loaded, frames, malformed, lastReceipt>>
replayVars == <<replayed, clock, replayRows>>
vars == <<origin, phase, liveVars, file, loadVars, replayVars>>

----------------------------------------------------------------------------
EventsOf(p) == {p} \cap Events

(* Mutants.                                                                *)

Rebased_FirstOnly(fs, k, i) == k < Len(fs) /\ i <= k /\ i = 1

CaptureFrame_Unflushed(p, t) ==
    /\ written' = Append(written, Envelope(p, t))
    /\ \/ UNCHANGED onDisk /\ pc' = "captured" /\ UNCHANGED failed
       \/ onDisk' \in onDisk..Len(written') /\ pc' = "none" /\ failed' = failed \cup EventsOf(p)

BareReceipt_NotClamped(venueTime, previous) ==
    IF venueTime # None THEN venueTime + 1
    ELSE IF previous # None THEN previous + 1
    ELSE Fallback

AllReplayed_OneEarly == replayed + 1 >= Len(frames)

----------------------------------------------------------------------------
Init ==
    /\ \/ origin = "session" /\ phase = "live" /\ file = <<>>
       \/ /\ origin = "fixture" /\ phase = "loading"
          /\ file \in UNION {[1..n -> FixtureLines] : n \in 0..MaxLines}
    /\ pc = "none"
    /\ written = <<Header>>
    /\ onDisk = 1
    /\ archived = {} /\ seen = {} /\ liveRows = {} /\ failed = {}
    /\ loaded = 0 /\ frames = <<>> /\ malformed = {} /\ lastReceipt = None
    /\ replayed = 0 /\ clock = Fallback /\ replayRows = {}

----------------------------------------------------------------------------
(* The live session.                                                       *)

Current == written[Len(written)].payload

(* write_raw(): the line goes to the file and is flushed before the inner  *)
(* sink sees the frame.  A flush that raises leaves any part in the file.  *)
CaptureFrame(p, t) ==
    /\ written' = Append(written, Envelope(p, t))
    /\ \/ onDisk' = Len(written') /\ pc' = "captured" /\ UNCHANGED failed
       \/ onDisk' \in onDisk..Len(written') /\ pc' = "none" /\ failed' = failed \cup EventsOf(p)

(* The payload opens with { or [ and json.loads raises: the recorder takes *)
(* it for a failed archive write and drops the frame.                      *)
RefuseFrame(p) == UNCHANGED <<written, onDisk, pc, failed>>

ReceiveFrame(p, t) ==
    /\ phase = "live"
    /\ pc = "none"
    /\ Len(written) <= MaxFrames
    /\ IF p = Broken THEN RefuseFrame(p) ELSE CaptureFrame(p, t)
    /\ UNCHANGED <<origin, phase, archived, seen, liveRows, file, loadVars, replayVars>>

ArchiveReturns ==
    /\ phase = "live"
    /\ pc = "captured"
    /\ archived' = archived \cup {Len(written)}
    /\ pc' = "archived"
    /\ UNCHANGED <<origin, phase, written, onDisk, seen, liveRows, failed, file, loadVars, replayVars>>

ArchiveRaises ==
    /\ phase = "live"
    /\ pc = "captured"
    /\ failed' = failed \cup EventsOf(Current)
    /\ pc' = "none"
    /\ UNCHANGED <<origin, phase, written, onDisk, archived, seen, liveRows, file, loadVars, replayVars>>

(* The rest of the handler: a repeated event is dropped, a new one is      *)
(* remembered and then written, and the write may raise.                   *)
HandleFrame ==
    /\ phase = "live"
    /\ pc = "archived"
    /\ Current # Fatal
    /\ LET new == EventsOf(Current) \ seen IN
       /\ seen' = seen \cup new
       /\ \/ liveRows' = liveRows \cup new /\ UNCHANGED failed
          \/ failed' = failed \cup new /\ UNCHANGED liveRows
    /\ pc' = "none"
    /\ UNCHANGED <<origin, phase, written, onDisk, archived, file, loadVars, replayVars>>

(* The run is over -- the source is exhausted, its time is up at any await,*)
(* or it raised -- and the file is closed, or the process dies anywhere,   *)
(* maybe in the middle of a line.                                          *)
FileAfterCrash ==
    {SubSeq(written, 1, onDisk)} \cup
    (IF onDisk < Len(written) \/ pc = "none" THEN {SubSeq(written, 1, onDisk) \o <<Torn>>} ELSE {})

EndSession ==
    /\ phase = "live"
    /\ file' \in {written} \cup FileAfterCrash
    /\ failed' = failed \cup (IF pc = "none" THEN {} ELSE EventsOf(Current))
    /\ phase' = "loading"
    /\ UNCHANGED <<origin, pc, written, onDisk, archived, seen, liveRows, loadVars, replayVars>>

----------------------------------------------------------------------------
(* load_session(), one line a step.                                        *)

(* The receipt time of a bare frame: from the venue's time, carried on     *)
(* from the previous bare frame, or the fallback; never before that frame. *)
BareReceipt(venueTime, previous) ==
    LET derived == IF venueTime # None THEN venueTime + 1
                   ELSE IF previous # None THEN previous + 1
                   ELSE Fallback IN
    IF previous # None /\ derived < previous THEN previous + 1 ELSE derived

NextLine == file[loaded + 1]

Loading == phase = "loading" /\ loaded < Len(file)

LoadHeader ==
    /\ Loading
    /\ NextLine.kind = "header"
    /\ IF loaded = 0
       THEN loaded' = 1 /\ UNCHANGED phase
       ELSE phase' = "unreadable" /\ UNCHANGED loaded
    /\ UNCHANGED <<origin, liveVars, file, frames, malformed, lastReceipt, replayVars>>

(* CaptureError, ValueError or OverflowError leaves load_session().        *)
LoadRaises ==
    /\ Loading
    /\ NextLine.kind = "unloadable"
    /\ phase' = "unreadable"
    /\ UNCHANGED <<origin, liveVars, file, loadVars, replayVars>>

(* Lines are numbered from 1.                                              *)
CurrentLine == loaded + 1

LoadTorn ==
    /\ Loading
    /\ NextLine.kind = "torn"
    /\ malformed' = malformed \cup {CurrentLine}
    /\ loaded' = loaded + 1
    /\ UNCHANGED <<origin, phase, liveVars, file, frames, lastReceipt, replayVars>>

LoadEnvelope ==
    /\ Loading
    /\ NextLine.kind = "frame"
    /\ frames' = Append(frames, [payload |-> NextLine.payload, at |-> NextLine.at])
    /\ loaded' = loaded + 1
    /\ UNCHANGED <<origin, phase, liveVars, file, malformed, lastReceipt, replayVars>>

LoadBare ==
    /\ Loading
    /\ NextLine.kind = "bare"
    /\ lastReceipt' = BareReceipt(NextLine.at, lastReceipt)
    /\ frames' = Append(frames, [payload |-> NextLine.payload, at |-> lastReceipt'])
    /\ loaded' = loaded + 1
    /\ UNCHANGED <<origin, phase, liveVars, file, malformed, replayVars>>

(* _anchor_leading_frames(): frames at the fallback time that open a file  *)
(* move to just before the first frame with a time of its own.             *)
Leading(fs) ==
    CHOOSE k \in 0..Len(fs) :
        /\ \A i \in 1..k : fs[i].at < Cutoff
        /\ k < Len(fs) => fs[k + 1].at >= Cutoff

Rebased(fs, k, i) == k < Len(fs) /\ i <= k

Anchored(fs) ==
    LET k == Leading(fs) IN
    [i \in 1..Len(fs) |->
        IF Rebased(fs, k, i) THEN [fs[i] EXCEPT !.at = fs[k + 1].at - (k - i + 1)]
        ELSE fs[i]]

FinishLoading ==
    /\ phase = "loading"
    /\ loaded = Len(file)
    /\ frames' = Anchored(frames)
    /\ phase' = "loaded"
    /\ UNCHANGED <<origin, liveVars, file, loaded, malformed, lastReceipt, replayVars>>

----------------------------------------------------------------------------
(* ReplayEngine.run(): the clock starts at the first frame.                *)

StartReplay ==
    /\ phase = "loaded"
    /\ IF frames = <<>>
       THEN phase' = "empty" /\ UNCHANGED clock
       ELSE phase' = "replaying" /\ clock' = frames[1].at
    /\ UNCHANGED <<origin, liveVars, file, loadVars, replayed, replayRows>>

NextFrame == frames[replayed + 1]

(* set_event_time() refuses to go back.                                    *)
MayAdvance(t) == t >= clock

(* The clock moves to the frame's receipt and the recorder handles it; its *)
(* in-memory sink never fails.                                             *)
ReplayFrame ==
    /\ phase = "replaying"
    /\ replayed < Len(frames)
    /\ IF ~MayAdvance(NextFrame.at)
       THEN phase' = "refused" /\ UNCHANGED replayVars
       ELSE /\ clock' = NextFrame.at
            /\ replayed' = replayed + 1
            /\ replayRows' = replayRows \cup EventsOf(NextFrame.payload)
            /\ phase' = IF NextFrame.payload = Fatal THEN "raised" ELSE phase
    /\ UNCHANGED <<origin, liveVars, file, loadVars>>

AllReplayed == replayed = Len(frames)

FinishReplay ==
    /\ phase = "replaying"
    /\ AllReplayed
    /\ phase' = "replayed"
    /\ UNCHANGED <<origin, liveVars, file, loadVars, replayVars>>

Next ==
    \/ \E p \in Payloads, t \in Times : ReceiveFrame(p, t)
    \/ ArchiveReturns
    \/ ArchiveRaises
    \/ HandleFrame
    \/ EndSession
    \/ LoadHeader
    \/ LoadRaises
    \/ LoadTorn
    \/ LoadEnvelope
    \/ LoadBare
    \/ FinishLoading
    \/ StartReplay
    \/ ReplayFrame
    \/ FinishReplay

Spec == Init /\ [][Next]_vars

----------------------------------------------------------------------------
(* Properties.                                                             *)

Frame == [payload : Payloads, at : Int]

TypeOK ==
    /\ origin \in {"session", "fixture"}
    /\ phase \in {"live", "loading", "unreadable", "loaded", "empty", "replaying",
                  "refused", "raised", "replayed"}
    /\ pc \in {"none", "captured", "archived"}
    /\ written \in Seq({Header} \cup {Envelope(p, t) : p \in Payloads, t \in Times})
    /\ onDisk \in 1..Len(written)
    /\ archived \subseteq 2..Len(written)
    /\ seen \subseteq Events /\ liveRows \subseteq Events
    /\ failed \subseteq Events
    /\ loaded \in 0..Len(file)
    /\ frames \in Seq(Frame)
    /\ malformed \subseteq 1..loaded
    /\ lastReceipt \in Nat \cup {None}
    /\ replayed \in 0..Len(frames)
    /\ clock \in Int
    /\ replayRows \subseteq Events

(* "A capture interrupted by a crash must still be replayable up to the    *)
(* point of the crash": however the session ended, every frame the sink    *)
(* archived is loaded from the file, in its place and with its receipt.    *)
ArchivedIsLoaded ==
    origin = "session" /\ phase \notin {"live", "loading"} =>
        \A n \in archived :
            /\ n - 1 <= Len(frames)
            /\ frames[n - 1] = [payload |-> written[n].payload, at |-> written[n].at]

(* A replay that runs to its end stores every event the session stored,    *)
(* and beyond those only events of frames the session failed to handle --  *)
(* an event whose write raised stays remembered, so the session drops its  *)
(* redelivery, and only the replay brings it back.                         *)
ReplayRestores ==
    origin = "session" /\ phase = "replayed" =>
        /\ liveRows \subseteq replayRows
        /\ replayRows \ liveRows \subseteq failed

StepsBack(lines) ==
    \E i, j \in DOMAIN lines : i < j /\ lines[i].kind = "frame" /\ lines[j].kind = "frame"
                              /\ lines[i].at > lines[j].at

Mixed(lines) ==
    \E i, j \in DOMAIN lines : lines[i].kind = "frame" /\ lines[j].kind = "bare"

(* A replay is refused only where the wall clock stepped back during the   *)
(* session, or a fixture mixes envelopes with bare frames: bare frames     *)
(* alone, in any order of venue times, always replay ("receipt times       *)
(* across a file must be non-decreasing").                                 *)
RefusedOnlyForClock ==
    phase = "refused" => StepsBack(file) \/ Mixed(file)

(* The span of a file describes its session: once one frame of a file of   *)
(* bare frames has a time of its own, none is left at the fallback.        *)
SpanIsOfSession ==
    phase = "loaded" /\ (\E i \in DOMAIN frames : frames[i].at >= Cutoff) /\ ~Mixed(file) =>
        \A i \in DOMAIN frames : frames[i].at > Cutoff - Len(frames)
=============================================================================

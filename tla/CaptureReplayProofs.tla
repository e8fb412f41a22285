------------------------- MODULE CaptureReplayProofs -------------------------
(***************************************************************************)
(* Proofs about a captured session, its file and its replay, for sessions  *)
(* of any length and fixtures of any length that the cutoff leaves room    *)
(* for (BoundsAssumption): what was archived is loaded, a replay that      *)
(* ends restores what was stored live, it is refused only for a clock that *)
(* stepped back or a mixed file, and the leading frames of a file are      *)
(* dated close to its first one with a time of its own.                    *)
(***************************************************************************)
EXTENDS CaptureReplay, SequenceTheorems, TLAPS

(* The lines of a file.                                                    *)
EnvelopeLines == {Envelope(p, t) : p \in Payloads, t \in Times}
BareLines == {Bare(p, t) : p \in Payloads, t \in Times \cup {None}}
Lines == {Header, Torn, Unloadable} \cup EnvelopeLines \cup BareLines

FrameOf(line) == [payload |-> line.payload, at |-> line.at]

(* A session writes a header and then envelopes; what has been archived is *)
(* on the disk, and the frame in hand is its last line.                    *)
SessionWritten ==
    /\ written[1] = Header
    /\ \A n \in 2..Len(written) : written[n] \in EnvelopeLines
    /\ archived \subseteq 2..onDisk
    /\ pc # "none" => onDisk = Len(written) /\ Len(written) >= 2
    /\ pc = "archived" => Len(written) \in archived

(* A stored event is that of an archived line; of every line, the one in   *)
(* hand aside, the event is stored or its frame has failed.                *)
SessionRows ==
    /\ seen \subseteq liveRows \cup failed
    /\ \A e \in liveRows : \E n \in archived : e = written[n].payload
    /\ \A n \in 2..Len(written) :
          n < Len(written) \/ pc = "none" \/ phase # "live" =>
              EventsOf(written[n].payload) \subseteq liveRows \cup failed

(* The file begins as the session wrote it, as far as that is on the disk  *)
(* at least, and only its last line may be torn.                           *)
SessionFile ==
    /\ onDisk <= Len(file)
    /\ \A n \in DOMAIN file :
          \/ n <= Len(written) /\ file[n] = written[n]
          \/ n = Len(file) /\ n > onDisk /\ file[n] = Torn

(* The frames loaded so far are those of the lines read so far, in their   *)
(* places: the header has none, and neither has a torn last line.          *)
SessionLoaded ==
    /\ phase # "unreadable"
    /\ loaded = 0 => frames = <<>>
    /\ loaded > 0 => Len(frames) = loaded - (IF file[loaded] = Torn THEN 2 ELSE 1)
    /\ \A i \in DOMAIN frames :
          i + 1 <= loaded /\ file[i + 1] \in EnvelopeLines /\ frames[i] = FrameOf(file[i + 1])

OfSession ==
    origin = "session" =>
        /\ SessionWritten
        /\ SessionRows
        /\ phase # "live" => SessionFile /\ SessionLoaded

(* What a phase has not come to yet, and what it has behind it.            *)
Phases ==
    /\ phase = "live" =>
          origin = "session" /\ file = <<>> /\ loaded = 0 /\ frames = <<>> /\ lastReceipt = None
    /\ phase \in {"live", "loading", "loaded"} => replayed = 0 /\ replayRows = {}
    /\ phase \notin {"live", "loading", "unreadable"} => loaded = Len(file)

InOrder(fs) == \A i, j \in DOMAIN fs : i <= j => fs[i].at <= fs[j].at

EnvelopesOnly(lines) == \A n \in DOMAIN lines : lines[n].kind # "bare"
BareOnly(lines) == \A n \in DOMAIN lines : lines[n].kind # "frame"

(* The frames of a file that does not mix are in order, unless the clock   *)
(* stepped back: a bare frame is never dated before the one before it, and *)
(* an envelope's frame has the time its line says.                         *)
FramesInOrder ==
    /\ EnvelopesOnly(file) /\ phase = "loading" =>
          \A i \in DOMAIN frames :
              \E n \in 1..loaded : file[n].kind = "frame" /\ frames[i].at = file[n].at
    /\ BareOnly(file) /\ phase = "loading" =>
          IF frames = <<>> THEN lastReceipt = None
          ELSE lastReceipt \in Nat /\ lastReceipt = frames[Len(frames)].at
    /\ BareOnly(file) => InOrder(frames)
    /\ EnvelopesOnly(file) /\ ~StepsBack(file) => InOrder(frames)

(* The frames that open the file at the fallback time are a prefix of it.  *)
IsLeading(fs, k) ==
    /\ k \in 0..Len(fs)
    /\ \A i \in 1..k : fs[i].at < Cutoff
    /\ k < Len(fs) => fs[k + 1].at >= Cutoff

LeadingFound == phase = "loading" => \E k \in 0..Len(frames) : IsLeading(frames, k)

(* The replay clock stands at the last frame replayed, and the rows are    *)
(* the events of the frames replayed.                                      *)
ReplayFollows ==
    /\ phase = "replaying" =>
          frames # <<>> /\ clock = frames[IF replayed = 0 THEN 1 ELSE replayed].at
    /\ phase = "replayed" => replayed = Len(frames)
    /\ \A e \in Events : e \in replayRows <=> \E i \in 1..replayed : frames[i].payload = e

IInv ==
    /\ TypeOK
    /\ file \in Seq(Lines)
    /\ Phases
    /\ OfSession
    /\ FramesInOrder
    /\ LeadingFound
    /\ SpanIsOfSession
    /\ ReplayFollows

----------------------------------------------------------------------------
(* Lines and frames.                                                       *)

LEMMA LineFacts ==
    ASSUME NEW l \in Lines
    PROVE  /\ l.kind \in {"header", "torn", "unloadable", "frame", "bare"}
           /\ l.payload \in Payloads
           /\ l.kind = "torn" <=> l = Torn
           /\ l.kind = "frame" <=> l \in EnvelopeLines
           /\ l.kind = "frame" => l.at \in Nat /\ l.at > Cutoff
           /\ l.kind = "bare" => l.at \in Nat \cup {None}
<1>1. ASSUME NEW e \in EnvelopeLines
      PROVE  e.kind = "frame" /\ e.payload \in Payloads /\ e.at \in Nat /\ e.at > Cutoff
  <2>1. PICK p \in Payloads, t \in Times : e = Envelope(p, t)
    BY DEF EnvelopeLines
  <2> QED  BY <2>1, TimesAssumption DEF Envelope
<1>2. ASSUME NEW e \in BareLines
      PROVE  e.kind = "bare" /\ e.payload \in Payloads /\ e.at \in Nat \cup {None}
  <2>1. PICK p \in Payloads, t \in Times \cup {None} : e = Bare(p, t)
    BY DEF BareLines
  <2> QED  BY <2>1, TimesAssumption DEF Bare
<1>3. Header.kind = "header" /\ Torn.kind = "torn" /\ Unloadable.kind = "unloadable"
  BY DEF Header, Torn, Unloadable
<1>4. Header.payload \in Payloads /\ Torn.payload \in Payloads /\ Unloadable.payload \in Payloads
  BY DEF Header, Torn, Unloadable, Payloads
<1> QED  BY <1>1, <1>2, <1>3, <1>4 DEF Lines

(* The lines of a committed fixture are lines.                             *)
LEMMA FixtureLinesAreLines == FixtureLines \subseteq Lines
  BY DEF FixtureLines, Lines, EnvelopeLines, BareLines, Payloads

(* The receipt of a bare frame is a time, not before that of the previous. *)
LEMMA BareReceiptFacts ==
    ASSUME NEW v \in Nat \cup {None}, NEW previous \in Nat \cup {None}
    PROVE  /\ BareReceipt(v, previous) \in Nat
           /\ previous # None => previous <= BareReceipt(v, previous)
  BY PayloadAssumption DEF PayloadAssumption, BareReceipt, Fallback

(* Each frame of a sequence has its time.                                  *)
LEMMA FrameTimes ==
    ASSUME NEW fs \in Seq(Frame)
    PROVE  \A i \in 1..Len(fs) : fs[i] \in Frame /\ fs[i].at \in Int
<1>1. \A i \in 1..Len(fs) : fs[i] \in Frame
  OBVIOUS
<1>2. \A f \in Frame : f.at \in Int
  BY DEF Frame
<1> QED  BY <1>1, <1>2

(* A frame dated anew keeps its payload.                                   *)
LEMMA Redated ==
    ASSUME NEW f \in Frame, NEW t \in Int
    PROVE  /\ [f EXCEPT !.at = t] \in Frame
           /\ [f EXCEPT !.at = t].payload = f.payload
           /\ [f EXCEPT !.at = t].at = t
  BY DEF Frame

(* A frame dated no earlier than the last one keeps them in order.         *)
LEMMA AppendInOrder ==
    ASSUME NEW fs \in Seq(Frame), NEW f \in Frame, InOrder(fs),
           \A i \in DOMAIN fs : fs[i].at <= f.at
    PROVE  InOrder(Append(fs, f))
<1>1. Len(Append(fs, f)) = Len(fs) + 1 /\ DOMAIN Append(fs, f) = 1..(Len(fs) + 1)
  OBVIOUS
<1>2. \A i \in 1..Len(fs) : Append(fs, f)[i] = fs[i]
  OBVIOUS
<1>3. Append(fs, f)[Len(fs) + 1] = f
  OBVIOUS
<1>4. \A i \in 1..Len(fs) : fs[i] \in Frame /\ fs[i].at \in Int
  BY FrameTimes
<1>5. f.at \in Int
  BY DEF Frame
<1> DEFINE gs == Append(fs, f)
<1> HIDE DEF gs
<1> SUFFICES ASSUME NEW i \in 1..(Len(fs) + 1), NEW j \in 1..(Len(fs) + 1), i <= j
             PROVE  gs[i].at <= gs[j].at
  BY <1>1 DEF InOrder, gs
<1>6. CASE j \in 1..Len(fs)
  BY <1>2, <1>6 DEF InOrder, gs
<1>7. CASE j = Len(fs) + 1 /\ i = j
  BY <1>3, <1>5, <1>7 DEF gs
<1>8. CASE j = Len(fs) + 1 /\ i \in 1..Len(fs)
  BY <1>2, <1>3, <1>8 DEF gs
<1> QED  BY <1>6, <1>7, <1>8

(* The leading frames of a longer list.                                    *)
LEMMA LeadingExtends ==
    ASSUME NEW fs \in Seq(Frame), NEW f \in Frame, NEW k \in 0..Len(fs), IsLeading(fs, k)
    PROVE  \E m \in 0..Len(Append(fs, f)) : IsLeading(Append(fs, f), m)
<1> DEFINE gs == Append(fs, f)
<1>1. Len(gs) = Len(fs) + 1 /\ gs[Len(fs) + 1] = f /\ \A i \in 1..Len(fs) : gs[i] = fs[i]
  OBVIOUS
<1>2. f.at \in Int /\ Cutoff \in Int
  BY BoundsAssumption DEF Frame
<1> HIDE DEF gs
<1>3. CASE k < Len(fs)
  <2>1. IsLeading(gs, k)
    BY <1>1, <1>3 DEF IsLeading
  <2> QED  BY <1>1, <2>1 DEF gs
<1>4. CASE k = Len(fs) /\ f.at < Cutoff
  <2>1. IsLeading(gs, k + 1)
    BY <1>1, <1>4 DEF IsLeading
  <2> QED  BY <1>1, <1>4, <2>1 DEF gs
<1>5. CASE k = Len(fs) /\ ~(f.at < Cutoff)
  <2>1. IsLeading(gs, k)
    BY <1>1, <1>2, <1>5 DEF IsLeading
  <2> QED  BY <1>1, <2>1 DEF gs
<1> QED  BY <1>3, <1>4, <1>5

(* What _anchor_leading_frames() returns: the same payloads, and the same  *)
(* times but for the leading frames.                                       *)
LEMMA AnchoredFacts ==
    ASSUME NEW fs \in Seq(Frame), NEW m \in 0..Len(fs), IsLeading(fs, m)
    PROVE  /\ IsLeading(fs, Leading(fs))
           /\ Anchored(fs) \in Seq(Frame)
           /\ Len(Anchored(fs)) = Len(fs)
           /\ \A i \in 1..Len(fs) :
                /\ Anchored(fs)[i].payload = fs[i].payload
                /\ Anchored(fs)[i].at =
                     IF Rebased(fs, Leading(fs), i)
                     THEN fs[Leading(fs) + 1].at - (Leading(fs) - i + 1)
                     ELSE fs[i].at
<1> DEFINE k == Leading(fs)
<1>1. IsLeading(fs, k)
  BY DEF IsLeading, Leading
<1> HIDE DEF k
<1>2. k \in 0..Len(fs)
  BY <1>1 DEF IsLeading
<1> DEFINE Moved(i) == IF Rebased(fs, k, i)
                       THEN [fs[i] EXCEPT !.at = fs[k + 1].at - (k - i + 1)] ELSE fs[i]
<1>3. Anchored(fs) = [i \in 1..Len(fs) |-> Moved(i)]
  BY DEF Anchored, k
<1>4. ASSUME NEW i \in 1..Len(fs)
      PROVE  /\ Moved(i) \in Frame
             /\ Moved(i).payload = fs[i].payload
             /\ Moved(i).at = IF Rebased(fs, k, i) THEN fs[k + 1].at - (k - i + 1)
                              ELSE fs[i].at
  <2>1. fs[i] \in Frame
    OBVIOUS
  <2>2. CASE Rebased(fs, k, i)
    <3>1. fs[k + 1].at \in Int
      BY <1>2, <2>2, FrameTimes DEF Rebased
    <3>2. fs[k + 1].at - (k - i + 1) \in Int
      BY <1>2, <3>1
    <3>3. Moved(i) = [fs[i] EXCEPT !.at = fs[k + 1].at - (k - i + 1)]
      BY <2>2
    <3> HIDE DEF Moved
    <3> QED  BY <2>1, <2>2, <3>2, <3>3, Redated
  <2>3. CASE ~Rebased(fs, k, i)
    BY <2>1, <2>3
  <2> QED  BY <2>2, <2>3
<1> HIDE DEF Moved
<1>5. Anchored(fs) \in [1..Len(fs) -> Frame]
  BY <1>3, <1>4
<1>6. Anchored(fs) \in Seq(Frame) /\ Len(Anchored(fs)) = Len(fs)
  BY <1>5, LenProperties
<1>7. \A i \in 1..Len(fs) : Anchored(fs)[i] = Moved(i)
  BY <1>3
<1> QED  BY <1>1, <1>4, <1>6, <1>7 DEF k

(* Frames in order are in order after the leading ones have moved.         *)
LEMMA AnchoredInOrder ==
    ASSUME NEW fs \in Seq(Frame), NEW m \in 0..Len(fs), IsLeading(fs, m), InOrder(fs)
    PROVE  InOrder(Anchored(fs))
<1> DEFINE k == Leading(fs)
           gs == Anchored(fs)
<1>1. /\ IsLeading(fs, k) /\ Len(gs) = Len(fs) /\ gs \in Seq(Frame)
      /\ \A i \in 1..Len(fs) :
            gs[i].at = IF Rebased(fs, k, i) THEN fs[k + 1].at - (k - i + 1) ELSE fs[i].at
  BY AnchoredFacts
<1> HIDE DEF k, gs
<1>2. k \in 0..Len(fs)
  BY <1>1 DEF IsLeading
<1>3. \A i \in 1..Len(fs) : fs[i] \in Frame /\ fs[i].at \in Int
  BY FrameTimes
<1> SUFFICES ASSUME NEW i \in 1..Len(fs), NEW j \in 1..Len(fs), i <= j
             PROVE  gs[i].at <= gs[j].at
  BY <1>1 DEF InOrder, gs
<1>4. fs[i].at <= fs[j].at
  BY DEF InOrder
<1>5. CASE k < Len(fs) /\ j <= k
  BY <1>1, <1>2, <1>3, <1>5 DEF Rebased
<1>6. CASE k < Len(fs) /\ i <= k /\ k < j
  <2>1. k + 1 \in 1..Len(fs) /\ k + 1 <= j
    BY <1>2, <1>6
  <2>2. fs[k + 1].at <= fs[j].at
    BY <2>1 DEF InOrder
  <2>3. gs[j].at = fs[j].at /\ gs[i].at = fs[k + 1].at - (k - i + 1)
    BY <1>1, <1>2, <1>6 DEF Rebased
  <2>4. fs[k + 1].at \in Int
    BY <1>3, <2>1
  <2> QED  BY <1>2, <1>3, <1>6, <2>2, <2>3, <2>4
<1>7. CASE ~(k < Len(fs) /\ i <= k)
  <2>1. gs[i].at = fs[i].at /\ gs[j].at = fs[j].at
    BY <1>1, <1>2, <1>7 DEF Rebased
  <2> QED  BY <1>4, <2>1
<1> QED  BY <1>2, <1>5, <1>6, <1>7

(* Frames that all have times of their own stay as they are.               *)
LEMMA AnchoredSame ==
    ASSUME NEW fs \in Seq(Frame), \A i \in DOMAIN fs : fs[i].at >= Cutoff
    PROVE  Anchored(fs) = fs
<1>1. \A i \in 1..Len(fs) : fs[i] \in Frame /\ fs[i].at \in Int /\ fs[i].at >= Cutoff
  BY FrameTimes
<1>2. IsLeading(fs, 0)
  BY <1>1, BoundsAssumption DEF IsLeading
<1>3. IsLeading(fs, Leading(fs))
  BY <1>2, AnchoredFacts
<1>4. Leading(fs) = 0
  <2> SUFFICES ASSUME Leading(fs) # 0 PROVE FALSE
    OBVIOUS
  <2>1. 1 \in 1..Leading(fs) /\ 1 \in 1..Len(fs)
    BY <1>3 DEF IsLeading
  <2>2. fs[1].at < Cutoff /\ fs[1].at \in Int
    BY <1>1, <1>3, <2>1 DEF IsLeading
  <2> QED  BY <1>1, <2>1, <2>2, BoundsAssumption
<1>5. \A i \in 1..Len(fs) : ~Rebased(fs, 0, i)
  BY DEF Rebased
<1>6. Anchored(fs) = [i \in 1..Len(fs) |-> fs[i]]
  BY <1>4, <1>5 DEF Anchored
<1> QED  BY <1>6

(* If a frame in order with the others has a time of its own, the leading  *)
(* ones are dated less than a unit each before it.                         *)
LEMMA AnchoredSpan ==
    ASSUME NEW fs \in Seq(Frame), NEW m \in 0..Len(fs), IsLeading(fs, m), InOrder(fs),
           \E i \in DOMAIN Anchored(fs) : Anchored(fs)[i].at >= Cutoff
    PROVE  \A i \in DOMAIN Anchored(fs) : Anchored(fs)[i].at > Cutoff - Len(Anchored(fs))
<1> DEFINE k == Leading(fs)
           gs == Anchored(fs)
<1>1. /\ IsLeading(fs, k) /\ Len(gs) = Len(fs) /\ gs \in Seq(Frame)
      /\ \A i \in 1..Len(fs) :
            gs[i].at = IF Rebased(fs, k, i) THEN fs[k + 1].at - (k - i + 1) ELSE fs[i].at
  BY AnchoredFacts
<1>2. PICK late \in 1..Len(fs) : gs[late].at >= Cutoff
  BY <1>1
<1> HIDE DEF k, gs
<1>3. k \in 0..Len(fs) /\ Cutoff \in Int
  BY <1>1, BoundsAssumption DEF IsLeading
<1>4. \A i \in 1..Len(fs) : fs[i] \in Frame /\ fs[i].at \in Int
  BY FrameTimes
<1>5. k < Len(fs)
  <2> SUFFICES ASSUME k = Len(fs) PROVE FALSE
    BY <1>3
  <2>1. gs[late].at = fs[late].at
    BY <1>1, <1>3 DEF Rebased
  <2>2. fs[late].at < Cutoff
    BY <1>1 DEF IsLeading
  <2> QED  BY <1>2, <1>3, <1>4, <2>1, <2>2
<1>6. k + 1 \in 1..Len(fs) /\ fs[k + 1].at >= Cutoff
  BY <1>1, <1>3, <1>5 DEF IsLeading
<1> SUFFICES ASSUME NEW i \in 1..Len(fs) PROVE gs[i].at > Cutoff - Len(fs)
  BY <1>1 DEF gs
<1>7. CASE i <= k
  <2>1. gs[i].at = fs[k + 1].at - (k - i + 1)
    BY <1>1, <1>5, <1>7 DEF Rebased
  <2> QED  BY <1>3, <1>4, <1>5, <1>6, <1>7, <2>1
<1>8. CASE k < i
  <2>1. gs[i].at = fs[i].at
    BY <1>1, <1>3, <1>8 DEF Rebased
  <2>2. fs[k + 1].at <= fs[i].at
    BY <1>3, <1>6, <1>8 DEF InOrder
  <2> QED  BY <1>3, <1>4, <1>6, <2>1, <2>2
<1> QED  BY <1>3, <1>7, <1>8

----------------------------------------------------------------------------
(* The initial states.                                                     *)

LEMMA InitIInv == Init => IInv
<1> SUFFICES ASSUME Init PROVE IInv
  OBVIOUS
<1>1. file \in Seq(Lines)
  <2>1. CASE file = <<>>
    BY <2>1
  <2>2. ASSUME NEW n \in 0..MaxLines, file \in [1..n -> FixtureLines]
        PROVE  file \in Seq(Lines)
    <3>1. n \in Nat
      BY BoundsAssumption
    <3>2. file \in [1..n -> Lines]
      BY <2>2, FixtureLinesAreLines
    <3> QED  BY <3>1, <3>2
  <2> QED  BY <2>1, <2>2 DEF Init
<1>2. Len(file) \in Nat /\ 0 \in 0..Len(file)
  BY <1>1
<1>3. written \in Seq({Header} \cup {Envelope(p, t) : p \in Payloads, t \in Times})
  BY DEF Init
<1>4. Len(written) = 1 /\ written[1] = Header
  BY DEF Init
<1>5. frames \in Seq(Frame) /\ Len(frames) = 0
  BY DEF Init
<1>6. TypeOK
  BY <1>2, <1>3, <1>4, <1>5 DEF Init, TypeOK, Fallback
<1>7. Phases
  BY DEF Init, Phases
<1>8. OfSession
  BY <1>4, <1>5 DEF Init, OfSession, SessionWritten, SessionRows
<1>9. FramesInOrder
  BY <1>5 DEF Init, FramesInOrder, InOrder
<1>10. LeadingFound
  BY <1>5 DEF Init, LeadingFound, IsLeading
<1>11. SpanIsOfSession
  BY DEF Init, SpanIsOfSession
<1>12. ReplayFollows
  BY DEF Init, ReplayFollows
<1> QED  BY <1>1, <1>6, <1>7, <1>8, <1>9, <1>10, <1>11, <1>12 DEF IInv

----------------------------------------------------------------------------
(* The live session.                                                       *)

(* What a live step leaves alone keeps its part of the invariant.          *)
LEMMA LiveKeeps ==
    ASSUME IInv, phase = "live",
           UNCHANGED <<origin, phase, file, loadVars, replayVars>>
    PROVE  /\ (file \in Seq(Lines))' /\ Phases' /\ FramesInOrder' /\ LeadingFound'
           /\ SpanIsOfSession' /\ ReplayFollows'
<1>1. (file \in Seq(Lines))' /\ Phases'
  BY DEF IInv, Phases, loadVars, replayVars
<1>2. FramesInOrder'
  BY DEF IInv, Phases, FramesInOrder, InOrder, loadVars
<1>3. LeadingFound' /\ SpanIsOfSession'
  BY DEF LeadingFound, SpanIsOfSession
<1>4. ReplayFollows'
  BY DEF IInv, ReplayFollows, loadVars, replayVars
<1> QED  BY <1>1, <1>2, <1>3, <1>4

(* Receiving and capturing a frame preserves the invariant.                *)
LEMMA ReceiveFrameStep ==
    ASSUME IInv, NEW p \in Payloads, NEW t \in Times, ReceiveFrame(p, t)
    PROVE  IInv'
<1>1. phase = "live" /\ pc = "none" /\ origin = "session"
  BY DEF ReceiveFrame, IInv, Phases
<1>2. /\ (file \in Seq(Lines))' /\ Phases' /\ FramesInOrder' /\ LeadingFound'
      /\ SpanIsOfSession' /\ ReplayFollows'
  BY <1>1, LiveKeeps DEF ReceiveFrame
<1>3. SessionWritten /\ SessionRows
  BY <1>1 DEF IInv, OfSession
<1>4. CASE p = Broken
  <2>1. TypeOK'
    BY <1>4 DEF IInv, TypeOK, ReceiveFrame, RefuseFrame, loadVars, replayVars
  <2>2. SessionWritten' /\ SessionRows'
    BY <1>1, <1>3, <1>4 DEF SessionWritten, SessionRows, ReceiveFrame, RefuseFrame
  <2>3. OfSession'
    BY <1>1, <2>2 DEF OfSession, ReceiveFrame
  <2> QED  BY <1>2, <2>1, <2>3 DEF IInv
<1>5. CASE p # Broken
  <2>1. CaptureFrame(p, t)
    BY <1>5 DEF ReceiveFrame
  <2>2. Envelope(p, t) \in EnvelopeLines /\ Envelope(p, t).payload = p
    BY DEF EnvelopeLines, Envelope
  <2>3. written \in Seq({Header} \cup EnvelopeLines) /\ Len(written) \in Nat \ {0}
        /\ onDisk \in 1..Len(written)
    BY DEF IInv, TypeOK, EnvelopeLines
  <2>4. /\ written' \in Seq({Header} \cup EnvelopeLines)
        /\ Len(written') = Len(written) + 1
        /\ \A n \in 1..Len(written) : written'[n] = written[n]
        /\ written'[Len(written) + 1] = Envelope(p, t)
    BY <2>1, <2>2, <2>3 DEF CaptureFrame
  <2>5. /\ onDisk' \in onDisk..Len(written')
        /\ pc' = "captured" => onDisk' = Len(written')
        /\ pc' \in {"none", "captured"}
    BY <2>1, <2>3, <2>4 DEF CaptureFrame
  <2>6. /\ failed \subseteq failed' /\ failed' \subseteq failed \cup EventsOf(p)
        /\ pc' = "none" => EventsOf(p) \subseteq failed'
    BY <2>1 DEF CaptureFrame
  <2>7. UNCHANGED <<origin, phase, archived, seen, liveRows, file, loadVars, replayVars>>
    BY DEF ReceiveFrame
  <2>8. EventsOf(p) \subseteq Events
    BY DEF EventsOf
  <2>9. TypeOK'
    <3>1. archived' \subseteq 2..Len(written')
      BY <2>3, <2>4, <2>7 DEF IInv, TypeOK
    <3>2. onDisk' \in 1..Len(written')
      BY <2>3, <2>4, <2>5
    <3> QED
      BY <2>4, <2>5, <2>6, <2>7, <2>8, <3>1, <3>2
      DEF IInv, TypeOK, EnvelopeLines, loadVars, replayVars
  <2>10. SessionWritten'
    <3>1. \A n \in 2..Len(written') : written'[n] \in EnvelopeLines
      BY <1>3, <2>2, <2>3, <2>4 DEF SessionWritten
    <3>2. archived' \subseteq 2..onDisk'
      BY <1>3, <2>3, <2>5, <2>7 DEF SessionWritten
    <3> QED
      BY <1>3, <2>3, <2>4, <2>5, <3>1, <3>2 DEF SessionWritten
  <2>11. SessionRows'
    <3>1. \A e \in liveRows' : \E n \in archived' : e = written'[n].payload
      BY <1>3, <2>3, <2>4, <2>7 DEF SessionRows, IInv, TypeOK
    <3>2. ASSUME NEW n \in 2..Len(written'), n < Len(written') \/ pc' = "none"
          PROVE  EventsOf(written'[n].payload) \subseteq liveRows' \cup failed'
      <4>1. CASE n \in 2..Len(written)
        BY <1>1, <1>3, <2>4, <2>6, <2>7, <4>1 DEF SessionRows
      <4>2. CASE n = Len(written) + 1
        BY <2>2, <2>3, <2>4, <2>6, <3>2, <4>2
      <4> QED  BY <2>3, <2>4, <4>1, <4>2
    <3> QED  BY <1>1, <1>3, <2>6, <2>7, <3>1, <3>2 DEF SessionRows
  <2>12. OfSession'
    BY <1>1, <2>7, <2>10, <2>11 DEF OfSession
  <2> QED  BY <1>2, <2>9, <2>12 DEF IInv
<1> QED  BY <1>4, <1>5

(* Archiving the frame captured preserves the invariant.                   *)
LEMMA ArchiveStep ==
    ASSUME IInv, ArchiveReturns \/ ArchiveRaises
    PROVE  IInv'
<1>1. /\ phase = "live" /\ pc = "captured" /\ origin = "session"
      /\ UNCHANGED <<origin, phase, written, onDisk, seen, liveRows, file, loadVars, replayVars>>
  BY DEF ArchiveReturns, ArchiveRaises, IInv, Phases
<1>2. /\ (file \in Seq(Lines))' /\ Phases' /\ FramesInOrder' /\ LeadingFound'
      /\ SpanIsOfSession' /\ ReplayFollows'
  BY <1>1, LiveKeeps
<1>3. SessionWritten /\ SessionRows /\ onDisk = Len(written) /\ Len(written) >= 2
  BY <1>1 DEF IInv, OfSession, SessionWritten
<1>4. Len(written) \in Nat /\ Len(written) \in 2..Len(written)
  BY <1>3 DEF IInv, TypeOK
<1>5. CASE ArchiveReturns
  <2>1. TypeOK'
    <3>1. archived' \subseteq 2..Len(written)
      BY <1>3, <1>4, <1>5 DEF SessionWritten, ArchiveReturns
    <3>2. pc' = "archived" /\ failed' = failed
      BY <1>5 DEF ArchiveReturns
    <3> QED  BY <1>1, <3>1, <3>2 DEF IInv, TypeOK, loadVars, replayVars
  <2>2. SessionWritten'
    BY <1>1, <1>3, <1>4, <1>5 DEF SessionWritten, ArchiveReturns
  <2>3. SessionRows'
    BY <1>1, <1>3, <1>5 DEF SessionRows, ArchiveReturns
  <2> QED  BY <1>1, <1>2, <2>1, <2>2, <2>3 DEF IInv, OfSession
<1>6. CASE ArchiveRaises
  <2>1. TypeOK'
    BY <1>1, <1>6 DEF IInv, TypeOK, ArchiveRaises, EventsOf, loadVars, replayVars
  <2>2. SessionWritten'
    BY <1>1, <1>3, <1>6 DEF SessionWritten, ArchiveRaises
  <2>3. SessionRows'
    <3>1. seen' \subseteq liveRows' \cup failed'
      BY <1>1, <1>3, <1>6 DEF SessionRows, ArchiveRaises
    <3>2. \A e \in liveRows' : \E n \in archived' : e = written'[n].payload
      BY <1>1, <1>3, <1>6 DEF SessionRows, ArchiveRaises
    <3>3. ASSUME NEW n \in 2..Len(written)
          PROVE  EventsOf(written[n].payload) \subseteq liveRows \cup failed'
      <4>1. CASE n < Len(written)
        BY <1>3, <1>6, <4>1 DEF SessionRows, ArchiveRaises
      <4>2. CASE n = Len(written)
        BY <1>6, <4>2 DEF Current, ArchiveRaises
      <4> QED  BY <1>4, <4>1, <4>2
    <3> QED  BY <1>1, <3>1, <3>2, <3>3 DEF SessionRows
  <2> QED  BY <1>1, <1>2, <2>1, <2>2, <2>3 DEF IInv, OfSession
<1> QED  BY <1>5, <1>6

(* Handling the frame after it is archived preserves the invariant.        *)
LEMMA HandleFrameStep ==
    ASSUME IInv, HandleFrame
    PROVE  IInv'
<1>1. /\ phase = "live" /\ pc = "archived" /\ origin = "session" /\ pc' = "none"
      /\ UNCHANGED <<origin, phase, written, onDisk, archived, file, loadVars, replayVars>>
  BY DEF HandleFrame, IInv, Phases
<1>2. /\ (file \in Seq(Lines))' /\ Phases' /\ FramesInOrder' /\ LeadingFound'
      /\ SpanIsOfSession' /\ ReplayFollows'
  BY <1>1, LiveKeeps
<1>3. SessionWritten /\ SessionRows /\ Len(written) \in archived
  BY <1>1 DEF IInv, OfSession, SessionWritten
<1> DEFINE new == EventsOf(Current) \ seen
<1>4. new \subseteq Events /\ new \subseteq {Current} /\ EventsOf(Current) \subseteq seen \cup new
  BY DEF EventsOf
<1>5. /\ seen' = seen \cup new
      /\ \/ liveRows' = liveRows \cup new /\ UNCHANGED failed
         \/ failed' = failed \cup new /\ UNCHANGED liveRows
  BY DEF HandleFrame
<1> HIDE DEF new
<1>6. TypeOK'
  BY <1>1, <1>4, <1>5 DEF IInv, TypeOK, loadVars, replayVars
<1>7. SessionWritten'
  BY <1>1, <1>3 DEF SessionWritten
<1>8. SessionRows'
  <2>1. seen' \subseteq liveRows' \cup failed'
    BY <1>3, <1>5 DEF SessionRows
  <2>2. \A e \in liveRows' : \E n \in archived' : e = written'[n].payload
    BY <1>1, <1>3, <1>4, <1>5 DEF SessionRows, Current
  <2>3. ASSUME NEW n \in 2..Len(written)
        PROVE  EventsOf(written[n].payload) \subseteq liveRows' \cup failed'
    <3>1. CASE n < Len(written)
      BY <1>3, <1>5, <3>1 DEF SessionRows
    <3>2. CASE n = Len(written)
      BY <1>4, <1>5, <2>1, <3>2 DEF Current
    <3>3. Len(written) \in Nat
      BY DEF IInv, TypeOK
    <3> QED  BY <3>1, <3>2, <3>3
  <2> QED  BY <1>1, <2>1, <2>2, <2>3 DEF SessionRows
<1> QED  BY <1>1, <1>2, <1>6, <1>7, <1>8 DEF IInv, OfSession

(* Closing the session preserves the invariant.                            *)
LEMMA EndSessionStep ==
    ASSUME IInv, EndSession
    PROVE  IInv'
<1>1. /\ phase = "live" /\ phase' = "loading" /\ origin = "session"
      /\ file = <<>> /\ loaded = 0 /\ frames = <<>> /\ lastReceipt = None
      /\ replayed = 0 /\ replayRows = {}
      /\ failed' = failed \cup (IF pc = "none" THEN {} ELSE EventsOf(Current))
      /\ UNCHANGED <<origin, pc, written, onDisk, archived, seen, liveRows, loadVars, replayVars>>
  BY DEF EndSession, IInv, Phases
<1>2. SessionWritten /\ SessionRows
  BY <1>1 DEF IInv, OfSession
<1>3. /\ onDisk \in 1..Len(written) /\ Len(written) \in Nat
      /\ \A n \in 1..Len(written) : written[n] \in {Header} \cup EnvelopeLines
      /\ written \in Seq({Header} \cup EnvelopeLines)
  BY DEF IInv, TypeOK, EnvelopeLines
<1>4. written \in Seq(Lines)
  BY <1>3 DEF Lines
<1>5. \/ file' = written
      \/ file' = SubSeq(written, 1, onDisk)
      \/ file' = SubSeq(written, 1, onDisk) \o <<Torn>>
  BY DEF EndSession, FileAfterCrash
<1>6. (file \in Seq(Lines))' /\ SessionFile'
  <2>1. CASE file' = written
    BY <1>1, <1>3, <1>4, <2>1 DEF SessionFile
  <2> DEFINE kept == SubSeq(written, 1, onDisk)
  <2>2. kept \in Seq(Lines) /\ Len(kept) = onDisk /\ \A n \in 1..onDisk : kept[n] = written[n]
    BY <1>3, <1>4
  <2> HIDE DEF kept
  <2>3. CASE file' = kept
    BY <1>1, <1>3, <2>2, <2>3 DEF SessionFile
  <2>4. CASE file' = kept \o <<Torn>>
    <3>1. Torn \in Lines
      BY DEF Lines
    <3>2. /\ file' \in Seq(Lines) /\ Len(file') = onDisk + 1
          /\ \A n \in 1..onDisk : file'[n] = written[n]
          /\ file'[onDisk + 1] = Torn
      BY <1>3, <2>2, <2>4, <3>1
    <3> QED  BY <1>1, <1>3, <3>2 DEF SessionFile
  <2> QED  BY <1>5, <2>1, <2>3, <2>4 DEF kept
<1>7. frames' = <<>> /\ loaded' = 0 /\ lastReceipt' = None /\ Len(frames') = 0 /\ Len(file') \in Nat
  BY <1>1, <1>6 DEF loadVars
<1>8. TypeOK'
  <2>1. 0 \in 0..Len(file')
    BY <1>7
  <2>2. failed' \subseteq Events
    BY <1>1 DEF IInv, TypeOK, EventsOf
  <2> QED
    BY <1>1, <1>7, <2>1, <2>2 DEF IInv, TypeOK, loadVars, replayVars
<1>9. Phases'
  BY <1>1 DEF Phases, replayVars
<1>10. OfSession'
  <2>1. SessionWritten'
    BY <1>1, <1>2 DEF SessionWritten
  <2>2. SessionRows'
    <3>1. seen' \subseteq liveRows' \cup failed'
      BY <1>1, <1>2 DEF SessionRows
    <3>2. \A e \in liveRows' : \E n \in archived' : e = written'[n].payload
      BY <1>1, <1>2 DEF SessionRows
    <3>3. ASSUME NEW n \in 2..Len(written)
          PROVE  EventsOf(written[n].payload) \subseteq liveRows \cup failed'
      <4>1. CASE n < Len(written) \/ pc = "none"
        BY <1>1, <1>2, <4>1 DEF SessionRows
      <4>2. CASE n = Len(written) /\ pc # "none"
        BY <1>1, <4>2 DEF Current
      <4> QED  BY <1>3, <4>1, <4>2
    <3> QED  BY <1>1, <3>1, <3>2, <3>3 DEF SessionRows
  <2>3. SessionLoaded'
    BY <1>1, <1>7 DEF SessionLoaded
  <2> QED  BY <1>6, <2>1, <2>2, <2>3 DEF OfSession
<1>11. FramesInOrder'
  BY <1>7 DEF FramesInOrder, InOrder
<1>12. LeadingFound'
  BY <1>7 DEF LeadingFound, IsLeading
<1>13. SpanIsOfSession'
  BY <1>1 DEF SpanIsOfSession
<1>14. ReplayFollows'
  BY <1>1 DEF ReplayFollows, replayVars
<1> QED
  BY <1>6, <1>8, <1>9, <1>10, <1>11, <1>12, <1>13, <1>14 DEF IInv

----------------------------------------------------------------------------
(* Loading.                                                                *)

(* What the session left is as it was.                                     *)
LEMMA SessionKept ==
    ASSUME IInv, phase # "live", phase' # "live", UNCHANGED <<origin, liveVars, file>>
    PROVE  origin = "session" => SessionWritten' /\ SessionRows' /\ SessionFile'
<1> SUFFICES ASSUME origin = "session" PROVE SessionWritten' /\ SessionRows' /\ SessionFile'
  OBVIOUS
<1>1. SessionWritten /\ SessionRows /\ SessionFile
  BY DEF IInv, OfSession
<1>2. SessionWritten'
  BY <1>1 DEF SessionWritten, liveVars
<1>3. SessionRows'
  BY <1>1 DEF SessionRows, liveVars
<1>4. SessionFile'
  BY <1>1 DEF SessionFile, liveVars
<1> QED  BY <1>2, <1>3, <1>4

(* The line read next.                                                     *)
LEMMA NextLineFacts ==
    ASSUME IInv, Loading
    PROVE  /\ NextLine \in Lines /\ NextLine = file[loaded + 1]
           /\ loaded \in Nat /\ Len(file) \in Nat
           /\ loaded + 1 \in 1..Len(file)
           /\ phase = "loading" /\ replayed = 0 /\ replayRows = {}
           /\ DOMAIN file = 1..Len(file)
<1>1. loaded \in Nat /\ Len(file) \in Nat /\ loaded + 1 \in 1..Len(file) /\ file \in Seq(Lines)
  BY DEF IInv, TypeOK, Loading
<1>2. file[loaded + 1] \in Lines
  BY <1>1
<1> QED  BY <1>1, <1>2 DEF IInv, Phases, Loading, NextLine

(* In a session's file the header comes first, then envelopes, and a torn  *)
(* line last.                                                              *)
LEMMA SessionLine ==
    ASSUME IInv, Loading, origin = "session"
    PROVE  /\ NextLine.kind = "header" => loaded = 0
           /\ loaded = 0 => NextLine = Header
           /\ NextLine.kind \notin {"bare", "unloadable"}
           /\ NextLine = Torn => loaded + 1 = Len(file)
           /\ loaded > 0 => file[loaded] # Torn
<1>1. SessionWritten /\ SessionFile
  BY DEF IInv, OfSession, Loading
<1>2. /\ loaded \in Nat /\ Len(file) \in Nat /\ loaded + 1 \in 1..Len(file)
      /\ NextLine = file[loaded + 1] /\ DOMAIN file = 1..Len(file)
  BY NextLineFacts
<1>3. onDisk \in 1..Len(written) /\ Len(written) \in Nat
  BY DEF IInv, TypeOK
<1>4. \A n \in 2..Len(written) : written[n].kind = "frame"
  BY <1>1, LineFacts DEF SessionWritten, Lines
<1>5. Header.kind = "header" /\ Torn.kind = "torn" /\ Header # Torn
  BY DEF Header, Torn
<1>6. file[1] = Header
  BY <1>1, <1>2, <1>3 DEF SessionFile, SessionWritten
<1>7. ASSUME NEW n \in 2..Len(file)
      PROVE  file[n].kind = "frame" \/ (n = Len(file) /\ file[n] = Torn)
  <2>1. CASE n <= Len(written) /\ file[n] = written[n]
    BY <1>3, <1>4, <2>1
  <2>2. CASE n = Len(file) /\ n > onDisk /\ file[n] = Torn
    BY <2>2
  <2> QED  BY <1>1, <1>2, <2>1, <2>2 DEF SessionFile
<1>8. loaded > 0 => file[loaded] # Torn
  <2>1. CASE loaded = 1
    BY <1>5, <1>6, <2>1
  <2>2. CASE loaded \in 2..Len(file)
    <3>1. loaded # Len(file)
      <4>1. loaded \in Nat /\ Len(file) \in Nat /\ loaded + 1 <= Len(file)
        BY <1>2
      <4> QED  BY <4>1
    <3>2. file[loaded].kind = "frame"
      BY <1>7, <2>2, <3>1
    <3> QED  BY <1>5, <3>2
  <2> QED  BY <1>2, <2>1, <2>2
<1>9. NextLine.kind = "header" => loaded = 0
  <2> SUFFICES ASSUME loaded # 0 PROVE NextLine.kind # "header"
    OBVIOUS
  <2>1. loaded + 1 \in 2..Len(file)
    BY <1>2
  <2> QED  BY <1>2, <1>5, <1>7, <2>1
<1>10. loaded = 0 => NextLine = Header
  BY <1>2, <1>6
<1>11. NextLine.kind \notin {"bare", "unloadable"}
  <2>1. CASE loaded = 0
    BY <1>5, <1>10, <2>1
  <2>2. CASE loaded + 1 \in 2..Len(file)
    BY <1>2, <1>5, <1>7, <2>2
  <2> QED  BY <1>2, <2>1, <2>2
<1>12. NextLine = Torn => loaded + 1 = Len(file)
  <2> SUFFICES ASSUME NextLine = Torn PROVE loaded + 1 = Len(file)
    OBVIOUS
  <2>1. loaded + 1 \in 2..Len(file)
    BY <1>2, <1>5, <1>6
  <2> QED  BY <1>2, <1>5, <1>7, <2>1
<1> QED  BY <1>8, <1>9, <1>10, <1>11, <1>12

(* What remains to be shown of a step that reads a line.                   *)
LEMMA ReadingOn ==
    ASSUME IInv, Loading, UNCHANGED <<origin, phase, liveVars, file, replayVars>>,
           loaded' = loaded + 1, malformed' \subseteq malformed \cup {loaded + 1},
           frames' \in Seq(Frame), lastReceipt' \in Nat \cup {None},
           origin = "session" => SessionLoaded',
           FramesInOrder', LeadingFound'
    PROVE  IInv'
<1>1. /\ phase = "loading" /\ phase' = "loading" /\ replayed = 0 /\ replayRows = {}
      /\ loaded \in Nat /\ Len(file) \in Nat /\ loaded + 1 \in 1..Len(file)
  BY NextLineFacts
<1>2. TypeOK'
  <2>1. loaded' \in 0..Len(file') /\ 0 \in 0..Len(frames')
    BY <1>1
  <2>2. malformed' \subseteq 1..loaded'
    BY <1>1 DEF IInv, TypeOK
  <2> QED  BY <1>1, <2>1, <2>2 DEF IInv, TypeOK, liveVars, replayVars
<1>3. (file \in Seq(Lines))' /\ Phases'
  BY <1>1 DEF IInv, Phases, replayVars
<1>4. OfSession'
  BY <1>1, SessionKept DEF OfSession
<1>5. SpanIsOfSession'
  BY <1>1 DEF SpanIsOfSession
<1>6. ReplayFollows'
  BY <1>1 DEF ReplayFollows, replayVars
<1> QED  BY <1>2, <1>3, <1>4, <1>5, <1>6 DEF IInv

(* Giving a fixture up as unreadable preserves the invariant.              *)
LEMMA GivingUp ==
    ASSUME IInv, Loading, origin # "session", phase' = "unreadable",
           UNCHANGED <<origin, liveVars, file, loadVars, replayVars>>
    PROVE  IInv'
<1>1. phase = "loading" /\ replayed = 0 /\ replayRows = {}
  BY NextLineFacts
<1>2. TypeOK'
  BY DEF IInv, TypeOK, liveVars, loadVars, replayVars
<1>3. (file \in Seq(Lines))' /\ Phases'
  BY <1>1 DEF IInv, Phases, loadVars, replayVars
<1>4. OfSession'
  BY DEF OfSession
<1>5. FramesInOrder' /\ LeadingFound' /\ SpanIsOfSession'
  BY <1>1 DEF IInv, FramesInOrder, InOrder, LeadingFound, SpanIsOfSession, loadVars
<1>6. ReplayFollows'
  BY <1>1 DEF ReplayFollows, replayVars
<1> QED  BY <1>2, <1>3, <1>4, <1>5, <1>6 DEF IInv

(* Reading the header line preserves the invariant.                        *)
LEMMA LoadHeaderStep ==
    ASSUME IInv, LoadHeader
    PROVE  IInv'
<1>1. Loading /\ NextLine.kind = "header"
      /\ UNCHANGED <<origin, liveVars, file, frames, malformed, lastReceipt, replayVars>>
  BY DEF LoadHeader
<1>2. /\ phase = "loading" /\ loaded \in Nat /\ NextLine = file[loaded + 1]
      /\ replayed = 0 /\ replayRows = {}
  BY <1>1, NextLineFacts
<1>3. frames \in Seq(Frame) /\ lastReceipt \in Nat \cup {None}
  BY DEF IInv, TypeOK
<1>4. CASE loaded = 0
  <2>1. loaded' = loaded + 1 /\ UNCHANGED phase
    BY <1>4 DEF LoadHeader
  <2>2. ASSUME origin = "session" PROVE SessionLoaded'
    <3>1. SessionLoaded /\ file[1] = Header
      BY <1>1, <1>2, <1>4, <2>2, SessionLine DEF IInv, OfSession
    <3>2. Header # Torn
      BY DEF Header, Torn
    <3>3. frames = <<>> /\ Len(frames) = 0
      BY <1>4, <3>1 DEF SessionLoaded
    <3> QED  BY <1>1, <1>2, <1>4, <2>1, <3>1, <3>2, <3>3 DEF SessionLoaded
  <2>3. FramesInOrder'
    <3>1. 1..loaded \subseteq 1..loaded'
      BY <1>2, <2>1
    <3> QED  BY <1>1, <1>2, <2>1, <3>1 DEF IInv, FramesInOrder, InOrder
  <2>4. LeadingFound'
    BY <1>1, <2>1 DEF IInv, LeadingFound, IsLeading
  <2> QED  BY <1>1, <1>3, <2>1, <2>2, <2>3, <2>4, ReadingOn
<1>5. CASE loaded # 0
  <2>1. phase' = "unreadable" /\ UNCHANGED loaded
    BY <1>5 DEF LoadHeader
  <2>2. origin # "session"
    BY <1>1, <1>5, SessionLine
  <2> QED  BY <1>1, <2>1, <2>2, GivingUp DEF loadVars
<1> QED  BY <1>4, <1>5

(* A line the loader raises on, which no session writes, ends the loading. *)
LEMMA LoadRaisesStep ==
    ASSUME IInv, LoadRaises
    PROVE  IInv'
<1>1. /\ Loading /\ NextLine.kind = "unloadable" /\ phase' = "unreadable"
      /\ UNCHANGED <<origin, liveVars, file, loadVars, replayVars>>
  BY DEF LoadRaises
<1>2. origin # "session"
  BY <1>1, SessionLine
<1> QED  BY <1>1, <1>2, GivingUp

(* Counting a torn line preserves the invariant.                           *)
LEMMA LoadTornStep ==
    ASSUME IInv, LoadTorn
    PROVE  IInv'
<1>1. /\ Loading /\ NextLine.kind = "torn" /\ loaded' = loaded + 1
      /\ malformed' = malformed \cup {loaded + 1}
      /\ UNCHANGED <<origin, phase, liveVars, file, frames, lastReceipt, replayVars>>
  BY DEF LoadTorn, CurrentLine
<1>2. phase = "loading" /\ loaded \in Nat /\ NextLine = file[loaded + 1] /\ NextLine \in Lines
  BY <1>1, NextLineFacts
<1>3. frames \in Seq(Frame) /\ lastReceipt \in Nat \cup {None}
  BY DEF IInv, TypeOK
<1>4. NextLine = Torn
  BY <1>1, <1>2, LineFacts
<1>5. ASSUME origin = "session" PROVE SessionLoaded'
  <2>1. SessionLoaded /\ loaded # 0 /\ file[loaded] # Torn
    <3>1. Header # Torn
      BY DEF Header, Torn
    <3> QED
      BY <1>1, <1>2, <1>4, <1>5, <3>1, SessionLine DEF IInv, OfSession
  <2>2. Len(frames) = loaded - 1
    BY <1>2, <2>1 DEF SessionLoaded
  <2>3. file'[loaded'] = Torn /\ loaded' > 0 /\ Len(frames') = loaded' - 2
    BY <1>1, <1>2, <1>4, <2>2
  <2>4. DOMAIN frames = 1..Len(frames) /\ Len(frames) \in Nat
    BY <1>3
  <2>5. \A i \in DOMAIN frames :
           i + 1 <= loaded' /\ file[i + 1] \in EnvelopeLines /\ frames[i] = FrameOf(file[i + 1])
    BY <1>1, <1>2, <2>1, <2>2, <2>4 DEF SessionLoaded
  <2> QED  BY <1>1, <1>2, <2>1, <2>3, <2>5 DEF SessionLoaded
<1>6. FramesInOrder'
  <2>1. 1..loaded \subseteq 1..loaded'
    BY <1>1, <1>2
  <2> QED  BY <1>1, <1>2, <2>1 DEF IInv, FramesInOrder, InOrder
<1>7. LeadingFound'
  BY <1>1 DEF IInv, LeadingFound, IsLeading
<1> QED  BY <1>1, <1>3, <1>5, <1>6, <1>7, ReadingOn

(* The frame of a line joins those loaded before.                          *)
LEMMA FrameJoins ==
    ASSUME IInv, phase = "loading", NEW f \in Frame, frames' = Append(frames, f),
           UNCHANGED phase
    PROVE  /\ frames' \in Seq(Frame) /\ Len(frames') = Len(frames) + 1
           /\ Len(frames) \in Nat
           /\ DOMAIN frames = 1..Len(frames) /\ DOMAIN frames' = 1..(Len(frames) + 1)
           /\ \A i \in 1..Len(frames) : frames'[i] = frames[i]
           /\ frames'[Len(frames) + 1] = f
           /\ LeadingFound'
<1>1. frames \in Seq(Frame)
  BY DEF IInv, TypeOK
<1>2. PICK k \in 0..Len(frames) : IsLeading(frames, k)
  BY DEF IInv, LeadingFound
<1>3. \E m \in 0..Len(frames') : IsLeading(frames', m)
  BY <1>1, <1>2, LeadingExtends
<1>4. LeadingFound'
  BY <1>3 DEF LeadingFound, IsLeading
<1> QED  BY <1>1, <1>4

(* Reading an envelope line preserves the invariant.                       *)
LEMMA LoadEnvelopeStep ==
    ASSUME IInv, LoadEnvelope
    PROVE  IInv'
<1>1. /\ Loading /\ NextLine.kind = "frame" /\ loaded' = loaded + 1
      /\ frames' = Append(frames, FrameOf(NextLine))
      /\ UNCHANGED <<origin, phase, liveVars, file, malformed, lastReceipt, replayVars>>
  BY DEF LoadEnvelope, FrameOf
<1>2. /\ phase = "loading" /\ loaded \in Nat /\ NextLine = file[loaded + 1]
      /\ NextLine \in Lines /\ loaded + 1 \in DOMAIN file /\ Len(file) \in Nat
      /\ DOMAIN file = 1..Len(file)
  BY <1>1, NextLineFacts
<1>3. NextLine \in EnvelopeLines /\ NextLine # Torn /\ NextLine.at \in Nat
  BY <1>1, <1>2, LineFacts
<1> DEFINE f == FrameOf(NextLine)
<1>4. f \in Frame /\ f.at = NextLine.at
  BY <1>1, <1>2, <1>3, LineFacts DEF FrameOf, Frame
<1>5. frames' = Append(frames, f)
  BY <1>1
<1>5a. f = FrameOf(NextLine)
  OBVIOUS
<1> HIDE DEF f
<1>6. /\ frames' \in Seq(Frame) /\ Len(frames') = Len(frames) + 1 /\ Len(frames) \in Nat
      /\ DOMAIN frames = 1..Len(frames) /\ DOMAIN frames' = 1..(Len(frames) + 1)
      /\ \A i \in 1..Len(frames) : frames'[i] = frames[i]
      /\ frames'[Len(frames) + 1] = f
      /\ LeadingFound'
  BY <1>1, <1>2, <1>4, <1>5, FrameJoins
<1>7. ASSUME origin = "session" PROVE SessionLoaded'
  <2>1. SessionLoaded /\ loaded # 0 /\ file[loaded] # Torn
    <3>1. Header.kind = "header"
      BY DEF Header
    <3> QED  BY <1>1, <1>2, <1>7, <3>1, SessionLine DEF IInv, OfSession
  <2>2. Len(frames) = loaded - 1
    BY <1>2, <2>1 DEF SessionLoaded
  <2>3. file'[loaded'] # Torn /\ loaded' > 0 /\ Len(frames') = loaded' - 1 /\ loaded' # 0
    BY <1>1, <1>2, <1>3, <1>6, <2>2
  <2>4. ASSUME NEW i \in DOMAIN frames'
        PROVE  i + 1 <= loaded' /\ file[i + 1] \in EnvelopeLines /\ frames'[i] = FrameOf(file[i + 1])
    <3>1. CASE i \in 1..Len(frames)
      BY <1>1, <1>2, <1>6, <2>1, <3>1 DEF SessionLoaded
    <3>2. CASE i = Len(frames) + 1
      BY <1>1, <1>2, <1>3, <1>5a, <1>6, <2>2, <3>2
    <3> QED  BY <1>6, <3>1, <3>2
  <2> QED  BY <1>1, <1>2, <2>1, <2>3, <2>4 DEF SessionLoaded
<1>8. FramesInOrder'
  <2>1. ~BareOnly(file)
    BY <1>1, <1>2 DEF BareOnly
  <2>2. ASSUME EnvelopesOnly(file), NEW i \in DOMAIN frames'
        PROVE  \E n \in 1..loaded' : file[n].kind = "frame" /\ frames'[i].at = file[n].at
    <3>1. CASE i \in 1..Len(frames)
      <4>1. PICK n \in 1..loaded : file[n].kind = "frame" /\ frames[i].at = file[n].at
        BY <1>2, <1>6, <2>2, <3>1 DEF IInv, FramesInOrder
      <4>2. n \in 1..loaded'
        BY <1>1, <1>2
      <4> QED  BY <1>6, <3>1, <4>1, <4>2
    <3>2. CASE i = Len(frames) + 1
      <4>1. loaded + 1 \in 1..loaded'
        BY <1>1, <1>2
      <4> QED  BY <1>1, <1>2, <1>4, <1>6, <3>2, <4>1
    <3> QED  BY <1>6, <3>1, <3>2
  <2>3. ASSUME EnvelopesOnly(file), ~StepsBack(file) PROVE InOrder(frames')
    <3>1. InOrder(frames) /\ frames \in Seq(Frame)
      BY <2>3 DEF IInv, FramesInOrder, TypeOK
    <3>2. ASSUME NEW i \in DOMAIN frames PROVE frames[i].at <= f.at
      <4>1. PICK n \in 1..loaded : file[n].kind = "frame" /\ frames[i].at = file[n].at
        BY <1>2, <2>3, <3>2 DEF IInv, FramesInOrder
      <4>2. n \in DOMAIN file /\ n < loaded + 1
        BY <1>2
      <4>3. ~(file[n].at > file[loaded + 1].at)
        BY <1>1, <1>2, <2>3, <4>1, <4>2 DEF StepsBack
      <4>4. file[n].at \in Int
        BY <3>1, <3>2, <4>1, <1>6, FrameTimes
      <4> QED  BY <1>2, <1>3, <1>4, <4>1, <4>3, <4>4
    <3> QED  BY <1>4, <1>5, <3>1, <3>2, AppendInOrder
  <2> QED  BY <1>1, <2>1, <2>2, <2>3 DEF FramesInOrder
<1>9. lastReceipt' \in Nat \cup {None} /\ malformed' \subseteq malformed \cup {loaded + 1}
  BY <1>1 DEF IInv, TypeOK
<1> QED  BY <1>1, <1>6, <1>7, <1>8, <1>9, ReadingOn

(* Reading a bare message preserves the invariant.                         *)
LEMMA LoadBareStep ==
    ASSUME IInv, LoadBare
    PROVE  IInv'
<1>1. /\ Loading /\ NextLine.kind = "bare" /\ loaded' = loaded + 1
      /\ lastReceipt' = BareReceipt(NextLine.at, lastReceipt)
      /\ frames' = Append(frames, [payload |-> NextLine.payload, at |-> lastReceipt'])
      /\ UNCHANGED <<origin, phase, liveVars, file, malformed, replayVars>>
  BY DEF LoadBare
<1>2. /\ phase = "loading" /\ loaded \in Nat /\ NextLine = file[loaded + 1]
      /\ NextLine \in Lines /\ loaded + 1 \in DOMAIN file
  BY <1>1, NextLineFacts
<1>3. lastReceipt \in Nat \cup {None} /\ frames \in Seq(Frame)
  BY DEF IInv, TypeOK
<1>4. lastReceipt' \in Nat /\ (lastReceipt # None => lastReceipt <= lastReceipt')
  BY <1>1, <1>2, <1>3, LineFacts, BareReceiptFacts
<1> DEFINE f == [payload |-> NextLine.payload, at |-> lastReceipt']
<1>5. f \in Frame /\ f.at = lastReceipt'
  BY <1>2, <1>4, LineFacts DEF Frame
<1>6. frames' = Append(frames, f)
  BY <1>1
<1> HIDE DEF f
<1>7. /\ frames' \in Seq(Frame) /\ Len(frames') = Len(frames) + 1 /\ Len(frames) \in Nat
      /\ DOMAIN frames = 1..Len(frames) /\ DOMAIN frames' = 1..(Len(frames) + 1)
      /\ \A i \in 1..Len(frames) : frames'[i] = frames[i]
      /\ frames'[Len(frames) + 1] = f
      /\ LeadingFound'
  BY <1>1, <1>2, <1>5, <1>6, FrameJoins
<1>8. origin # "session"
  BY <1>1, SessionLine
<1>9. FramesInOrder'
  <2>1. ~EnvelopesOnly(file)
    BY <1>1, <1>2 DEF EnvelopesOnly
  <2>2. frames' # <<>> /\ lastReceipt' \in Nat /\ lastReceipt' = frames'[Len(frames')].at
    BY <1>4, <1>5, <1>7
  <2>3. ASSUME BareOnly(file) PROVE InOrder(frames')
    <3>1. /\ InOrder(frames)
          /\ frames # <<>> => lastReceipt \in Nat /\ lastReceipt = frames[Len(frames)].at
      BY <1>2, <2>3 DEF IInv, FramesInOrder
    <3>2. ASSUME NEW i \in DOMAIN frames PROVE frames[i].at <= f.at
      <4>1. frames # <<>> /\ i \in 1..Len(frames) /\ Len(frames) \in DOMAIN frames
            /\ i <= Len(frames)
        BY <1>3, <1>7
      <4>2. frames[i].at <= frames[Len(frames)].at
        BY <3>1, <4>1 DEF InOrder
      <4>3. frames[i].at \in Int /\ frames[Len(frames)].at \in Int
        BY <1>3, <1>7, <4>1, FrameTimes
      <4>4. lastReceipt = frames[Len(frames)].at /\ lastReceipt # None
        BY <3>1, <4>1, PayloadAssumption DEF PayloadAssumption
      <4> QED  BY <1>4, <1>5, <4>2, <4>3, <4>4
    <3> QED  BY <1>3, <1>5, <1>6, <3>1, <3>2, AppendInOrder
  <2> QED  BY <1>1, <2>1, <2>2, <2>3 DEF FramesInOrder
<1>10. lastReceipt' \in Nat \cup {None} /\ malformed' \subseteq malformed \cup {loaded + 1}
  BY <1>1, <1>4
<1> QED  BY <1>1, <1>7, <1>8, <1>9, <1>10, ReadingOn

(* The frames are anchored: in order they stay in order, those with times  *)
(* of their own stay as they are, and then the span is the session's.      *)
LEMMA FinishLoadingStep ==
    ASSUME IInv, FinishLoading
    PROVE  IInv'
<1>1. /\ phase = "loading" /\ phase' = "loaded" /\ loaded = Len(file)
      /\ frames' = Anchored(frames)
      /\ UNCHANGED <<origin, liveVars, file, loaded, malformed, lastReceipt, replayVars>>
  BY DEF FinishLoading
<1>2. /\ frames \in Seq(Frame) /\ file \in Seq(Lines) /\ replayed = 0 /\ replayRows = {}
      /\ DOMAIN frames = 1..Len(frames) /\ Len(frames) \in Nat
  BY <1>1 DEF IInv, TypeOK, Phases
<1>3. PICK k \in 0..Len(frames) : IsLeading(frames, k)
  BY <1>1 DEF IInv, LeadingFound
<1>4. frames' \in Seq(Frame) /\ Len(frames') = Len(frames)
  BY <1>1, <1>2, <1>3, AnchoredFacts
<1>5. ASSUME EnvelopesOnly(file)
      PROVE  frames' = frames /\ \A i \in DOMAIN frames : frames[i].at > Cutoff
  <2>1. ASSUME NEW i \in DOMAIN frames PROVE frames[i].at > Cutoff /\ frames[i].at \in Nat
    <3>1. PICK n \in 1..loaded : file[n].kind = "frame" /\ frames[i].at = file[n].at
      BY <1>1, <1>5 DEF IInv, FramesInOrder
    <3>2. file[n] \in Lines
      BY <1>1, <1>2
    <3> QED  BY <3>1, <3>2, LineFacts
  <2>2. \A i \in DOMAIN frames : frames[i].at >= Cutoff
    BY <2>1, BoundsAssumption
  <2>3. Anchored(frames) = frames
    BY <1>2, <2>2, AnchoredSame
  <2> QED  BY <1>1, <2>1, <2>3
<1>6. TypeOK'
  <2>1. 0 \in 0..Len(frames')
    BY <1>2, <1>4
  <2> QED  BY <1>1, <1>2, <1>4, <2>1 DEF IInv, TypeOK, liveVars, replayVars
<1>7. (file \in Seq(Lines))' /\ Phases'
  BY <1>1, <1>2 DEF IInv, Phases, replayVars
<1>8. OfSession'
  <2> SUFFICES ASSUME origin = "session"
               PROVE  SessionWritten' /\ SessionRows' /\ SessionFile' /\ SessionLoaded'
    BY <1>1 DEF OfSession
  <2>1. SessionLoaded /\ SessionFile
    BY <1>1 DEF IInv, OfSession
  <2>2. ASSUME NEW i \in DOMAIN frames PROVE frames[i].at >= Cutoff
    <3>1. frames[i] = FrameOf(file[i + 1]) /\ file[i + 1] \in EnvelopeLines
      BY <2>1 DEF SessionLoaded
    <3>2. file[i + 1] \in Lines /\ file[i + 1].at > Cutoff /\ file[i + 1].at \in Nat
      BY <3>1, LineFacts DEF Lines
    <3> QED  BY <3>1, <3>2, BoundsAssumption DEF FrameOf
  <2>3. frames' = frames
    BY <1>1, <1>2, <2>2, AnchoredSame
  <2>4. SessionLoaded'
    BY <1>1, <2>1, <2>3 DEF SessionLoaded
  <2> QED  BY <1>1, <2>4, SessionKept
<1>9. FramesInOrder'
  <2>1. ASSUME BareOnly(file) \/ (EnvelopesOnly(file) /\ ~StepsBack(file))
        PROVE  InOrder(frames')
    <3>1. InOrder(frames)
      BY <2>1 DEF IInv, FramesInOrder
    <3> QED  BY <1>1, <1>2, <1>3, <3>1, AnchoredInOrder
  <2> QED  BY <1>1, <2>1 DEF FramesInOrder
<1>10. LeadingFound'
  BY <1>1 DEF LeadingFound
<1>11. SpanIsOfSession'
  <2> SUFFICES ASSUME ~Mixed(file), \E i \in DOMAIN frames' : frames'[i].at >= Cutoff
               PROVE  \A i \in DOMAIN frames' : frames'[i].at > Cutoff - Len(frames')
    BY <1>1 DEF SpanIsOfSession
  <2>1. BareOnly(file) \/ EnvelopesOnly(file)
    BY DEF Mixed, BareOnly, EnvelopesOnly
  <2>2. CASE BareOnly(file)
    <3>1. InOrder(frames)
      BY <2>2 DEF IInv, FramesInOrder
    <3> QED  BY <1>1, <1>2, <1>3, <3>1, AnchoredSpan
  <2>3. CASE EnvelopesOnly(file)
    <3>1. \A i \in 1..Len(frames) : frames[i].at > Cutoff /\ frames[i].at \in Int
      BY <1>2, <1>5, <2>3, FrameTimes
    <3> QED  BY <1>2, <1>5, <2>3, <3>1, BoundsAssumption
  <2> QED  BY <2>1, <2>2, <2>3
<1>12. ReplayFollows'
  BY <1>1, <1>2 DEF ReplayFollows, replayVars
<1> QED
  BY <1>6, <1>7, <1>8, <1>9, <1>10, <1>11, <1>12 DEF IInv

----------------------------------------------------------------------------
(* The replay.                                                             *)

(* What a step of the replay leaves alone keeps its part of the invariant. *)
LEMMA ReplayKeeps ==
    ASSUME IInv, phase \in {"loaded", "replaying"},
           phase' \in {"empty", "replaying", "refused", "raised", "replayed"},
           UNCHANGED <<origin, liveVars, file, loadVars>>
    PROVE  /\ (file \in Seq(Lines))' /\ Phases' /\ OfSession' /\ FramesInOrder'
           /\ LeadingFound' /\ SpanIsOfSession'
<1>1. (file \in Seq(Lines))' /\ Phases'
  BY DEF IInv, Phases, loadVars
<1>2. OfSession'
  <2> SUFFICES ASSUME origin = "session"
               PROVE  SessionWritten' /\ SessionRows' /\ SessionFile' /\ SessionLoaded'
    BY DEF OfSession
  <2>1. SessionLoaded
    BY DEF IInv, OfSession
  <2>2. SessionLoaded'
    BY <2>1 DEF SessionLoaded, loadVars
  <2> QED  BY <2>2, SessionKept
<1>3. FramesInOrder'
  BY DEF IInv, FramesInOrder, loadVars
<1>4. LeadingFound' /\ SpanIsOfSession'
  BY DEF LeadingFound, SpanIsOfSession
<1> QED  BY <1>1, <1>2, <1>3, <1>4

(* Starting the replay preserves the invariant.                            *)
LEMMA StartReplayStep ==
    ASSUME IInv, StartReplay
    PROVE  IInv'
<1>1. /\ phase = "loaded" /\ replayed = 0 /\ replayRows = {}
      /\ UNCHANGED <<origin, liveVars, file, loadVars, replayed, replayRows>>
      /\ \/ phase' = "empty" /\ UNCHANGED clock
         \/ frames # <<>> /\ phase' = "replaying" /\ clock' = frames[1].at
  BY DEF StartReplay, IInv, Phases
<1>2. /\ (file \in Seq(Lines))' /\ Phases' /\ OfSession' /\ FramesInOrder'
      /\ LeadingFound' /\ SpanIsOfSession'
  BY <1>1, ReplayKeeps
<1>3. frames \in Seq(Frame)
  BY DEF IInv, TypeOK
<1>4. frames # <<>> => frames[1].at \in Int
  <2> SUFFICES ASSUME frames # <<>> PROVE frames[1].at \in Int
    OBVIOUS
  <2>1. 1 \in 1..Len(frames)
    BY <1>3
  <2> QED  BY <1>3, <2>1, FrameTimes
<1>5. TypeOK'
  BY <1>1, <1>4 DEF IInv, TypeOK, liveVars, loadVars
<1>6. ReplayFollows'
  BY <1>1 DEF ReplayFollows, loadVars
<1> QED  BY <1>2, <1>5, <1>6 DEF IInv

(* Replaying one frame preserves the invariant.                            *)
LEMMA ReplayFrameStep ==
    ASSUME IInv, ReplayFrame
    PROVE  IInv'
<1>1. /\ phase = "replaying" /\ replayed < Len(frames)
      /\ phase' \in {"refused", "raised", "replaying"}
      /\ UNCHANGED <<origin, liveVars, file, loadVars>>
  BY DEF ReplayFrame
<1>2. /\ (file \in Seq(Lines))' /\ Phases' /\ OfSession' /\ FramesInOrder'
      /\ LeadingFound' /\ SpanIsOfSession'
  BY <1>1, ReplayKeeps
<1>3. /\ frames \in Seq(Frame) /\ Len(frames) \in Nat /\ replayed \in Nat
      /\ replayed + 1 \in 1..Len(frames) /\ UNCHANGED frames
  BY <1>1 DEF IInv, TypeOK, loadVars
<1>4. NextFrame.at \in Int /\ NextFrame = frames[replayed + 1]
  BY <1>3, FrameTimes DEF NextFrame
<1>5. CASE phase' = "refused" /\ UNCHANGED replayVars
  <2>1. TypeOK'
    BY <1>1, <1>5 DEF IInv, TypeOK, liveVars, loadVars, replayVars
  <2>2. ReplayFollows'
    BY <1>1, <1>3, <1>5 DEF IInv, ReplayFollows, replayVars
  <2> QED  BY <1>2, <2>1, <2>2 DEF IInv
<1>6. CASE /\ clock' = NextFrame.at /\ replayed' = replayed + 1
           /\ replayRows' = replayRows \cup EventsOf(NextFrame.payload)
           /\ phase' \in {"raised", "replaying"}
  <2>1. replayed' \in 0..Len(frames') /\ replayRows' \subseteq Events
    BY <1>3, <1>6 DEF EventsOf, IInv, TypeOK
  <2>2. TypeOK'
    BY <1>1, <1>4, <1>6, <2>1 DEF IInv, TypeOK, liveVars, loadVars
  <2>3. phase' = "replaying" =>
            frames' # <<>> /\ clock' = frames'[IF replayed' = 0 THEN 1 ELSE replayed'].at
    BY <1>1, <1>3, <1>4, <1>6 DEF IInv, ReplayFollows
  <2>4. ASSUME NEW e \in Events
        PROVE  e \in replayRows' <=> \E i \in 1..replayed' : frames'[i].payload = e
    <3>1. e \in replayRows <=> \E i \in 1..replayed : frames[i].payload = e
      BY DEF IInv, ReplayFollows
    <3>2. e \in EventsOf(NextFrame.payload) <=> frames[replayed + 1].payload = e
      BY <1>4 DEF EventsOf
    <3>3. 1..replayed' = 1..replayed \cup {replayed + 1}
      BY <1>3, <1>6
    <3> QED  BY <1>3, <1>6, <3>1, <3>2, <3>3
  <2>5. ReplayFollows'
    BY <1>6, <2>3, <2>4 DEF ReplayFollows
  <2> QED  BY <1>2, <2>2, <2>5 DEF IInv
<1> QED  BY <1>1, <1>5, <1>6 DEF ReplayFrame

(* Ending the replay preserves the invariant.                              *)
LEMMA FinishReplayStep ==
    ASSUME IInv, FinishReplay
    PROVE  IInv'
<1>1. /\ phase = "replaying" /\ phase' = "replayed" /\ replayed = Len(frames)
      /\ UNCHANGED <<origin, liveVars, file, loadVars, replayVars>>
  BY DEF FinishReplay, AllReplayed
<1>2. /\ (file \in Seq(Lines))' /\ Phases' /\ OfSession' /\ FramesInOrder'
      /\ LeadingFound' /\ SpanIsOfSession'
  BY <1>1, ReplayKeeps
<1>3. TypeOK'
  BY <1>1 DEF IInv, TypeOK, liveVars, loadVars, replayVars
<1>4. ReplayFollows'
  BY <1>1 DEF IInv, ReplayFollows, loadVars, replayVars
<1> QED  BY <1>2, <1>3, <1>4 DEF IInv

----------------------------------------------------------------------------
(* Every step preserves the invariant.                                     *)
LEMMA InductiveStep == IInv /\ [Next]_vars => IInv'
<1> SUFFICES ASSUME IInv, [Next]_vars PROVE IInv'
  OBVIOUS
<1>1. ASSUME NEW p \in Payloads, NEW t \in Times, ReceiveFrame(p, t) PROVE IInv'
  BY <1>1, ReceiveFrameStep
<1>2. CASE ArchiveReturns \/ ArchiveRaises
  BY <1>2, ArchiveStep
<1>3. CASE HandleFrame
  BY <1>3, HandleFrameStep
<1>4. CASE EndSession
  BY <1>4, EndSessionStep
<1>5. CASE LoadHeader \/ LoadRaises
  BY <1>5, LoadHeaderStep, LoadRaisesStep
<1>6. CASE LoadTorn
  BY <1>6, LoadTornStep
<1>7. CASE LoadEnvelope
  BY <1>7, LoadEnvelopeStep
<1>8. CASE LoadBare
  BY <1>8, LoadBareStep
<1>9. CASE FinishLoading
  BY <1>9, FinishLoadingStep
<1>10. CASE StartReplay
  BY <1>10, StartReplayStep
<1>11. CASE ReplayFrame
  BY <1>11, ReplayFrameStep
<1>12. CASE FinishReplay
  BY <1>12, FinishReplayStep
<1>13. CASE UNCHANGED vars
  <2>1. UNCHANGED <<origin, phase, liveVars, file, loadVars, replayVars>>
    BY <1>13 DEF vars
  <2>2. TypeOK' /\ (file \in Seq(Lines))' /\ Phases'
    BY <2>1 DEF IInv, TypeOK, Phases, liveVars, loadVars, replayVars
  <2>3. OfSession'
    BY <2>1 DEF IInv, OfSession, SessionWritten, SessionRows, SessionFile, SessionLoaded,
                liveVars, loadVars
  <2>4. FramesInOrder' /\ LeadingFound' /\ SpanIsOfSession' /\ ReplayFollows'
    BY <2>1 DEF IInv, FramesInOrder, LeadingFound, SpanIsOfSession, ReplayFollows,
                loadVars, replayVars
  <2> QED  BY <2>2, <2>3, <2>4 DEF IInv
<1> QED
  BY <1>1, <1>2, <1>3, <1>4, <1>5, <1>6, <1>7, <1>8, <1>9, <1>10, <1>11, <1>12, <1>13
  DEF Next

(* The invariant holds of every session, its file and its replay.          *)
THEOREM Invariance == Spec => []IInv
  BY InitIInv, InductiveStep, PTL DEF Spec

(* The variables keep their types.                                         *)
THEOREM TypeCorrect == Spec => []TypeOK
<1>1. IInv => TypeOK
  BY DEF IInv
<1> QED  BY <1>1, Invariance, PTL

(* A line on the disk whose frame was archived is loaded in its place.     *)
LEMMA ArchivedLoaded ==
    ASSUME IInv, origin = "session", phase \notin {"live", "loading"}, NEW n \in archived
    PROVE  /\ n - 1 \in DOMAIN frames
           /\ n - 1 <= Len(frames)
           /\ frames[n - 1] = FrameOf(written[n])
<1>1. SessionWritten /\ SessionFile /\ SessionLoaded /\ loaded = Len(file)
  BY DEF IInv, OfSession, Phases, SessionLoaded
<1>2. /\ onDisk \in 1..Len(written) /\ Len(written) \in Nat /\ Len(file) \in Nat
      /\ frames \in Seq(Frame) /\ DOMAIN frames = 1..Len(frames) /\ Len(frames) \in Nat
      /\ DOMAIN file = 1..Len(file)
  BY DEF IInv, TypeOK
<1>3. n \in 2..onDisk /\ n \in DOMAIN file
  BY <1>1, <1>2 DEF SessionWritten, SessionFile
<1>4. file[n] = written[n]
  BY <1>1, <1>2, <1>3 DEF SessionFile
<1>5. n - 1 <= Len(frames)
  <2>1. CASE file[loaded] = Torn
    <3>1. loaded # n
      <4>1. written[n] \in EnvelopeLines
        BY <1>1, <1>2, <1>3 DEF SessionWritten
      <4>2. written[n].kind = "frame"
        BY <4>1, LineFacts DEF Lines
      <4>3. Torn.kind = "torn"
        BY DEF Torn
      <4> QED  BY <1>4, <2>1, <4>2, <4>3
    <3>2. Len(frames) = loaded - 2
      BY <1>1, <1>2, <1>3, <2>1 DEF SessionLoaded
    <3> QED  BY <1>1, <1>2, <1>3, <3>1, <3>2
  <2>2. CASE file[loaded] # Torn
    <3>1. Len(frames) = loaded - 1
      BY <1>1, <1>2, <1>3, <2>2 DEF SessionLoaded
    <3> QED  BY <1>1, <1>2, <1>3, <3>1
  <2> QED  BY <2>1, <2>2
<1>6. n - 1 \in DOMAIN frames /\ (n - 1) + 1 = n
  BY <1>2, <1>3, <1>5
<1>7. frames[n - 1] = FrameOf(file[n])
  BY <1>1, <1>6 DEF SessionLoaded
<1> QED  BY <1>4, <1>5, <1>6, <1>7

(* However a session ended, every frame the sink archived is loaded from   *)
(* its file, in its place and with its receipt.                            *)
THEOREM CapturedSurvives == Spec => []ArchivedIsLoaded
<1>1. IInv => ArchivedIsLoaded
  BY ArchivedLoaded DEF ArchivedIsLoaded, FrameOf
<1> QED  BY <1>1, Invariance, PTL

(* A replay that runs to its end stores every event the session stored,    *)
(* and beyond those only events of frames the session failed to handle.    *)
THEOREM ReplaysRestore == Spec => []ReplayRestores
<1>1. IInv => ReplayRestores
  <2> SUFFICES ASSUME IInv, origin = "session", phase = "replayed"
               PROVE  liveRows \subseteq replayRows /\ replayRows \ liveRows \subseteq failed
    BY DEF ReplayRestores
  <2>1. /\ SessionWritten /\ SessionRows /\ SessionFile /\ SessionLoaded
        /\ replayed = Len(frames)
        /\ \A e \in Events : e \in replayRows <=> \E i \in 1..Len(frames) : frames[i].payload = e
    BY DEF IInv, OfSession, ReplayFollows
  <2>2. /\ DOMAIN frames = 1..Len(frames) /\ liveRows \subseteq Events /\ replayRows \subseteq Events
        /\ DOMAIN file = 1..Len(file) /\ Len(file) \in Nat /\ Len(written) \in Nat
        /\ loaded = Len(file)
    BY DEF IInv, TypeOK, Phases
  <2>3. ASSUME NEW e \in liveRows PROVE e \in replayRows
    <3>1. PICK n \in archived : e = written[n].payload
      BY <2>1 DEF SessionRows
    <3>2. n - 1 \in 1..Len(frames) /\ frames[n - 1] = FrameOf(written[n])
      BY <2>2, ArchivedLoaded
    <3>3. frames[n - 1].payload = e
      BY <3>1, <3>2 DEF FrameOf
    <3> QED  BY <2>1, <2>2, <3>2, <3>3
  <2>4. ASSUME NEW e \in replayRows PROVE e \in liveRows \cup failed
    <3>1. PICK i \in 1..Len(frames) : frames[i].payload = e
      BY <2>1, <2>2
    <3>2. /\ i + 1 <= Len(file) /\ file[i + 1] \in EnvelopeLines
          /\ frames[i] = FrameOf(file[i + 1])
      BY <2>1, <2>2 DEF SessionLoaded
    <3>3. file[i + 1] # Torn
      BY <3>2, LineFacts DEF Lines, Torn
    <3>4. i + 1 \in 2..Len(written) /\ file[i + 1] = written[i + 1]
      BY <2>1, <2>2, <3>2, <3>3 DEF SessionFile
    <3>5. EventsOf(written[i + 1].payload) \subseteq liveRows \cup failed
      BY <2>1, <3>4 DEF SessionRows
    <3>6. e \in EventsOf(written[i + 1].payload)
      BY <2>2, <3>1, <3>2, <3>4 DEF FrameOf, EventsOf
    <3> QED  BY <3>5, <3>6
  <2> QED  BY <2>3, <2>4
<1> QED  BY <1>1, Invariance, PTL

(* The replay clock refuses a frame only if the frames are out of order.   *)
LEMMA RefusedStep ==
    ASSUME IInv, RefusedOnlyForClock, [Next]_vars
    PROVE  RefusedOnlyForClock'
<1>1. CASE ReplayFrame
  <2> SUFFICES ASSUME phase' = "refused" PROVE StepsBack(file') \/ Mixed(file')
    BY DEF RefusedOnlyForClock
  <2>1. /\ phase = "replaying" /\ replayed < Len(frames) /\ ~(NextFrame.at >= clock)
        /\ file' = file
    BY <1>1 DEF ReplayFrame, MayAdvance
  <2>2. /\ clock = frames[IF replayed = 0 THEN 1 ELSE replayed].at
        /\ frames \in Seq(Frame) /\ replayed \in Nat /\ Len(frames) \in Nat
        /\ DOMAIN frames = 1..Len(frames)
    BY <2>1 DEF IInv, TypeOK, ReplayFollows
  <2>3. PICK i \in DOMAIN frames, j \in DOMAIN frames :
            i <= j /\ frames[i].at = clock /\ frames[j].at = NextFrame.at
    <3>1. CASE replayed = 0
      <4>1. 1 \in DOMAIN frames /\ replayed + 1 = 1
        BY <2>1, <2>2, <3>1
      <4> QED  BY <2>2, <3>1, <4>1 DEF NextFrame
    <3>2. CASE replayed # 0
      <4>1. replayed \in DOMAIN frames /\ replayed + 1 \in DOMAIN frames /\ replayed <= replayed + 1
        BY <2>1, <2>2, <3>2
      <4> QED  BY <2>2, <3>2, <4>1 DEF NextFrame
    <3> QED  BY <3>1, <3>2
  <2>4. frames[i].at \in Int /\ frames[j].at \in Int
    BY <2>2, FrameTimes
  <2>5. ~InOrder(frames)
    BY <2>1, <2>3, <2>4 DEF InOrder
  <2>6. ~BareOnly(file) /\ (StepsBack(file) \/ ~EnvelopesOnly(file))
    BY <2>5 DEF IInv, FramesInOrder
  <2> QED  BY <2>1, <2>6 DEF BareOnly, EnvelopesOnly, Mixed
<1>2. CASE UNCHANGED vars
  BY <1>2 DEF vars, RefusedOnlyForClock
<1>3. CASE ~ReplayFrame /\ Next
  <2>1. phase' # "refused"
    BY <1>3 DEF Next, ReceiveFrame, ArchiveReturns, ArchiveRaises, HandleFrame, EndSession,
                LoadHeader, LoadRaises, LoadTorn, LoadEnvelope, LoadBare, Loading, FinishLoading,
                StartReplay, FinishReplay
  <2> QED  BY <2>1 DEF RefusedOnlyForClock
<1> QED  BY <1>1, <1>2, <1>3

(* A replay is refused only where the wall clock stepped back during the   *)
(* session, or a fixture mixes envelopes with bare frames.                 *)
THEOREM RefusedForClockOnly == Spec => []RefusedOnlyForClock
<1>1. Init => RefusedOnlyForClock
  BY DEF Init, RefusedOnlyForClock
<1> QED  BY <1>1, RefusedStep, Invariance, PTL DEF Spec

(* Once one frame of a file that does not mix has a time of its own, no    *)
(* frame is left at the fallback.                                          *)
THEOREM SpansAreOfSessions == Spec => []SpanIsOfSession
<1>1. IInv => SpanIsOfSession
  BY DEF IInv
<1> QED  BY <1>1, Invariance, PTL
=============================================================================

-------------------------- MODULE AcceptanceProofs --------------------------
(***************************************************************************)
(* Proofs about the acceptance run, for any channels, sample sizes, frames *)
(* and failures: M2 is accepted only on a run without losses that covered  *)
(* what it had to, and failed only for a cause in the run.                 *)
(***************************************************************************)
EXTENDS Acceptance, TLAPS

(* Every write that failed is counted, every other frame is where it       *)
(* should be, and a frame is counted at most once.                         *)
LossesNoticed ==
    /\ archived \subseteq captured
    /\ \A n \in archived : Shape(n) = "event" => n \in stored
    /\ \A n \in stored : Shape(n) = "event"
    /\ persistFailures = 0 <=> archived = Positions

(* An order of writes in which every event follows its raw frame.          *)
InOrder(markers) ==
    \A j \in DOMAIN markers : markers[j].kind = "event" =>
        \E i \in 1..(j - 1) : markers[i] = [kind |-> "raw", frame |-> markers[j].frame]

(* The order the sink noted is the one it is asked about.                  *)
RawNotedFirst ==
    /\ framesWritten > 0 => \E i \in DOMAIN order : order[i].kind = "raw"
    /\ InOrder(order)

(* A verdict is what decide_m2() makes of evidence that no longer changes. *)
VerdictOfEvidence == m2 # "NOT_RUN" => pc = "ended" /\ m2 = M2State(Evidence)

IInv == TypeOK /\ LossesNoticed /\ RawNotedFirst /\ VerdictOfEvidence

----------------------------------------------------------------------------
(* The elements of a sequence one longer.                                  *)
LEMMA Appended ==
    ASSUME NEW S, NEW s \in Seq(S), NEW e \in S
    PROVE  /\ Append(s, e) \in Seq(S)
           /\ DOMAIN s = 1..Len(s) /\ Len(s) \in Nat
           /\ DOMAIN Append(s, e) = 1..(Len(s) + 1)
           /\ Append(s, e)[Len(s) + 1] = e
           /\ \A i \in 1..Len(s) : Append(s, e)[i] = s[i]
  OBVIOUS

(* The notes of an archived frame, and of one with its event; and notes    *)
(* that show the raw frame first.                                          *)
Noted(s, n) == Append(s, Marker("raw", n))
BothNoted(s, n) == Append(Noted(s, n), Marker("event", n))
RawFirst(markers) == InOrder(markers) /\ \E i \in DOMAIN markers : markers[i].kind = "raw"

(* Noting a raw frame, and then its event, keeps the order.                *)
LEMMA NotedInOrder ==
    ASSUME NEW s \in Seq(Markers), InOrder(s), NEW n \in Nat
    PROVE  RawFirst(Noted(s, n)) /\ RawFirst(BothNoted(s, n))
  <1> DEFINE noted == Noted(s, n)
             both == BothNoted(s, n)
             len == Len(s)
  <1>0. Marker("raw", n) \in Markers /\ Marker("event", n) \in Markers
    BY DEF Marker, Markers
  <1>1. /\ noted \in Seq(Markers) /\ len \in Nat
        /\ DOMAIN s = 1..len /\ DOMAIN noted = 1..(len + 1) /\ Len(noted) = len + 1
        /\ noted[len + 1] = Marker("raw", n)
        /\ \A i \in 1..len : noted[i] = s[i]
    BY <1>0, Appended DEF Noted
  <1>2. /\ DOMAIN both = 1..(len + 2)
        /\ both[len + 2] = Marker("event", n)
        /\ \A i \in 1..(len + 1) : both[i] = noted[i]
    <2>1. /\ DOMAIN both = 1..(Len(noted) + 1)
          /\ both[Len(noted) + 1] = Marker("event", n)
          /\ \A i \in 1..Len(noted) : both[i] = noted[i]
      BY <1>0, <1>1, Appended DEF BothNoted
    <2>. QED  BY <1>1, <2>1
  <1> HIDE DEF len, noted, both
  <1>3. noted[len + 1].kind = "raw" /\ noted[len + 1].frame = n
    BY <1>1 DEF Marker
  <1>4. InOrder(noted)
    <2> SUFFICES ASSUME NEW j \in 1..len, noted[j].kind = "event"
                 PROVE  \E i \in 1..(j - 1) : noted[i] = [kind |-> "raw", frame |-> noted[j].frame]
      BY <1>1, <1>3 DEF InOrder
    <2>1. PICK i \in 1..(j - 1) : s[i] = [kind |-> "raw", frame |-> s[j].frame]
      BY <1>1 DEF InOrder
    <2>. QED  BY <1>1, <2>1
  <1>5. InOrder(both)
    <2> SUFFICES ASSUME NEW j \in 1..(len + 2), both[j].kind = "event"
                 PROVE  \E i \in 1..(j - 1) : both[i] = [kind |-> "raw", frame |-> both[j].frame]
      BY <1>2 DEF InOrder
    <2>1. CASE j = len + 2
      <3>1. both[len + 1] = [kind |-> "raw", frame |-> n] /\ both[j].frame = n
        BY <1>1, <1>2, <2>1 DEF Marker
      <3>. QED  BY <1>1, <2>1, <3>1
    <2>2. CASE j \in 1..(len + 1)
      <3>1. PICK i \in 1..(j - 1) : noted[i] = [kind |-> "raw", frame |-> noted[j].frame]
        BY <1>1, <1>2, <1>4, <2>2 DEF InOrder
      <3>2. both[i] = noted[i] /\ both[j] = noted[j]
        BY <1>1, <1>2, <2>2
      <3>. QED  BY <3>1, <3>2
    <2>. QED  BY <1>1, <2>1, <2>2
  <1>. QED  BY <1>1, <1>2, <1>3, <1>4, <1>5 DEF RawFirst, noted, both

(* The numbers among the state.                                            *)
LEMMA Counts ==
    ASSUME TypeOK
    PROVE  /\ delivered \in Seq(DeliverableFrames) /\ Len(delivered) \in Nat
           /\ Positions = 1..Len(delivered)
           /\ framesWritten \in Nat /\ framesWritten <= Len(delivered)
           /\ persistFailures \in Nat /\ persistFailures <= Len(delivered)
           /\ (delivered = <<>> => framesWritten = 0)
  <1>1. delivered \in Seq(DeliverableFrames)
    BY DEF TypeOK
  <1>2. Len(delivered) \in Nat /\ Positions = 1..Len(delivered)
    BY <1>1 DEF Positions
  <1>3. framesWritten \in 0..Len(delivered) /\ persistFailures \in 0..Len(delivered)
    BY DEF TypeOK
  <1>4. delivered = <<>> => Len(delivered) = 0
    OBVIOUS
  <1>. QED  BY <1>1, <1>2, <1>3, <1>4

(* The initial state.                                                      *)
LEMMA InitIInv == Init => IInv
  <1> SUFFICES ASSUME Init PROVE IInv
    OBVIOUS
  <1>1. delivered = <<>> /\ Len(delivered) = 0 /\ Positions = {}
    BY DEF Init, Positions
  <1>2. TypeOK
    BY <1>1 DEF Init, TypeOK, States
  <1>3. LossesNoticed
    BY <1>1 DEF Init, LossesNoticed
  <1>4. RawNotedFirst
    BY DEF Init, RawNotedFirst, InOrder
  <1>5. VerdictOfEvidence
    BY DEF Init, VerdictOfEvidence
  <1>. QED  BY <1>2, <1>3, <1>4, <1>5 DEF IInv

(* One frame more, whatever becomes of it.                                 *)
LEMMA DeliverIInv ==
    ASSUME IInv, NEW f \in DeliverableFrames, Deliver(f)
    PROVE  IInv'
  <1> DEFINE n == Len(delivered')
  <1>1. /\ TypeOK /\ delivered \in Seq(DeliverableFrames) /\ Len(delivered) \in Nat
        /\ Positions = 1..Len(delivered) /\ pc = "recording" /\ m2 = "NOT_RUN" /\ m2' = m2
    BY DEF IInv, TypeOK, Positions, VerdictOfEvidence, Deliver, verdictVars
  <1>2. /\ delivered' \in Seq(DeliverableFrames)
        /\ n = Len(delivered) + 1
        /\ delivered'[n] = f
        /\ \A k \in Positions : delivered'[k] = delivered[k]
        /\ Positions' = Positions \cup {n}
        /\ n \notin Positions
    BY <1>1 DEF Deliver, Positions
  <1>3. /\ captured \subseteq Positions /\ archived \subseteq Positions /\ stored \subseteq archived
        /\ framesWritten \in 0..Len(delivered) /\ persistFailures \in 0..Len(delivered)
        /\ order \in Seq(Markers)
        /\ m1' = m1 /\ m1 \in States /\ exitCode' = exitCode /\ exitCode \in 0..2
        /\ replay' = replay /\ replay \in {"unchecked"} \cup Comparisons
        /\ execution' = execution /\ execution \in {"open", "closed"}
        /\ live' \in {"fine", "raised"} /\ pc' \in {"recording", "recorded"}
    BY <1>1 DEF IInv, TypeOK, Deliver, verdictVars
  <1>4. CASE CaptureRaises(n)
    <2>1. /\ captured' \subseteq Positions' /\ archived' = archived /\ stored' = stored
          /\ order' = order /\ framesWritten' = framesWritten
          /\ persistFailures' = persistFailures + 1 /\ captured \subseteq captured'
      BY <1>2, <1>3, <1>4 DEF CaptureRaises
    <2>2. TypeOK'
      BY <1>1, <1>2, <1>3, <2>1 DEF TypeOK, Positions
    <2>3. LossesNoticed'
      BY <1>2, <1>3, <2>1 DEF IInv, LossesNoticed, Shape
    <2>4. RawNotedFirst'
      BY <2>1 DEF IInv, RawNotedFirst
    <2>. QED  BY <1>1, <2>2, <2>3, <2>4 DEF IInv, VerdictOfEvidence
  <1>5. CASE Handle(n)
    <2>1. /\ captured' = captured \cup {n} /\ archived' = archived \cup {n}
          /\ framesWritten' = framesWritten + 1 /\ persistFailures' = persistFailures
          /\ stored' = IF f.shape = "event" THEN stored \cup {n} ELSE stored
      BY <1>2, <1>5 DEF Handle
    <2> DEFINE noted == Append(order, Marker("raw", n))
    <2>2. order' = noted \/ order' = Append(noted, Marker("event", n))
      BY <1>5 DEF Handle
    <2>3. TypeOK'
      <3>1. Marker("raw", n) \in Markers /\ Marker("event", n) \in Markers
        BY <1>2 DEF Marker, Markers
      <3>2. noted \in Seq(Markers)
        BY <1>3, <3>1, Appended
      <3>3. Append(noted, Marker("event", n)) \in Seq(Markers)
        BY <3>1, <3>2, Appended
      <3>4. order' \in Seq(Markers)
        BY <2>2, <3>2, <3>3
      <3>. QED  BY <1>1, <1>2, <1>3, <2>1, <3>4 DEF TypeOK, Positions
    <2>4. LossesNoticed'
      BY <1>2, <1>3, <2>1 DEF IInv, LossesNoticed, Shape
    <2>5. RawNotedFirst'
      <3>1. order \in Seq(Markers) /\ n \in Nat /\ InOrder(order)
        BY <1>1, <1>2, <1>3 DEF IInv, RawNotedFirst
      <3>2. RawFirst(Noted(order, n)) /\ RawFirst(BothNoted(order, n))
        BY <3>1, NotedInOrder
      <3>3. order' = Noted(order, n) \/ order' = BothNoted(order, n)
        BY <2>2 DEF Noted, BothNoted
      <3>. QED  BY <3>2, <3>3 DEF RawFirst, RawNotedFirst
    <2>. QED  BY <1>1, <2>3, <2>4, <2>5 DEF IInv, VerdictOfEvidence
  <1>. QED  BY <1>4, <1>5 DEF Deliver

(* Every step keeps the invariant.                                         *)
LEMMA NextIInv == IInv /\ [Next]_vars => IInv'
  <1> SUFFICES ASSUME IInv, [Next]_vars PROVE IInv'
    OBVIOUS
  <1> USE DEF sinkVars, verdictVars
  <1>1. CASE Start
    BY <1>1 DEF Start, IInv, TypeOK, LossesNoticed, RawNotedFirst, VerdictOfEvidence,
                Positions, Shape, States
  <1>2. ASSUME NEW f \in DeliverableFrames, Deliver(f) PROVE IInv'
    BY <1>2, DeliverIInv
  <1>3. CASE EndRecording
    BY <1>3 DEF EndRecording, IInv, TypeOK, LossesNoticed, RawNotedFirst, VerdictOfEvidence,
                Positions, Shape, States
  <1>4. CASE Analyse
    BY <1>4 DEF Analyse, IInv, TypeOK, LossesNoticed, RawNotedFirst, VerdictOfEvidence,
                Positions, Shape, States
  <1>5. ASSUME NEW storage, NEW integration, Decide(storage, integration) PROVE IInv'
    <2>1. /\ UNCHANGED <<execution, delivered, sinkVars, live, replay>>
          /\ pc' = "ended" /\ m2' = M2State(Evidence) /\ exitCode' \in 0..2
          /\ m1' \in States /\ m2' \in States
      BY <1>5 DEF Decide, M1State, M2State, States
    <2>2. Evidence' = Evidence
      BY <2>1 DEF Evidence, Deviations, MissingChannels, Shape
    <2>3. VerdictOfEvidence'
      BY <2>1, <2>2 DEF VerdictOfEvidence, M2State, Blocked, Thin
    <2>. QED  BY <2>1, <2>3 DEF IInv, TypeOK, LossesNoticed, RawNotedFirst, Positions, Shape, States
  <1>6. CASE UNCHANGED vars
    <2>1. Evidence' = Evidence
      BY <1>6 DEF vars, Evidence, Deviations, MissingChannels, Shape
    <2>2. VerdictOfEvidence'
      BY <1>6, <2>1 DEF vars, IInv, VerdictOfEvidence, M2State, Blocked, Thin
    <2>3. TypeOK' /\ LossesNoticed' /\ RawNotedFirst'
      BY <1>6 DEF vars, IInv, TypeOK, LossesNoticed, RawNotedFirst, Positions, Shape
    <2>. QED  BY <2>2, <2>3 DEF IInv
  <1>. QED  BY <1>1, <1>2, <1>3, <1>4, <1>5, <1>6 DEF Next

----------------------------------------------------------------------------
(* Every reachable state satisfies the inductive invariant.                *)
THEOREM Invariance == Spec => []IInv
  BY InitIInv, NextIInv, PTL DEF Spec

(* Every reachable state is well typed.                                    *)
THEOREM TypeCorrect == Spec => []TypeOK
  BY Invariance, PTL DEF IInv

(* What an accepted M2 says of the evidence it was decided from.           *)
LEMMA AcceptedEvidence ==
    ASSUME IInv, m2 = "LIVE_VERIFIED"
    PROVE  /\ live = "fine" /\ framesWritten >= MinimumFrames
           /\ Deviations = {} /\ stored # {} /\ persistFailures = 0 /\ MissingChannels = {}
  <1>1. M2State(Evidence) = "LIVE_VERIFIED"
    BY DEF IInv, VerdictOfEvidence
  <1>2. Evidence.frames # 0 /\ ~Blocked(Evidence) /\ ~Thin(Evidence) /\ Evidence.missing = {}
    BY <1>1 DEF M2State
  <1>3. live = "fine"
    BY <1>2 DEF Evidence, IInv, TypeOK
  <1>. QED  BY <1>2, <1>3, MinimumAssumption DEF Evidence, Blocked, Thin, IInv, TypeOK

(* M2 is accepted only if every delivered frame is captured and archived   *)
(* and every event stored, whatever failed (decide_m2).                    *)
THEOREM AcceptedWithoutLoss == Spec => []AcceptedIsLossless
  <1>1. IInv => AcceptedIsLossless
    <2> SUFFICES ASSUME IInv, m2 = "LIVE_VERIFIED"
                 PROVE  /\ live = "fine" /\ captured = Positions /\ archived = Positions
                        /\ \A n \in Positions : Shape(n) = "event" => n \in stored
      BY DEF AcceptedIsLossless
    <2>. QED  BY AcceptedEvidence DEF IInv, TypeOK, LossesNoticed
  <1>. QED  BY <1>1, Invariance, PTL

(* M2 is accepted only on a sample that covers every channel with whole    *)
(* records and yields events (decide_m2, analyse_schema).                  *)
THEOREM AcceptedOnCoverage == Spec => []AcceptedIsCovered
  <1>1. IInv => AcceptedIsCovered
    <2> SUFFICES ASSUME IInv, m2 = "LIVE_VERIFIED" PROVE AcceptedIsCovered
      BY DEF AcceptedIsCovered
    <2>1. /\ framesWritten >= MinimumFrames /\ Deviations = {} /\ stored # {}
          /\ captured = Positions /\ MissingChannels = {}
      BY AcceptedEvidence DEF IInv, TypeOK, LossesNoticed
    <2>2. Len(delivered) >= MinimumFrames
      BY <2>1, MinimumAssumption DEF IInv, TypeOK
    <2>3. \A c \in Channels : \E n \in Positions : delivered[n].channel = c
      BY <2>1 DEF MissingChannels
    <2>4. \A n \in Positions : Shape(n) # "partial"
      BY <2>1 DEF Deviations
    <2>5. \E n \in Positions : Shape(n) = "event"
      BY <2>1 DEF IInv, TypeOK, LossesNoticed
    <2>. QED  BY <2>2, <2>3, <2>4, <2>5 DEF AcceptedIsCovered
  <1>. QED  BY <1>1, Invariance, PTL

(* M2 is failed only for a loss, a missing field, a replay that differs,   *)
(* or frames without any event (decide_m2): never for its order of writes, *)
(* and never for having received nothing.                                  *)
THEOREM FailedOnlyForCause == Spec => []FailedForCause
  <1>1. IInv => FailedForCause
    <2> SUFFICES ASSUME IInv, m2 = "LIVE_VERIFICATION_FAILED" PROVE FailedForCause
      BY DEF FailedForCause
    <2>1. M2State(Evidence) = "LIVE_VERIFICATION_FAILED"
      BY DEF IInv, VerdictOfEvidence
    <2>2. Evidence.frames # 0 /\ Blocked(Evidence)
      BY <2>1 DEF M2State
    <2>3. live = "fine" /\ framesWritten > 0
      BY <2>2 DEF Evidence, IInv, TypeOK
    <2>4. RawFirstHolds(order)
      BY <2>3 DEF RawFirstHolds, IInv, RawNotedFirst, InOrder
    <2>5. Deviations # {} \/ stored = {} \/ persistFailures > 0 \/ replay = "differs"
      BY <2>2, <2>3, <2>4 DEF Blocked, Evidence
    <2>6. persistFailures > 0 => archived # Positions
      BY DEF IInv, LossesNoticed
    <2>7. Deviations # {} => \E n \in Positions : Shape(n) = "partial"
      BY DEF Deviations, IInv, TypeOK
    <2>8. delivered # <<>>
      BY <2>3 DEF IInv, TypeOK
    <2>. QED  BY <2>5, <2>6, <2>7, <2>8 DEF FailedForCause
  <1>. QED  BY <1>1, Invariance, PTL
=============================================================================

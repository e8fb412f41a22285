---------------------- MODULE DuplicateDetectorProofs ----------------------
(***************************************************************************)
(* Proofs about the duplicate detector, for any events, window, capacity   *)
(* and clock: its memory is bounded and holds no identity twice; it is the *)
(* end of what was let through, whatever was forgotten being too many      *)
(* events or too long ago.                                                 *)
(***************************************************************************)
EXTENDS DuplicateDetector, WellFoundedInduction, TLAPS

Entries == [key : {Identity(e) : e \in Events}, seenAt : Times]

(* An ordered dict of bounded size.                                        *)
Distinct(entries) ==
    \A i, j \in DOMAIN entries : entries[i].key = entries[j].key => i = j

IInv == TypeOK /\ BoundedMemory

----------------------------------------------------------------------------
(* A set of naturals has a least element.                                  *)
LEMMA Least ==
    ASSUME NEW T, T \subseteq Nat, T # {}
    PROVE  \E n \in T : \A k \in T : n <= k
  <1>1. PICK n \in T : \A k \in T : <<k, n>> \notin OpToRel(<, Nat)
    BY NatLessThanWellFounded, WFMin
  <1>2. n \in Nat /\ \A k \in T : k \in Nat /\ ~(k < n)
    BY <1>1 DEF OpToRel
  <1>3. \A k \in T : n <= k
    BY <1>2
  <1>. QED  BY <1>3

(* What is left of a sequence from one of its elements on.                 *)
LEMMA Suffix ==
    ASSUME NEW S, NEW s \in Seq(S), NEW m \in 1..Len(s)
    PROVE  LET rest == SubSeq(s, m, Len(s)) IN
           /\ rest \in Seq(S) /\ Len(rest) = Len(s) - m + 1
           /\ \A i \in 1..Len(rest) : rest[i] = s[i + m - 1]
  OBVIOUS

(* Dropping the oldest entries leaves a dict no larger (_expire).          *)
LEMMA SuffixIsDict ==
    ASSUME NEW s \in Seq(Entries), Distinct(s), NEW m \in 1..Len(s)
    PROVE  /\ SubSeq(s, m, Len(s)) \in Seq(Entries)
           /\ Len(SubSeq(s, m, Len(s))) = Len(s) - m + 1
           /\ Distinct(SubSeq(s, m, Len(s)))
  <1> DEFINE rest == SubSeq(s, m, Len(s))
  <1>1. /\ rest \in Seq(Entries) /\ Len(rest) = Len(s) - m + 1
        /\ \A i \in 1..Len(rest) : rest[i] = s[i + m - 1]
        /\ DOMAIN rest = 1..Len(rest) /\ DOMAIN s = 1..Len(s)
        /\ Len(s) \in Nat /\ m \in Nat /\ m >= 1
    BY Suffix
  <1> HIDE DEF rest
  <1>2. Distinct(rest)
    <2> SUFFICES ASSUME NEW i \in 1..Len(rest), NEW j \in 1..Len(rest),
                        rest[i].key = rest[j].key
                 PROVE  i = j
      BY <1>1 DEF Distinct
    <2>1. /\ i + m - 1 \in DOMAIN s /\ j + m - 1 \in DOMAIN s
          /\ s[i + m - 1].key = s[j + m - 1].key
      BY <1>1
    <2>2. i + m - 1 = j + m - 1
      BY <2>1 DEF Distinct
    <2>. QED  BY <1>1, <2>2
  <1>. QED  BY <1>1, <1>2 DEF rest

(* Expiry leaves a dict no larger, whatever the clock did.                 *)
LEMMA ExpiredIsDict ==
    ASSUME NEW s \in Seq(Entries), Distinct(s), NEW cutoff
    PROVE  /\ Expired(s, cutoff) \in Seq(Entries)
           /\ Len(Expired(s, cutoff)) <= Len(s)
           /\ Distinct(Expired(s, cutoff))
  <1> DEFINE fresh == Fresh(s, cutoff)
  <1>1. CASE fresh = {}
    <2>1. Expired(s, cutoff) = <<>>
      BY <1>1 DEF Expired
    <2>. QED  BY <2>1 DEF Distinct
  <1>2. CASE fresh # {}
    <2>1. fresh \subseteq 1..Len(s) /\ Len(s) \in Nat
      BY DEF Fresh
    <2>2. \E n \in fresh : \A k \in fresh : n <= k
      BY <1>2, <2>1, Least
    <2>3. Min(fresh) \in fresh
      BY <2>2 DEF Min
    <2>4. Expired(s, cutoff) = SubSeq(s, Min(fresh), Len(s))
      BY <1>2 DEF Expired
    <2>. QED  BY <2>1, <2>3, <2>4, SuffixIsDict
  <1>. QED  BY <1>1, <1>2

(* A new entry, and the oldest evicted where that is one too many.         *)
LEMMA GrownIsDict ==
    ASSUME NEW s \in Seq(Entries), Distinct(s), Len(s) <= Capacity,
           NEW entry \in Entries, ~Remembers(s, entry.key)
    PROVE  LET grown == Append(s, entry) IN
           /\ Evicted(grown) \in Seq(Entries)
           /\ Len(Evicted(grown)) <= Capacity
           /\ Distinct(Evicted(grown))
           /\ EvictedCount(grown, Evicted(grown)) \in Nat
  <1> DEFINE grown == Append(s, entry)
  <1>1. /\ grown \in Seq(Entries) /\ Len(grown) = Len(s) + 1 /\ Len(s) \in Nat
        /\ DOMAIN s = 1..Len(s) /\ DOMAIN grown = 1..(Len(s) + 1)
        /\ grown[Len(s) + 1] = entry
        /\ \A i \in 1..Len(s) : grown[i] = s[i]
    OBVIOUS
  <1>2. Capacity \in Nat
    BY CapacityAssumption
  <1>3. Distinct(grown)
    <2>1. \A i \in 1..Len(s) : grown[i].key # entry.key
      BY <1>1 DEF Remembers
    <2>. QED  BY <1>1, <2>1 DEF Distinct
  <1>4. Tail(grown) = SubSeq(grown, 2, Len(grown))
    BY <1>1
  <1> HIDE DEF grown
  <1>5. CASE Len(grown) > Capacity
    <2>1. Evicted(grown) = SubSeq(grown, 2, Len(grown))
      BY <1>4, <1>5 DEF Evicted
    <2>2. 2 \in 1..Len(grown)
      BY <1>1, <1>5, CapacityAssumption
    <2>3. /\ Evicted(grown) \in Seq(Entries) /\ Distinct(Evicted(grown))
          /\ Len(Evicted(grown)) = Len(grown) - 2 + 1
      BY <1>1, <1>3, <2>1, <2>2, SuffixIsDict
    <2>. QED  BY <1>1, <1>2, <2>3 DEF EvictedCount, grown
  <1>6. CASE ~(Len(grown) > Capacity)
    <2>1. Evicted(grown) = grown
      BY <1>6 DEF Evicted
    <2>. QED  BY <1>1, <1>2, <1>3, <1>6, <2>1 DEF EvictedCount, grown
  <1>. QED  BY <1>5, <1>6

----------------------------------------------------------------------------
(* The initial state.                                                      *)
LEMMA InitIInv == Init => IInv
  BY CapacityAssumption DEF Init, IInv, TypeOK, BoundedMemory

(* The latest receipt time.                                                *)
LEMMA Latest ==
    ASSUME NEW a \in Nat, NEW b \in Nat
    PROVE  Max({a, b}) \in Nat
  <1>1. \E x \in {a, b} : \A y \in {a, b} : x >= y
    OBVIOUS
  <1>. QED  BY <1>1 DEF Max

(* The statistics stay numbers.                                            *)
LEMMA StatsTyped ==
    ASSUME stats \in [seen : Nat, duplicates : Nat, evicted : Nat],
           NEW d \in Nat, NEW k \in Nat
    PROVE  Counted(d, k) \in [seen : Nat, duplicates : Nat, evicted : Nat]
  BY DEF Counted

(* Every step keeps the invariant.                                         *)
LEMMA NextIInv == IInv /\ [Next]_vars => IInv'
  <1> SUFFICES ASSUME IInv, [Next]_vars PROVE IInv'
    OBVIOUS
  <1>1. /\ seen \in Seq(Entries) /\ Distinct(seen) /\ Len(seen) <= Capacity
        /\ stats \in [seen : Nat, duplicates : Nat, evicted : Nat]
        /\ admitted \in Seq([event : Events, at : Times])
        /\ highest \in Nat
        /\ Len(seen) \in Nat /\ Capacity \in Nat
    BY CapacityAssumption DEF IInv, TypeOK, BoundedMemory, Distinct, Entries
  <1>2. SUFFICES /\ seen' \in Seq(Entries) /\ Distinct(seen') /\ Len(seen') <= Capacity
                 /\ stats' \in [seen : Nat, duplicates : Nat, evicted : Nat]
                 /\ admitted' \in Seq([event : Events, at : Times])
                 /\ highest' \in Nat
    BY DEF IInv, TypeOK, BoundedMemory, Distinct, Entries
  <1>3. ASSUME NEW e \in Events, NEW now \in Times, Duplicate(e, now) \/ Admit(e, now)
        PROVE  /\ seen' \in Seq(Entries) /\ Distinct(seen') /\ Len(seen') <= Capacity
               /\ stats' \in [seen : Nat, duplicates : Nat, evicted : Nat]
               /\ admitted' \in Seq([event : Events, at : Times])
               /\ highest' \in Nat
    <2> DEFINE live == Expired(seen, now - Window)
               entry == [key |-> Identity(e), seenAt |-> now]
               grown == Append(live, entry)
    <2>1. /\ live \in Seq(Entries) /\ Len(live) <= Capacity /\ Distinct(live)
      <3>1. live \in Seq(Entries) /\ Len(live) <= Len(seen) /\ Distinct(live)
        BY <1>1, ExpiredIsDict
      <3> HIDE DEF live
      <3>. QED  BY <1>1, <3>1
    <2>2. Max({highest, now}) \in Nat
      BY <1>1, TimesAssumption, Latest
    <2>3. CASE Duplicate(e, now)
      <3>1. /\ seen' = live /\ admitted' = admitted
            /\ highest' = Max({highest, now})
            /\ stats' = Counted(1, 0)
        BY <2>3 DEF Duplicate
      <3>2. stats' \in [seen : Nat, duplicates : Nat, evicted : Nat]
        BY <1>1, <3>1, StatsTyped
      <3> HIDE DEF live
      <3>. QED  BY <1>1, <2>1, <2>2, <3>1, <3>2
    <2>4. CASE Admit(e, now)
      <3>1. entry \in Entries /\ entry.key = Identity(e)
        BY DEF Entries
      <3>2. ~Remembers(live, Identity(e)) /\ seen' = Evicted(grown)
        BY <2>4 DEF Admit
      <3>3. /\ seen' \in Seq(Entries) /\ Len(seen') <= Capacity /\ Distinct(seen')
            /\ EvictedCount(grown, Evicted(grown)) \in Nat
        <4> HIDE DEF live, entry
        <4>. QED  BY <2>1, <3>1, <3>2, GrownIsDict
      <3>4. /\ stats' = Counted(0, EvictedCount(grown, Evicted(grown)))
            /\ admitted' = Append(admitted, [event |-> e, at |-> now])
            /\ highest' = Max({highest, now})
        BY <2>4 DEF Admit
      <3> HIDE DEF grown
      <3>5. stats' \in [seen : Nat, duplicates : Nat, evicted : Nat]
        BY <1>1, <3>3, <3>4, StatsTyped
      <3>6. admitted' \in Seq([event : Events, at : Times])
        BY <1>1, <3>4
      <3>7. highest' \in Nat
        BY <1>1, <2>2, <3>4
      <3>. QED  BY <3>3, <3>5, <3>6, <3>7
    <2>. QED  BY <1>3, <2>3, <2>4
  <1>4. CASE UNCHANGED vars
    BY <1>1, <1>4 DEF vars
  <1>. QED  BY <1>3, <1>4 DEF Next

----------------------------------------------------------------------------
(* Every reachable state satisfies the inductive invariant.                *)
THEOREM Invariance == Spec => []IInv
  BY InitIInv, NextIInv, PTL DEF Spec

(* Every reachable state is well typed.                                    *)
THEOREM TypeCorrect == Spec => []TypeOK
  BY Invariance, PTL DEF IInv

(* At most Capacity identities are remembered, none of them twice, for any *)
(* clock (is_duplicate, _expire).                                          *)
THEOREM MemoryBounded == Spec => []BoundedMemory
  BY Invariance, PTL DEF IInv

----------------------------------------------------------------------------
(* The memory as the end of the history: s remembers the last events of a, *)
(* when the latest receipt time is h.                                      *)

Admissions == [event : Events, at : Times]

(* The i-th entry stands for the event admitted i-th after those forgotten *)
Forgotten(s, a) == Len(a) - Len(s)

EndOf(s, a) ==
    /\ Len(s) <= Len(a)
    /\ \A i \in 1 .. Len(s) :
          /\ s[i].key = Identity(a[Forgotten(s, a) + i].event)
          /\ s[i].seenAt = a[Forgotten(s, a) + i].at

(* What is forgotten is Capacity admissions back, or past the window.      *)
ForgotDuly(s, a, h) ==
    \A j \in 1 .. Forgotten(s, a) :
        Len(a) - j >= Capacity \/ h - a[j].at > Window

(* Receipt times run back by ClockStep at most.                            *)
NearlyOrdered(s, h) ==
    /\ \A i \in 1 .. Len(s) : s[i].seenAt <= h
    /\ \A i, j \in 1 .. Len(s) : i < j => s[i].seenAt <= s[j].seenAt + ClockStep

Young(s, h) == \A i \in 1 .. Len(s) : h - s[i].seenAt <= Window + 2 * ClockStep

Recalls(s, a, h) ==
    EndOf(s, a) /\ ForgotDuly(s, a, h) /\ NearlyOrdered(s, h) /\ Young(s, h)

(* Entries and admissions are dated with natural numbers.                  *)
LEMMA TimesOf ==
    ASSUME NEW s \in Seq(Entries), NEW a \in Seq(Admissions)
    PROVE  /\ Len(s) \in Nat /\ Len(a) \in Nat
           /\ \A i \in 1 .. Len(s) : s[i].seenAt \in Nat
           /\ \A j \in 1 .. Len(a) : a[j].at \in Nat
  <1>1. \A x \in Entries : x.seenAt \in Nat
    BY TimesAssumption DEF Entries
  <1>2. \A x \in Admissions : x.at \in Nat
    BY TimesAssumption DEF Admissions
  <1>3. \A i \in 1 .. Len(s) : s[i] \in Entries
    OBVIOUS
  <1>4. \A j \in 1 .. Len(a) : a[j] \in Admissions
    OBVIOUS
  <1>5. Len(s) \in Nat /\ Len(a) \in Nat
    OBVIOUS
  <1>. QED  BY <1>1, <1>2, <1>3, <1>4, <1>5

(* _expire(): a number of oldest entries goes, each past the cutoff; the   *)
(* first that stays is not.                                                *)
LEMMA ExpiredIsSuffix ==
    ASSUME NEW s \in Seq(Entries), NEW cutoff \in Int
    PROVE  \E m \in 0 .. Len(s) :
             /\ Expired(s, cutoff) \in Seq(Entries)
             /\ Len(Expired(s, cutoff)) = Len(s) - m
             /\ \A i \in 1 .. (Len(s) - m) : Expired(s, cutoff)[i] = s[i + m]
             /\ \A i \in 1 .. m : s[i].seenAt < cutoff
             /\ m < Len(s) => s[m + 1].seenAt >= cutoff
  <1> DEFINE fresh == Fresh(s, cutoff)
  <1>0. /\ Len(s) \in Nat /\ DOMAIN s = 1 .. Len(s)
        /\ \A i \in 1 .. Len(s) : s[i].seenAt \in Nat
    <2>1. <<>> \in Seq(Admissions) /\ Len(s) \in Nat /\ DOMAIN s = 1 .. Len(s)
      OBVIOUS
    <2>2. \A i \in 1 .. Len(s) : s[i].seenAt \in Nat
      BY <2>1, TimesOf
    <2>. QED  BY <2>1, <2>2
  <1>1. CASE fresh = {}
    <2>1. Expired(s, cutoff) = <<>>
      BY <1>1 DEF Expired
    <2>2. \A i \in 1 .. Len(s) : s[i].seenAt < cutoff
      BY <1>0, <1>1 DEF Fresh
    <2> DEFINE m == Len(s)
    <2>3. /\ m \in 0 .. Len(s) /\ Len(s) - m = 0 /\ ~ (m < Len(s))
          /\ \A i \in 1 .. (Len(s) - m) : FALSE
      BY <1>0
    <2>4. Expired(s, cutoff) \in Seq(Entries) /\ Len(Expired(s, cutoff)) = 0
      <3>1. <<>> \in Seq(Entries) /\ Len(<<>>) = 0
        OBVIOUS
      <3>. QED  BY <2>1, <3>1
    <2>5. \A i \in 1 .. m : s[i].seenAt < cutoff
      BY <2>2
    <2>. HIDE DEF m
    <2>. QED  BY <2>3, <2>4, <2>5
  <1>2. CASE fresh # {}
    <2>1. fresh \subseteq 1 .. Len(s) /\ fresh \subseteq Nat
      BY <1>0 DEF Fresh
    <2>2. \E n \in fresh : \A k \in fresh : n <= k
      BY <1>2, <2>1, Least
    <2>3. Min(fresh) \in fresh /\ \A k \in fresh : Min(fresh) <= k
      BY <2>2 DEF Min
    <2>4. Expired(s, cutoff) = SubSeq(s, Min(fresh), Len(s))
      BY <1>2 DEF Expired
    <2> DEFINE m == Min(fresh) - 1
               rest == SubSeq(s, Min(fresh), Len(s))
    <2>5. Min(fresh) \in 1 .. Len(s)
      BY <2>1, <2>3
    <2>6. /\ rest \in Seq(Entries) /\ Len(rest) = Len(s) - Min(fresh) + 1
          /\ \A i \in 1 .. Len(rest) : rest[i] = s[i + Min(fresh) - 1]
      <3>. HIDE DEF fresh
      <3>. QED  BY <2>5, Suffix
    <2>7. \A i \in 1 .. m : s[i].seenAt < cutoff
      <3>1. ASSUME NEW i \in 1 .. m
            PROVE  s[i].seenAt < cutoff
        <4>1. i \in 1 .. Len(s) /\ i \notin fresh
          BY <1>0, <2>1, <2>3, <2>5
        <4>2. ~ (s[i].seenAt >= cutoff)
          BY <1>0, <4>1 DEF Fresh
        <4>. QED  BY <1>0, <4>1, <4>2
      <3>. QED  BY <3>1
    <2>8. s[m + 1].seenAt >= cutoff
      BY <1>0, <2>3, <2>5 DEF Fresh
    <2>. HIDE DEF fresh, rest
    <2>9. m \in 0 .. Len(s) /\ Len(rest) = Len(s) - m
      BY <1>0, <2>5, <2>6
    <2>10. \A i \in 1 .. (Len(s) - m) : rest[i] = s[i + m]
      BY <1>0, <2>5, <2>6, <2>9
    <2>. QED  BY <2>4, <2>6, <2>7, <2>8, <2>9, <2>10 DEF rest
  <1>. QED  BY <1>1, <1>2

(* The latest receipt time, one call later.                                *)
LEMMA LatestOf ==
    ASSUME NEW h \in Nat, NEW t \in Nat
    PROVE  /\ Max({h, t}) \in Nat /\ Max({h, t}) >= h /\ Max({h, t}) >= t
           /\ Max({h, t}) \in {h, t}
  <1>1. \E x \in {h, t} : \A y \in {h, t} : x >= y
    OBVIOUS
  <1>. QED  BY <1>1 DEF Max

(* Expiry at a receipt time at most ClockStep behind keeps the memory an   *)
(* end of the history, and makes it young.                                 *)
LEMMA ExpiryRecalls ==
    ASSUME NEW s \in Seq(Entries), NEW a \in Seq(Admissions), NEW h \in Nat,
           NEW t \in Times, t >= h - ClockStep, Recalls(s, a, h)
    PROVE  Recalls(Expired(s, t - Window), a, Max({h, t}))
  <1> DEFINE live == Expired(s, t - Window)
             h2 == Max({h, t})
  <1>0. /\ t \in Nat /\ ClockStep \in Nat /\ Window \in Nat /\ t - Window \in Int
        /\ Len(s) \in Nat /\ Len(a) \in Nat
    BY TimesAssumption, ClockStepAssumption, WindowAssumption, TimesOf
  <1>1. PICK m \in 0 .. Len(s) :
             /\ live \in Seq(Entries)
             /\ Len(live) = Len(s) - m
             /\ \A i \in 1 .. (Len(s) - m) : live[i] = s[i + m]
             /\ \A i \in 1 .. m : s[i].seenAt < t - Window
             /\ m < Len(s) => s[m + 1].seenAt >= t - Window
    <2>. HIDE DEF Entries
    <2>. QED  BY <1>0, ExpiredIsSuffix
  <1>2. h2 \in Nat /\ h2 >= h /\ h2 >= t /\ h2 <= t + ClockStep
    BY <1>0, LatestOf
  <1>3. \A i \in 1 .. Len(s) : s[i].seenAt \in Nat
    BY TimesOf
  <1>4. \A j \in 1 .. Len(a) : a[j].at \in Nat
    BY TimesOf
  <1>. HIDE DEF live, h2
  <1>5. Forgotten(s, a) \in Nat /\ Forgotten(live, a) = Forgotten(s, a) + m
    BY <1>0, <1>1 DEF Forgotten, Recalls, EndOf
  <1>6. EndOf(live, a)
    <2>1. Len(live) <= Len(a)
      BY <1>0, <1>1 DEF Recalls, EndOf
    <2>2. ASSUME NEW i \in 1 .. Len(live)
          PROVE  /\ live[i].key = Identity(a[Forgotten(live, a) + i].event)
                 /\ live[i].seenAt = a[Forgotten(live, a) + i].at
      <3>1. i + m \in 1 .. Len(s) /\ live[i] = s[i + m]
        BY <1>0, <1>1
      <3>2. Forgotten(live, a) + i = Forgotten(s, a) + (i + m)
        BY <1>0, <1>1, <1>5
      <3>. QED  BY <3>1, <3>2 DEF Recalls, EndOf
    <2>. QED  BY <2>1, <2>2 DEF EndOf
  <1>7. ForgotDuly(live, a, h2)
    <2>1. ASSUME NEW j \in 1 .. Forgotten(live, a)
          PROVE  Len(a) - j >= Capacity \/ h2 - a[j].at > Window
      <3>1. CASE j <= Forgotten(s, a)
        <4>1. j \in 1 .. Forgotten(s, a) /\ a[j].at \in Nat
          BY <1>0, <1>4, <1>5, <3>1 DEF Forgotten
        <4>2. Len(a) - j >= Capacity \/ h - a[j].at > Window
          BY <4>1 DEF Recalls, ForgotDuly
        <4>3. h - a[j].at > Window => h2 - a[j].at > Window
          BY <1>0, <1>2, <4>1
        <4>. QED  BY <4>2, <4>3
      <3>2. CASE j > Forgotten(s, a)
        <4>1. PICK i \in 1 .. m : j = Forgotten(s, a) + i
          <5>1. j - Forgotten(s, a) \in 1 .. m /\ j = Forgotten(s, a) + (j - Forgotten(s, a))
            BY <1>5, <3>2
          <5>. QED  BY <5>1
        <4>2. i \in 1 .. Len(s) /\ s[i].seenAt = a[j].at
          BY <1>0, <1>1, <4>1 DEF Recalls, EndOf
        <4>3. s[i].seenAt \in Nat /\ s[i].seenAt < t - Window
          BY <1>1, <1>3, <4>2
        <4>. QED  BY <1>0, <1>2, <4>2, <4>3
      <3>. QED  BY <1>5, <3>1, <3>2
    <2>. QED  BY <2>1 DEF ForgotDuly
  <1>8. NearlyOrdered(live, h2)
    <2>1. \A i \in 1 .. Len(live) : /\ i + m \in 1 .. Len(s)
                                    /\ live[i] = s[i + m]
                                    /\ s[i + m].seenAt <= h
      BY <1>0, <1>1 DEF Recalls, NearlyOrdered
    <2>2. \A i \in 1 .. Len(live) : live[i].seenAt <= h2
      BY <1>2, <1>3, <2>1
    <2>3. \A i, j \in 1 .. Len(live) : i < j => live[i].seenAt <= live[j].seenAt + ClockStep
      <3>1. \A i, j \in 1 .. Len(live) : i < j => i + m < j + m
        BY <1>1
      <3>. QED  BY <2>1, <3>1 DEF Recalls, NearlyOrdered
    <2>. QED  BY <2>2, <2>3 DEF NearlyOrdered
  <1>9. Young(live, h2)
    <2>1. ASSUME NEW i \in 1 .. Len(live)
          PROVE  h2 - live[i].seenAt <= Window + 2 * ClockStep
      <3>1. /\ i + m \in 1 .. Len(s) /\ live[i] = s[i + m]
            /\ m + 1 \in 1 .. Len(s) /\ s[m + 1].seenAt >= t - Window
        BY <1>0, <1>1
      <3>2. s[m + 1].seenAt <= s[i + m].seenAt + ClockStep
        <4>1. CASE i = 1
          BY <1>0, <1>3, <3>1, <4>1
        <4>2. CASE i > 1
          <5>1. m + 1 < i + m
            BY <1>0, <4>2
          <5>. QED  BY <3>1, <5>1 DEF Recalls, NearlyOrdered
        <4>. QED  BY <4>1, <4>2
      <3>3. s[i + m].seenAt \in Nat /\ s[m + 1].seenAt \in Nat
        BY <1>3, <3>1
      <3>4. \A x, y \in Nat :
              y >= t - Window /\ y <= x + ClockStep => h2 - x <= Window + 2 * ClockStep
        BY <1>0, <1>2
      <3>5. h2 - s[i + m].seenAt <= Window + 2 * ClockStep
        BY <3>1, <3>2, <3>3, <3>4
      <3>. QED  BY <3>1, <3>5
    <2>. QED  BY <2>1 DEF Young
  <1>. QED  BY <1>6, <1>7, <1>8, <1>9 DEF Recalls, live, h2

(* An event let through joins the end of the memory and of the history.    *)
LEMMA AdmissionRecalls ==
    ASSUME NEW s \in Seq(Entries), NEW a \in Seq(Admissions), NEW h \in Nat, Recalls(s, a, h),
           NEW e \in Events, NEW t \in Times, t <= h, h <= t + ClockStep
    PROVE  Recalls(Append(s, [key |-> Identity(e), seenAt |-> t]),
                   Append(a, [event |-> e, at |-> t]), h)
  <1> DEFINE entry == [key |-> Identity(e), seenAt |-> t]
             admission == [event |-> e, at |-> t]
             s2 == Append(s, entry)
             a2 == Append(a, admission)
  <1>0. /\ t \in Nat /\ ClockStep \in Nat /\ Window \in Nat
        /\ Len(s) \in Nat /\ Len(a) \in Nat
        /\ \A i \in 1 .. Len(s) : s[i].seenAt \in Nat
    BY TimesAssumption, ClockStepAssumption, WindowAssumption, TimesOf
  <1>1. /\ Len(s2) = Len(s) + 1
        /\ \A i \in 1 .. Len(s) : s2[i] = s[i]
        /\ s2[Len(s) + 1] = entry
    OBVIOUS
  <1>2. /\ Len(a2) = Len(a) + 1
        /\ \A j \in 1 .. Len(a) : a2[j] = a[j]
        /\ a2[Len(a) + 1] = admission
    OBVIOUS
  <1>3. /\ entry.key = Identity(e) /\ entry.seenAt = t
        /\ admission.event = e /\ admission.at = t
    OBVIOUS
  <1>. HIDE DEF s2, a2, entry, admission
  <1>4. Forgotten(s2, a2) = Forgotten(s, a) /\ Forgotten(s, a) \in Nat
    BY <1>0, <1>1, <1>2 DEF Forgotten, Recalls, EndOf
  <1>5. EndOf(s2, a2)
    <2>1. Len(s2) <= Len(a2)
      BY <1>0, <1>1, <1>2 DEF Recalls, EndOf
    <2>2. ASSUME NEW i \in 1 .. Len(s2)
          PROVE  /\ s2[i].key = Identity(a2[Forgotten(s2, a2) + i].event)
                 /\ s2[i].seenAt = a2[Forgotten(s2, a2) + i].at
      <3>1. CASE i \in 1 .. Len(s)
        <4>1. Forgotten(s, a) + i \in 1 .. Len(a)
          BY <1>0, <1>4, <3>1 DEF Forgotten
        <4>. QED  BY <1>1, <1>2, <1>4, <3>1, <4>1 DEF Recalls, EndOf
      <3>2. CASE i = Len(s) + 1
        <4>1. Forgotten(s, a) + i = Len(a) + 1
          BY <1>0, <3>2 DEF Forgotten
        <4>. QED  BY <1>1, <1>2, <1>3, <1>4, <3>2, <4>1
      <3>. QED  BY <1>0, <1>1, <3>1, <3>2
    <2>. QED  BY <2>1, <2>2 DEF EndOf
  <1>6. ForgotDuly(s2, a2, h)
    <2>1. ASSUME NEW j \in 1 .. Forgotten(s2, a2)
          PROVE  Len(a2) - j >= Capacity \/ h - a2[j].at > Window
      <3>1. j \in 1 .. Forgotten(s, a) /\ j \in 1 .. Len(a)
        BY <1>0, <1>4 DEF Forgotten
      <3>2. Len(a) - j >= Capacity \/ h - a[j].at > Window
        BY <3>1 DEF Recalls, ForgotDuly
      <3>3. Len(a) - j >= Capacity => Len(a2) - j >= Capacity
        BY <1>0, <1>2, <3>1, CapacityAssumption
      <3>. QED  BY <1>2, <3>1, <3>2, <3>3
    <2>. QED  BY <2>1 DEF ForgotDuly
  <1>7. NearlyOrdered(s2, h)
    <2>1. \A i \in 1 .. Len(s) : s[i].seenAt <= h
      BY DEF Recalls, NearlyOrdered
    <2>2. \A i \in 1 .. Len(s2) : s2[i].seenAt <= h
      BY <1>0, <1>1, <1>3, <2>1
    <2>3. ASSUME NEW i \in 1 .. Len(s2), NEW j \in 1 .. Len(s2), i < j
          PROVE  s2[i].seenAt <= s2[j].seenAt + ClockStep
      <3>1. CASE j \in 1 .. Len(s)
        <4>1. i \in 1 .. Len(s)
          BY <1>0, <2>3, <3>1
        <4>. QED  BY <1>1, <2>3, <3>1, <4>1 DEF Recalls, NearlyOrdered
      <3>2. CASE j = Len(s) + 1
        <4>1. i \in 1 .. Len(s)
          BY <1>0, <1>1, <2>3, <3>2
        <4>2. s[i].seenAt <= h /\ s[i].seenAt \in Nat
          BY <1>0, <2>1, <4>1
        <4>. QED  BY <1>0, <1>1, <1>3, <3>2, <4>1, <4>2
      <3>. QED  BY <1>0, <1>1, <3>1, <3>2
    <2>. QED  BY <2>2, <2>3 DEF NearlyOrdered
  <1>8. Young(s2, h)
    <2>1. ASSUME NEW i \in 1 .. Len(s2)
          PROVE  h - s2[i].seenAt <= Window + 2 * ClockStep
      <3>1. CASE i \in 1 .. Len(s)
        BY <1>1, <3>1 DEF Recalls, Young
      <3>2. CASE i = Len(s) + 1
        <4>1. h - t <= Window + 2 * ClockStep
          BY <1>0
        <4>. QED  BY <1>1, <1>3, <3>2, <4>1
      <3>. QED  BY <1>0, <1>1, <3>1, <3>2
    <2>. QED  BY <2>1 DEF Young
  <1>. QED  BY <1>5, <1>6, <1>7, <1>8 DEF Recalls, s2, a2, entry, admission

(* Evicting the oldest entry forgets one Capacity admissions back.         *)
LEMMA EvictionRecalls ==
    ASSUME NEW s \in Seq(Entries), NEW a \in Seq(Admissions), NEW h \in Nat, Recalls(s, a, h),
           Len(s) <= Capacity + 1
    PROVE  Recalls(Evicted(s), a, h)
  <1>0. /\ Capacity \in Nat \ {0}
        /\ Len(s) \in Nat /\ Len(a) \in Nat
    BY CapacityAssumption, TimesOf
  <1>1. CASE Len(s) > Capacity
    <2> DEFINE rest == Tail(s)
    <2>1. /\ Evicted(s) = rest
          /\ Len(rest) = Len(s) - 1
          /\ \A i \in 1 .. Len(rest) : rest[i] = s[i + 1]
      <3>1. s # <<>>
        BY <1>0, <1>1
      <3>. QED  BY <1>1, <3>1 DEF Evicted
    <2>. HIDE DEF rest
    <2>2. Forgotten(rest, a) = Forgotten(s, a) + 1 /\ Forgotten(s, a) \in Nat
      BY <1>0, <2>1 DEF Forgotten, Recalls, EndOf
    <2>3. \A i \in 1 .. Len(rest) : i + 1 \in 1 .. Len(s) /\ rest[i] = s[i + 1]
      BY <1>0, <2>1
    <2>4. EndOf(rest, a)
      <3>1. Len(rest) <= Len(a)
        BY <1>0, <2>1 DEF Recalls, EndOf
      <3>2. ASSUME NEW i \in 1 .. Len(rest)
            PROVE  /\ rest[i].key = Identity(a[Forgotten(rest, a) + i].event)
                   /\ rest[i].seenAt = a[Forgotten(rest, a) + i].at
        <4>1. Forgotten(rest, a) + i = Forgotten(s, a) + (i + 1)
          BY <2>2
        <4>. QED  BY <2>3, <4>1 DEF Recalls, EndOf
      <3>. QED  BY <3>1, <3>2 DEF EndOf
    <2>5. ForgotDuly(rest, a, h)
      <3>1. ASSUME NEW j \in 1 .. Forgotten(rest, a)
            PROVE  Len(a) - j >= Capacity \/ h - a[j].at > Window
        <4>1. CASE j \in 1 .. Forgotten(s, a)
          BY <4>1 DEF Recalls, ForgotDuly
        <4>2. CASE j = Forgotten(s, a) + 1
          BY <1>0, <1>1, <4>2 DEF Forgotten
        <4>. QED  BY <2>2, <4>1, <4>2
      <3>. QED  BY <3>1 DEF ForgotDuly
    <2>6. NearlyOrdered(rest, h)
      <3>1. \A i, j \in 1 .. Len(rest) : i < j => i + 1 < j + 1
        OBVIOUS
      <3>. QED  BY <2>3, <3>1 DEF Recalls, NearlyOrdered
    <2>7. Young(rest, h)
      BY <2>3 DEF Recalls, Young
    <2>. QED  BY <2>1, <2>4, <2>5, <2>6, <2>7 DEF Recalls
  <1>2. CASE ~ (Len(s) > Capacity)
    BY <1>2 DEF Evicted
  <1>. QED  BY <1>1, <1>2

----------------------------------------------------------------------------
(* Nothing is seen yet, and nothing has to be recalled.                    *)
LEMMA InitRecalls == Init => Recalls(seen, admitted, highest)
  BY DEF Init, Recalls, EndOf, ForgotDuly, NearlyOrdered, Young, Forgotten

(* What has to be recalled is, after every step.                           *)
LEMMA NextRecalls ==
    ASSUME IInv, Recalls(seen, admitted, highest), [Next]_vars
    PROVE  Recalls(seen, admitted, highest)'
  <1>1. /\ seen \in Seq(Entries) /\ Distinct(seen) /\ Len(seen) <= Capacity
        /\ admitted \in Seq(Admissions) /\ highest \in Nat
        /\ Capacity \in Nat /\ Window \in Nat /\ ClockStep \in Nat /\ Times \subseteq Nat
    BY CapacityAssumption, WindowAssumption, ClockStepAssumption, TimesAssumption
       DEF IInv, TypeOK, BoundedMemory, Distinct, Entries, Admissions
  <1>2. CASE UNCHANGED vars
    BY <1>2 DEF vars
  <1>3. CASE Next
    <2>1. PICK e \in Events, t \in Times :
              t >= highest - ClockStep /\ (Duplicate(e, t) \/ Admit(e, t))
      BY <1>3 DEF Next
    <2> DEFINE live == Expired(seen, t - Window)
               h == Max({highest, t})
               entry == [key |-> Identity(e), seenAt |-> t]
               grown == Append(live, entry)
               history == Append(admitted, [event |-> e, at |-> t])
    <2>2. Recalls(live, admitted, h)
      BY <1>1, <2>1, ExpiryRecalls
    <2>3. live \in Seq(Entries) /\ Len(live) <= Len(seen)
      BY <1>1, ExpiredIsDict
    <2>4. h \in Nat /\ t <= h /\ h <= t + ClockStep
      BY <1>1, <2>1, LatestOf
    <2>5. CASE Duplicate(e, t)
      BY <2>2, <2>5 DEF Duplicate
    <2>6. CASE Admit(e, t)
      <3>1. seen' = Evicted(grown) /\ admitted' = history /\ highest' = h
        BY <2>6 DEF Admit
      <3>2. Recalls(grown, history, h)
        <4>. HIDE DEF live, h
        <4>. QED  BY <1>1, <2>2, <2>3, <2>4, AdmissionRecalls
      <3>3. entry \in Entries /\ [event |-> e, at |-> t] \in Admissions
        BY DEF Entries, Admissions
      <3>4. grown \in Seq(Entries) /\ Len(grown) <= Capacity + 1 /\ history \in Seq(Admissions)
        <4>. HIDE DEF live, entry
        <4>1. Len(live) \in Nat /\ Len(seen) \in Nat
          BY <1>1, <2>3
        <4>. QED  BY <1>1, <2>3, <3>3, <4>1
      <3>5. Recalls(Evicted(grown), history, h)
        <4>. HIDE DEF grown, history, h
        <4>. QED  BY <2>4, <3>2, <3>4, EvictionRecalls
      <3>. QED  BY <3>1, <3>5
    <2>. QED  BY <2>1, <2>5, <2>6
  <1>. QED  BY <1>2, <1>3

(* The detector recalls what it admitted as long as it must.               *)
THEOREM RecallInvariance == Spec => []Recalls(seen, admitted, highest)
  BY Invariance, InitRecalls, NextRecalls, PTL DEF Spec

(* "A frame redelivered after a reconnect is recognised": for any window,  *)
(* capacity and clock, an event let through is remembered until Capacity   *)
(* newer ones have been, or the clock has passed it by the window.         *)
THEOREM RecognisesRedelivery == Spec => []RedeliveryRecognised
  <1>1. IInv /\ Recalls(seen, admitted, highest) => RedeliveryRecognised
    <2> SUFFICES ASSUME IInv, Recalls(seen, admitted, highest),
                        NEW j \in DOMAIN admitted,
                        Len(admitted) - j < Capacity,
                        highest - admitted[j].at <= Window
                 PROVE  Remembers(seen, Identity(admitted[j].event))
      BY DEF RedeliveryRecognised
    <2>1. /\ seen \in Seq(Entries) /\ admitted \in Seq(Admissions) /\ highest \in Nat
          /\ Capacity \in Nat /\ Window \in Nat
      BY CapacityAssumption, WindowAssumption DEF IInv, TypeOK, Entries, Admissions
    <2>2. /\ Len(seen) \in Nat /\ Len(admitted) \in Nat /\ j \in 1 .. Len(admitted)
          /\ admitted[j].at \in Nat /\ DOMAIN seen = 1 .. Len(seen)
      BY <2>1, TimesOf
    <2>3. j \notin 1 .. Forgotten(seen, admitted)
      BY <2>1, <2>2 DEF Recalls, ForgotDuly
    <2>4. Forgotten(seen, admitted) \in Nat /\ j > Forgotten(seen, admitted)
      BY <2>2, <2>3 DEF Recalls, EndOf, Forgotten
    <2> DEFINE i == j - Forgotten(seen, admitted)
    <2>5. i \in 1 .. Len(seen) /\ Forgotten(seen, admitted) + i = j
      BY <2>2, <2>4 DEF Forgotten
    <2>6. seen[i].key = Identity(admitted[j].event)
      BY <2>5 DEF Recalls, EndOf
    <2>. QED  BY <2>2, <2>5, <2>6 DEF Remembers
  <1>. QED  BY Invariance, RecallInvariance, <1>1, PTL

(* Forgetting works: no entry outlives the window by more than twice what  *)
(* the wall clock may step back, however it steps.                         *)
THEOREM EntriesDoExpire == Spec => []EntriesExpire
  <1>1. IInv /\ Recalls(seen, admitted, highest) => EntriesExpire
    <2> SUFFICES ASSUME IInv, Recalls(seen, admitted, highest)
                 PROVE  EntriesExpire
      OBVIOUS
    <2>1. DOMAIN seen = 1 .. Len(seen)
      BY DEF IInv, TypeOK
    <2>. QED  BY <2>1 DEF Recalls, Young, EntriesExpire
  <1>. QED  BY Invariance, RecallInvariance, <1>1, PTL

----------------------------------------------------------------------------
(* Expiry leaves nothing older than the window and a step of the clock:    *)
(* what stands behind a fresh entry was inserted after it.                 *)
LEMMA KeptIsRecent ==
    ASSUME NEW s \in Seq(Entries), NEW h \in Nat, NearlyOrdered(s, h), NEW t \in Times
    PROVE  \A i \in 1 .. Len(Expired(s, t - Window)) :
               t - Expired(s, t - Window)[i].seenAt <= Window + ClockStep
  <1> DEFINE live == Expired(s, t - Window)
  <1>0. /\ t \in Nat /\ ClockStep \in Nat /\ Window \in Nat /\ t - Window \in Int
        /\ Len(s) \in Nat
    BY TimesAssumption, ClockStepAssumption, WindowAssumption
  <1>1. PICK m \in 0 .. Len(s) :
             /\ Len(live) = Len(s) - m
             /\ \A i \in 1 .. (Len(s) - m) : live[i] = s[i + m]
             /\ m < Len(s) => s[m + 1].seenAt >= t - Window
    <2>. HIDE DEF Entries
    <2>. QED  BY <1>0, ExpiredIsSuffix
  <1>2. \A i \in 1 .. Len(s) : s[i].seenAt \in Nat
    <2>1. <<>> \in Seq(Admissions)
      OBVIOUS
    <2>. QED  BY <2>1, TimesOf
  <1>. HIDE DEF live
  <1>3. ASSUME NEW i \in 1 .. Len(live)
        PROVE  t - live[i].seenAt <= Window + ClockStep
    <2>1. /\ i + m \in 1 .. Len(s) /\ m + 1 \in 1 .. Len(s) /\ live[i] = s[i + m]
          /\ s[m + 1].seenAt >= t - Window
          /\ m + 1 = i + m \/ m + 1 < i + m
      BY <1>0, <1>1
    <2>2. s[m + 1].seenAt <= s[i + m].seenAt + ClockStep
      BY <1>0, <1>2, <2>1 DEF NearlyOrdered
    <2>3. s[m + 1].seenAt \in Nat /\ s[i + m].seenAt \in Nat
      BY <1>2, <2>1
    <2> DEFINE first == s[m + 1].seenAt
               kept == s[i + m].seenAt
    <2>4. t - kept <= Window + ClockStep
      <3>1. first \in Nat /\ kept \in Nat /\ first >= t - Window /\ first <= kept + ClockStep
        BY <2>1, <2>2, <2>3
      <3>. HIDE DEF first, kept
      <3>. QED  BY <1>0, <3>1
    <2>. QED  BY <2>1, <2>4
  <1>. QED  BY <1>3 DEF live

(* An identity is that of the venue's number, or of what is hashed.        *)
LEMMA SameIdentity ==
    ASSUME NEW e, NEW f, Identity(e) = Identity(f)
    PROVE  Repeats(e, f)
  BY DEF Identity, Repeats

(* An event that is dropped stands for one still remembered, which is one  *)
(* of the last let through.                                                *)
LEMMA DroppedRepeats ==
    ASSUME IInv, Recalls(seen, admitted, highest),
           NEW e \in Events, NEW t \in Times, t >= highest - ClockStep, Duplicate(e, t)
    PROVE  \E j \in DOMAIN admitted :
               /\ Repeats(e, admitted[j].event)
               /\ Len(admitted) - j < Capacity
               /\ t - admitted[j].at <= Window + ClockStep
  <1> DEFINE live == Expired(seen, t - Window)
  <1>1. /\ seen \in Seq(Entries) /\ Distinct(seen) /\ Len(seen) <= Capacity
        /\ admitted \in Seq(Admissions) /\ highest \in Nat /\ Capacity \in Nat
    BY CapacityAssumption DEF IInv, TypeOK, BoundedMemory, Distinct, Entries, Admissions
  <1>2. EndOf(live, admitted)
    <2>1. Recalls(live, admitted, Max({highest, t}))
      BY <1>1, ExpiryRecalls
    <2>. QED  BY <2>1 DEF Recalls
  <1>3. live \in Seq(Entries) /\ Len(live) <= Len(seen)
    BY <1>1, ExpiredIsDict
  <1>4. \A i \in 1 .. Len(live) : t - live[i].seenAt <= Window + ClockStep
    BY <1>1, KeptIsRecent DEF Recalls
  <1>5. Remembers(live, Identity(e))
    BY DEF Duplicate
  <1>. HIDE DEF live
  <1>6. /\ DOMAIN live = 1 .. Len(live) /\ Len(live) \in Nat /\ Len(admitted) \in Nat
        /\ DOMAIN admitted = 1 .. Len(admitted) /\ Len(seen) \in Nat
    BY <1>1, <1>3
  <1>7. PICK i \in 1 .. Len(live) : live[i].key = Identity(e)
    BY <1>5, <1>6 DEF Remembers
  <1> DEFINE j == Forgotten(live, admitted) + i
  <1>8. /\ j \in DOMAIN admitted /\ Len(admitted) - j < Capacity
        /\ Identity(admitted[j].event) = Identity(e)
        /\ admitted[j].at = live[i].seenAt
    BY <1>1, <1>2, <1>3, <1>6, <1>7 DEF EndOf, Forgotten
  <1>. HIDE DEF j
  <1>. QED  BY <1>4, <1>8, SameIdentity

(* "A genuinely repeated market event is not", as far as it holds: for any *)
(* events, whether or not their identity tells them apart, one is dropped  *)
(* only for another the venue gave the same number, or no number and equal *)
(* hashed content, that is among the last let through and was received     *)
(* within the window and one step of the clock.                            *)
THEOREM DropsRepeatsOnly == Spec => DropsOnlyRepeats
  <1> DEFINE ForARecentOne ==
          \A e \in Events, now \in Times :
              now >= highest - ClockStep /\ Duplicate(e, now) =>
                  \E i \in DOMAIN admitted :
                      /\ Repeats(e, admitted[i].event)
                      /\ Len(admitted) - i < Capacity
                      /\ now - admitted[i].at <= Window + ClockStep
  <1>1. IInv /\ Recalls(seen, admitted, highest) => ForARecentOne
    BY DroppedRepeats
  <1>2. IInv /\ Recalls(seen, admitted, highest) => [ForARecentOne]_vars
    BY <1>1
  <1>. HIDE DEF ForARecentOne
  <1>3. Spec => [][ForARecentOne]_vars
    BY Invariance, RecallInvariance, <1>2, PTL
  <1>. QED  BY <1>3 DEF ForARecentOne, DropsOnlyRepeats
=============================================================================

------------------------- MODULE DuplicateDetector -------------------------
(***************************************************************************)
(* The bounded duplicate detector of services/market_data/dedup.py.        *)
(*                                                                         *)
(* The detector keeps the identities it has let through in insertion order *)
(* (an OrderedDict), forgets them by age -- judged by the receipt time of  *)
(* the event being checked -- and by capacity, and drops an event whose    *)
(* identity it still remembers.                                            *)
(*                                                                         *)
(* An event is abstracted to what its identity tells apart: its stream,    *)
(* the venue's number or None, the fields the content hash covers, and     *)
(* the fields it leaves out: the quoted quantities, and all that tells two *)
(* trades without a number apart.  Where the venue gives no time, as in    *)
(* asset contexts, the hash covers the receipt time: such an event is      *)
(* another one whenever it is received.                                    *)
(*                                                                         *)
(* Receipt times come from a wall clock that may step back by at most      *)
(* ClockStep.  admitted and highest are history: the events let through    *)
(* with their receipt times, and the latest receipt time of any call.      *)
(***************************************************************************)
EXTENDS Integers, Sequences, FiniteSetsExt

CONSTANTS
    Events,     \* records [stream, sequence, hashed, unhashed]
    Times,      \* wall-clock receipt times
    Window,     \* window
    Capacity,   \* capacity
    ClockStep,  \* how far the wall clock may step back
    None        \* Python's None

ASSUME TimesAssumption == Times \subseteq Nat
ASSUME WindowAssumption == Window \in Nat
ASSUME CapacityAssumption == Capacity \in Nat \ {0}  \* __init__ refuses capacity < 1
ASSUME ClockStepAssumption == ClockStep \in Nat

VARIABLES
    seen,       \* _seen: sequence of [key, seenAt], oldest insertion first
    stats,      \* _count, _duplicates, _evicted
    admitted,   \* history: sequence of [event, at] let through
    highest     \* history: latest receipt time so far

vars == <<seen, stats, admitted, highest>>

----------------------------------------------------------------------------
(* Mutants.                                                                *)

Identity_IgnoresSequence(e) == <<e.stream, "content", e.hashed>>

Expired_Never(entries, cutoff) == entries

Evicted_Newest(entries) ==
    IF Len(entries) > Capacity THEN SubSeq(entries, 1, Capacity) ELSE entries

Remembers_LatestOnly(entries, key) ==
    entries # <<>> /\ entries[Len(entries)].key = key

----------------------------------------------------------------------------
(* The venue's number where there is one, else a hash of content.          *)
Identity(e) ==
    IF e.sequence # None
    THEN <<e.stream, "seq", e.sequence>>
    ELSE <<e.stream, "content", e.hashed>>

(* The entries young enough to stop expiry.                                *)
Fresh(entries, cutoff) ==
    {i \in DOMAIN entries : entries[i].seenAt >= cutoff}

(* Expiry removes from the oldest insertion up to the first fresh entry.   *)
Expired(entries, cutoff) ==
    IF Fresh(entries, cutoff) = {}
    THEN <<>>
    ELSE SubSeq(entries, Min(Fresh(entries, cutoff)), Len(entries))

(* One insertion overflows by at most one entry: the oldest goes.          *)
Evicted(entries) ==
    IF Len(entries) > Capacity THEN Tail(entries) ELSE entries

EvictedCount(before, after) == Len(before) - Len(after)

Remembers(entries, key) == \E i \in DOMAIN entries : entries[i].key = key

----------------------------------------------------------------------------
Init ==
    /\ seen = <<>>
    /\ stats = [seen |-> 0, duplicates |-> 0, evicted |-> 0]
    /\ admitted = <<>>
    /\ highest = 0

(* The statistics, one event later.                                        *)
Counted(duplicates, evicted) ==
    [seen |-> stats.seen + 1,
     duplicates |-> stats.duplicates + duplicates,
     evicted |-> stats.evicted + evicted]

(* is_duplicate(e) returning True: counted, and the entry not refreshed.   *)
Duplicate(e, now) ==
    LET live == Expired(seen, now - Window)
    IN  /\ Remembers(live, Identity(e))
        /\ seen' = live
        /\ stats' = Counted(1, 0)
        /\ highest' = Max({highest, now})
        /\ UNCHANGED admitted

(* is_duplicate(e) returning False: remembered, the oldest evicted.        *)
Admit(e, now) ==
    LET live == Expired(seen, now - Window)
        grown == Append(live, [key |-> Identity(e), seenAt |-> now])
    IN  /\ ~ Remembers(live, Identity(e))
        /\ seen' = Evicted(grown)
        /\ stats' = Counted(0, EvictedCount(grown, Evicted(grown)))
        /\ admitted' = Append(admitted, [event |-> e, at |-> now])
        /\ highest' = Max({highest, now})

Next ==
    \E e \in Events, now \in Times :
        /\ now >= highest - ClockStep
        /\ Duplicate(e, now) \/ Admit(e, now)

Spec == Init /\ [][Next]_vars

----------------------------------------------------------------------------
TypeOK ==
    /\ seen \in Seq([key : {Identity(e) : e \in Events}, seenAt : Times])
    /\ stats \in [seen : Nat, duplicates : Nat, evicted : Nat]
    /\ admitted \in Seq([event : Events, at : Times])
    /\ highest \in Nat

(* The memory is bounded and an ordered dict: at most Capacity entries, no *)
(* identity twice (capacity of __init__, the while loop of is_duplicate).  *)
BoundedMemory ==
    /\ Len(seen) <= Capacity
    /\ \A i, j \in DOMAIN seen : seen[i].key = seen[j].key => i = j

(* "A frame redelivered after a reconnect is recognised": an event let     *)
(* through is still remembered unless Capacity newer events were let       *)
(* through after it, or the clock has passed it by more than the window.   *)
RedeliveryRecognised ==
    \A i \in DOMAIN admitted :
        /\ Len(admitted) - i < Capacity
        /\ highest - admitted[i].at <= Window
        => Remembers(seen, Identity(admitted[i].event))

(* Forgetting works: whatever the clock does within ClockStep, an entry is *)
(* never older than the window plus twice that step, so an event is never  *)
(* dropped for one received longer ago than that.                          *)
EntriesExpire ==
    \A i \in DOMAIN seen : highest - seen[i].seenAt <= Window + 2 * ClockStep

(* One event stands for another: the venue gave both one number, or gave   *)
(* neither any and their content is equal as far as it is hashed.          *)
Repeats(e, f) ==
    /\ e.stream = f.stream
    /\ e.sequence = f.sequence
    /\ e.sequence = None => e.hashed = f.hashed

(* An event is dropped only for one it repeats, and then for a recent one: *)
(* among the last Capacity let through, and received no further back than  *)
(* the window and one step of the clock, whatever else expiry has left     *)
(* behind a fresher entry.                                                 *)
DropsOnlyRepeats ==
    [][\A e \in Events, now \in Times :
          now >= highest - ClockStep /\ Duplicate(e, now) =>
              \E i \in DOMAIN admitted :
                  /\ Repeats(e, admitted[i].event)
                  /\ Len(admitted) - i < Capacity
                  /\ now - admitted[i].at <= Window + ClockStep]_vars

(* "A genuinely repeated market event is not [recognised]": what is        *)
(* dropped was let through before, and is not another event like it.       *)
DropsNothingNew ==
    [][\A e \in Events, now \in Times :
          Duplicate(e, now) => \E i \in DOMAIN admitted : admitted[i].event = e]_vars
=============================================================================

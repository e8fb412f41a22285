-------------------------- MODULE WebSocketSource --------------------------
(***************************************************************************)
(* The reconnecting source of libs/exchange/hyperliquid/websocket.py: the  *)
(* generator frames() between the frames it yields.                        *)
(*                                                                         *)
(* The venue may refuse a connection, drop it while the subscriptions are  *)
(* sent, or end an open one: cleanly, when the library's iterator just     *)
(* stops, or with an error, when it raises.  The jitter of a delay, a      *)
(* fixed function of the attempt, is any whole number within its fraction. *)
(***************************************************************************)
EXTENDS Integers

CONSTANTS
    MaxTime,        \* bound on the clock
    MaxAttempts,    \* max_attempts, or None
    InitialSeconds, \* initial_seconds of ReconnectPolicy
    MaximumSeconds, \* maximum_seconds
    Multiplier,     \* multiplier
    JitterPercent,  \* half of jitter_fraction, the most a delay is off
    MaxExponent,    \* the largest power of the multiplier that a float holds
    None            \* Python's None

Times == 0 .. MaxTime

ASSUME PolicyAssumption ==
    /\ MaxTime \in Nat /\ InitialSeconds \in Nat /\ MaximumSeconds \in Nat
    /\ Multiplier \in Nat \ {0} /\ MaxExponent \in Nat
    /\ JitterPercent \in 0 .. 100
    /\ MaxAttempts \in (Nat \ {0}) \cup {None}

(* A fact of arithmetic the provers do not have: powers are numbers.       *)
ASSUME PowersAssumption == \A n \in 0 .. MaxExponent : Multiplier ^ n \in Nat

VARIABLES
    now,            \* clock.now()
    pc,             \* where frames() is
    attempt,        \* attempt, the local
    wakeAt,         \* when the sleep before the next attempt ends
    disconnectedAt, \* disconnected_at
    failingSince,   \* history: the first error since a connection was open,
                    \* the error that ended it included; else None
    failedInARow    \* history: attempts failed since a connection was open

history == <<failingSince, failedInARow>>
vars == <<now, pc, attempt, wakeAt, disconnectedAt, history>>

----------------------------------------------------------------------------
(* Mutants.                                                                *)

Stamped_Always(at) == at

Opened_KeepsAttempt == attempt

----------------------------------------------------------------------------
(* ReconnectPolicy.delay_for(): refuses an attempt below 1, and a power    *)
(* beyond the largest float is an OverflowError.                           *)
Capped(seconds) == IF seconds < MaximumSeconds THEN seconds ELSE MaximumSeconds

DelayDefined(a) == a >= 1 /\ a - 1 <= MaxExponent

Jitter(capped) == (capped * JitterPercent) \div 100

DelaysFor(a) ==
    LET capped == Capped(InitialSeconds * Multiplier ^ (a - 1))
        offset == Jitter(capped)
    IN  {delay \in 0 .. capped + offset : delay >= capped - offset}

----------------------------------------------------------------------------
Init ==
    /\ now = 0
    /\ pc = "starting"
    /\ attempt = 0
    /\ wakeAt = 0
    /\ disconnectedAt = None
    /\ failingSince = None
    /\ failedInARow = 0

Tick ==
    /\ now < MaxTime
    /\ now' = now + 1
    /\ UNCHANGED <<pc, attempt, wakeAt, disconnectedAt, history>>

(* The head of the loop: after a sleep, or right after a clean close.      *)
Connect ==
    /\ pc = "starting" \/ (pc = "waiting" /\ now >= wakeAt)
    /\ attempt' = attempt + 1
    /\ pc' = "connecting"
    /\ UNCHANGED <<now, wakeAt, disconnectedAt, history>>

(* The attempt counter once a connection is subscribed.                    *)
Opened == 0

(* The socket opens and every subscription is sent.                        *)
Open ==
    /\ pc = "connecting"
    /\ pc' = "open"
    /\ disconnectedAt' = None
    /\ attempt' = Opened
    /\ failingSince' = None
    /\ failedInARow' = 0
    /\ UNCHANGED <<now, wakeAt>>

Exhausted(a) == MaxAttempts # None /\ a >= MaxAttempts

(* disconnected_at = disconnected_at or clock.now()                        *)
Stamped(at) == IF disconnectedAt = None THEN at ELSE disconnectedAt

(* The except clause: stamp the disconnect, then give up, sleep, or raise  *)
(* where delay_for() does.                                                 *)
Disconnected ==
    /\ disconnectedAt' = Stamped(now)
    /\ IF Exhausted(attempt) THEN pc' = "returned" /\ UNCHANGED wakeAt
       ELSE IF DelayDefined(attempt)
       THEN pc' = "waiting" /\ wakeAt' \in {now + delay : delay \in DelaysFor(attempt)}
       ELSE pc' = "raised" /\ UNCHANGED wakeAt
    /\ UNCHANGED <<now, attempt>>

(* Refused, or dropped while the subscriptions are sent.                   *)
AttemptFails ==
    /\ pc = "connecting"
    /\ Disconnected
    /\ failingSince' = IF failingSince = None THEN now ELSE failingSince
    /\ failedInARow' = failedInARow + 1

ConnectionErrors ==
    /\ pc = "open"
    /\ Disconnected
    /\ failingSince' = now
    /\ UNCHANGED failedInARow

(* The iteration ends without an exception: on to the next attempt.        *)
ConnectionCloses ==
    /\ pc = "open"
    /\ pc' = "starting"
    /\ UNCHANGED <<now, attempt, wakeAt, disconnectedAt, history>>

Next ==
    \/ Tick
    \/ Connect
    \/ Open
    \/ AttemptFails
    \/ ConnectionErrors
    \/ ConnectionCloses

Spec == Init /\ [][Next]_vars

----------------------------------------------------------------------------
LongestDelay == MaximumSeconds + Jitter(MaximumSeconds)

TypeOK ==
    /\ now \in Times
    /\ pc \in {"starting", "connecting", "open", "waiting", "returned", "raised"}
    /\ attempt \in Nat
    /\ wakeAt \in 0 .. MaxTime + LongestDelay
    /\ disconnectedAt \in Times \cup {None}
    /\ failingSince \in Times \cup {None}
    /\ failedInARow \in Nat

(* The source gives up only after MaxAttempts failures in a row, none of   *)
(* them from before its last connection.                                   *)
GivesUpInTime ==
    pc = "returned" => failedInARow = MaxAttempts

(* The interval reported on reconnecting starts with the first error since *)
(* the connection before: no failure after it moves the stamp, and none of *)
(* an earlier outage is left in it ("disconnect detected -> record         *)
(* timestamp").  A connection closed cleanly counts from the next failure. *)
OutageStamped == disconnectedAt = failingSince

(* The cap "keeps a long outage from stretching the interval to            *)
(* uselessness": whatever the number of failures, no sleep is longer than  *)
(* the cap and its jitter.                                                 *)
SleepBounded == pc = "waiting" => wakeAt <= now + LongestDelay

(* "Reconnect attempts before giving up.  None means keep trying": the     *)
(* generator never ends in an exception of its own.                        *)
KeepsTrying == pc # "raised"
=============================================================================

---------------------------- MODULE RecorderState ----------------------------
(***************************************************************************)
(* The declared states and transitions of services/market_data/state.py.   *)
(***************************************************************************)

RecorderStates ==
    {"STARTING", "CONNECTING", "CONNECTED", "SUBSCRIBING", "HEALTHY",
     "DEGRADED", "RECONNECTING", "BACKFILLING", "FAILED"}

(* PERMITTED: anything absent here raises TransitionError.                 *)
PERMITTED ==
    [STARTING     |-> {"CONNECTING", "FAILED"},
     CONNECTING   |-> {"CONNECTED", "RECONNECTING", "FAILED"},
     CONNECTED    |-> {"SUBSCRIBING", "RECONNECTING", "FAILED"},
     SUBSCRIBING  |-> {"HEALTHY", "RECONNECTING", "FAILED"},
     HEALTHY      |-> {"DEGRADED", "RECONNECTING", "BACKFILLING", "FAILED"},
     DEGRADED     |-> {"HEALTHY", "RECONNECTING", "BACKFILLING", "FAILED"},
     RECONNECTING |-> {"CONNECTING", "FAILED"},
     BACKFILLING  |-> {"HEALTHY", "DEGRADED", "FAILED"},
     FAILED       |-> {}]

CanTransition(from, to) == to \in PERMITTED[from]

(* Whether data is expected to be flowing into storage.                    *)
IsRecording(s) == s \in {"HEALTHY", "DEGRADED"}
=============================================================================

--------------------------- MODULE EvidenceArchive ---------------------------
(***************************************************************************)
(* What recording promises about evidence, whatever fails underneath: the  *)
(* raw frame is kept before anything is derived from it, what is derived   *)
(* always traces to a frame already kept, and neither is ever taken back   *)
(* (services/market_data/sinks.py: "Raw first. ... Normalized second,      *)
(* carrying a reference back to the raw frame").                           *)
(***************************************************************************)
CONSTANT Frames     \* identities of received frames

VARIABLES
    archive,    \* frames whose payload is kept
    derived     \* frames some normalized row refers to

vars == <<archive, derived>>

Init == archive = {} /\ derived = {}

Archive(f) ==
    /\ archive' = archive \cup {f}
    /\ UNCHANGED derived

(* Rows may be stored for any frames kept before this step.                *)
Derive(fs) ==
    /\ fs \subseteq archive
    /\ derived' = derived \cup fs
    /\ UNCHANGED archive

Next ==
    \/ \E f \in Frames : Archive(f)
    \/ \E fs \in SUBSET Frames : Derive(fs)

Spec == Init /\ [][Next]_vars
=============================================================================

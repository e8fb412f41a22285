---------------------------- MODULE GapRegistry ----------------------------
(***************************************************************************)
(* Where a detected gap is kept: the in-memory registry of                 *)
(* services/market_data/registry.py, in which its backfill is followed,    *)
(* and the data_gaps table (003_data_gap_registry.sql), into which         *)
(* write_gap() of store_sinks.py puts a row at once, outside any batch.    *)
(*                                                                         *)
(* The registry dies with the process and the table does not.  Rows go     *)
(* through one connection without autocommit: an insert the table refuses  *)
(* or that fails leaves its transaction aborted, nothing in the sink rolls *)
(* it back, and from then on every insert raises.                          *)
(***************************************************************************)
EXTENDS Integers, FiniteSets

CONSTANTS
    Reports,        \* gap reports [id, start, end, suspected] of the detectors
    Times,          \* times a gap can be said to have ended at
    MaxAttempts,    \* bound on the recorded attempts of a gap
    None            \* Python's None

ASSUME ReportsAssumption ==
    /\ IsFiniteSet(Reports) /\ Times \subseteq Nat /\ None \notin Nat
    /\ MaxAttempts \in Nat
    /\ \A g \in Reports : g.start \in Nat /\ g.end \in Nat \cup {None}
    /\ \A g, h \in Reports : g.id = h.id => g = h      \* a fresh uuid4 each

(* BackfillStatus                                                          *)
Statuses == {"PENDING", "IN_PROGRESS", "RECOVERED", "PARTIAL", "UNRECOVERABLE"}

VARIABLES
    registry,   \* _gaps: report -> its entry, or None
    table,      \* committed rows of data_gaps, as their reports
    pending,    \* rows of the open transaction
    connection, \* "idle", "open" or "aborted"
    writing,    \* the report whose row awaits its commit, or None
    returned    \* history: reports whose write_gap() has returned

tableVars == <<table, pending, connection, writing, returned>>
registryVars == <<registry, tableVars>>

Registered == {g \in Reports : registry[g] # None}

----------------------------------------------------------------------------
(* Mutants.                                                                *)

Durable_Later == table

----------------------------------------------------------------------------
(* BackfillStatus.leaves_data_missing: what GapSummary.has_missing_data    *)
(* counts.                                                                 *)
LeavesDataMissing(status) ==
    status \in {"PENDING", "IN_PROGRESS", "PARTIAL", "UNRECOVERABLE"}

RegistryInit ==
    /\ registry = [g \in Reports |-> None]
    /\ table = {} /\ pending = {}
    /\ connection = "idle"
    /\ writing = None
    /\ returned = {}

(* RegisteredGap as register() makes it: suspected, it claims no impact.   *)
NewEntry(g) ==
    [end |-> g.end,
     status |-> "PENDING",
     attempts |-> 0,
     impact |-> IF g.suspected THEN "UNKNOWN" ELSE "MATERIAL"]

(* register(): a known gap is left as it is.                               *)
Register(g) ==
    /\ registry' = [registry EXCEPT ![g] = IF @ = None THEN NewEntry(g) ELSE @]
    /\ UNCHANGED tableVars

(* close() refuses an end before the start for a recovered gap only.       *)
MayClose(g, endedAt, status) == status = "RECOVERED" => endedAt >= g.start

Closed(entry, endedAt, status) ==
    [end |-> endedAt,
     status |-> status,
     attempts |-> entry.attempts,
     impact |-> IF status = "RECOVERED" THEN "NONE" ELSE entry.impact]

Close(g, endedAt, status) ==
    /\ registry[g] # None
    /\ MayClose(g, endedAt, status)
    /\ registry' = [registry EXCEPT ![g] = Closed(@, endedAt, status)]
    /\ UNCHANGED tableVars

Attempted(entry) ==
    [end |-> entry.end,
     status |-> "IN_PROGRESS",
     attempts |-> entry.attempts + 1,
     impact |-> entry.impact]

RecordAttempt(g) ==
    /\ registry[g] # None
    /\ registry[g].attempts < MaxAttempts
    /\ registry' = [registry EXCEPT ![g] = Attempted(@)]
    /\ UNCHANGED tableVars

----------------------------------------------------------------------------
(* The CHECK constraint data_gaps_ordered.                                 *)
Ordered(g) == g.end # None => g.end >= g.start

(* write_gap(): the INSERT, which does nothing where the row is there.     *)
Insert(g) ==
    /\ writing = None
    /\ connection = "idle"
    /\ Ordered(g)
    /\ pending' = pending \cup {g}
    /\ connection' = "open"
    /\ writing' = g
    /\ UNCHANGED <<registry, table, returned>>

(* It is refused, or fails on the way.                                     *)
InsertRaises(g) ==
    /\ writing = None
    /\ connection = "idle"
    /\ connection' = "aborted"
    /\ pending' = {}
    /\ UNCHANGED <<registry, table, writing, returned>>

(* The table once a commit is through.                                     *)
Durable == table \cup pending

Commit ==
    /\ writing # None
    /\ table' = Durable
    /\ pending' = {}
    /\ connection' = "idle"
    /\ returned' = returned \cup {writing}
    /\ writing' = None
    /\ UNCHANGED registry

(* commit() raises: its answer is lost, or it did nothing.                 *)
CommitRaises ==
    /\ writing # None
    /\ table' \in {table, Durable}
    /\ pending' = {}
    /\ connection' = "aborted"
    /\ writing' = None
    /\ UNCHANGED <<registry, returned>>

(* The process stops and another starts, with a connection of its own.     *)
Crash ==
    /\ registry' = [g \in Reports |-> None]
    /\ pending' = {}
    /\ connection' = "idle"
    /\ writing' = None
    /\ UNCHANGED <<table, returned>>

RegistryNext ==
    \/ \E g \in Reports :
          \/ Register(g)
          \/ \E endedAt \in Times, status \in Statuses : Close(g, endedAt, status)
          \/ RecordAttempt(g)
          \/ Insert(g)
          \/ InsertRaises(g)
    \/ Commit
    \/ CommitRaises
    \/ Crash

RegistrySpec == RegistryInit /\ [][RegistryNext]_registryVars

----------------------------------------------------------------------------
(* Properties.                                                             *)

Entry == [end : Nat \cup {None}, status : Statuses, attempts : Nat,
          impact : {"UNKNOWN", "MATERIAL", "NONE"}]

(* The types of the variables.                                             *)
RegistryTypeOK ==
    /\ registry \in [Reports -> Entry \cup {None}]
    /\ table \subseteq Reports /\ pending \subseteq Reports /\ returned \subseteq Reports
    /\ connection \in {"idle", "open", "aborted"}
    /\ writing \in Reports \cup {None}

(* "A gap is the one thing that must not be lost to a crash": once its     *)
(* write has returned, its row is in the table for good, whatever raised   *)
(* before or crashes afterwards, and no row contradicts the extent a gap   *)
(* can have.                                                               *)
WrittenIsKept == returned \subseteq table /\ \A g \in table : Ordered(g)

(* "A gap that cannot be recovered is marked UNRECOVERABLE and stays       *)
(* visible forever" (registry.py): as long as it is registered, a gap once *)
(* so marked is never again taken for one that leaves no data missing.     *)
UnrecoverableStays ==
    [][\A g \in Registered :
          registry[g].status = "UNRECOVERABLE" /\ registry'[g] # None =>
              LeavesDataMissing(registry'[g].status)]_registryVars
=============================================================================

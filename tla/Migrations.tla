----------------------------- MODULE Migrations -----------------------------
(***************************************************************************)
(* The migration runner of libs/storage/migrations.py bound to PostgreSQL  *)
(* or to ClickHouse (build_runner of the two storage modules): a directory *)
(* of numbered files that people edit, a ledger of what was applied, and   *)
(* any number of runners, in processes of their own, which read the files, *)
(* compare them with the ledger, execute the statements of what is pending *)
(* one by one and record each migration after its last statement.          *)
(*                                                                         *)
(* A content stands for its checksum.  The shipped statements are CREATE   *)
(* ... IF NOT EXISTS and COMMENT ON, so any of them may be executed again. *)
(* Every call of a store may raise, with or without effect, and a process  *)
(* may die: both end the run, and a later run starts over.  Discovery      *)
(* reads the directory in one step.  apply(dry_run=True) changes nothing   *)
(* and is left out.                                                        *)
(***************************************************************************)
EXTENDS Naturals, FiniteSets

CONSTANTS
    Runners,        \* processes that run apply()
    Contents,       \* contents of migration files, one per checksum
    Statements,     \* content -> how many statements it splits into
    MaxVersion,     \* bound on the version numbers of files
    MaxEdits        \* bound on changes to the directory

ASSUME StatementsAssumption == Statements \in [Contents -> Nat]
ASSUME BoundsAssumption == MaxVersion \in Nat /\ MaxEdits \in Nat

(* Version 0 stands for every file that discovery refuses on sight: 000_,  *)
(* and a name that does not match NNN_name.sql.                            *)
Files == [version : 0..MaxVersion, content : Contents]
Steps == [version : 0..MaxVersion, index : Nat, content : Contents]

VARIABLES
    store,      \* "postgres" or "clickhouse"
    files,      \* the migration directory
    ledger,     \* schema_migrations: version -> content recorded
    run,        \* the run each runner is in, or was in last
    executed,   \* history: statements ever executed
    edits       \* changes made to the directory

vars == <<store, files, ledger, run, executed, edits>>

Versions(dir) == {f.version : f \in dir}

(* What discovery returns: the content of each version.                    *)
ReadOf(dir) == [v \in Versions(dir) |-> (CHOOSE f \in dir : f.version = v).content]

----------------------------------------------------------------------------
(* Mutants.                                                                *)

Unmodified_NotChecked(read, recorded) == TRUE

RecordedContent_FromDisk(r, v) ==
    IF v \in Versions(files) THEN ReadOf(files)[v] ELSE run[r].read[v]

StatementFails_GoesOn(r, v) ==
    /\ run[r].pc = "running"
    /\ v \in run[r].pending
    /\ \A w \in run[r].pending : v <= w
    /\ run[r].next <= Statements[run[r].read[v]]
    /\ run' = [run EXCEPT ![r].next = 1, ![r].pending = @ \ {v}]
    /\ UNCHANGED <<store, files, ledger, executed, edits>>

RecordConflict_Swallowed(r, v) ==
    LET left == run[r].pending \ {v} IN
    run' = [run EXCEPT ![r].pending = left, ![r].next = 1,
                       ![r].pc = IF left = {} THEN "applied" ELSE "running"]

----------------------------------------------------------------------------
(* The checks that come before anything is executed.                       *)

(* discover_migrations(): a duplicate version is refused, and so are a gap *)
(* in the numbering, a file that does not fit and an empty directory.      *)
Discoverable(dir) ==
    /\ Cardinality(dir) = Cardinality(Versions(dir))
    /\ \E n \in 1..MaxVersion : Versions(dir) = 1..n

(* plan(): no recorded checksum differs from the file's ...                *)
Unmodified(read, recorded) ==
    \A v \in DOMAIN recorded \cap DOMAIN read : recorded[v] = read[v]

(* ... and no recorded version has lost its file.                          *)
NothingVanished(read, recorded) == DOMAIN recorded \subseteq DOMAIN read

Init ==
    /\ store \in {"postgres", "clickhouse"}
    /\ files \in {dir \in SUBSET Files : Discoverable(dir)}
    /\ ledger = [v \in {} |-> v]
    /\ run = [r \in Runners |-> [pc |-> "idle", read |-> [v \in {} |-> v],
                                 pending |-> {}, next |-> 1]]
    /\ executed = {}
    /\ edits = 0

----------------------------------------------------------------------------
(* People: a file is added, edited, renumbered or deleted at any time.     *)

ChangeDirectory ==
    /\ edits < MaxEdits
    /\ edits' = edits + 1
    /\ \/ \E f \in Files \ files : files' = files \cup {f}
       \/ \E f \in files : files' = files \ {f}
       \/ \E f \in files, g \in Files \ files : files' = (files \ {f}) \cup {g}
    /\ UNCHANGED <<store, ledger, run, executed>>

----------------------------------------------------------------------------
(* One call of apply(): discovery, the plan, then the pending migrations.  *)

Discover(r) ==
    /\ run[r].pc \notin {"discovered", "running"}
    /\ run' = [run EXCEPT ![r] =
                 [pc |-> IF Discoverable(files) THEN "discovered" ELSE "refused",
                  read |-> ReadOf(files), pending |-> {}, next |-> 1]]
    /\ UNCHANGED <<store, files, ledger, executed, edits>>

(* fetch_applied() sees an empty ledger where the table does not exist yet.*)
Plan(r) ==
    LET read == run[r].read
        pending == DOMAIN read \ DOMAIN ledger IN
    /\ run[r].pc = "discovered"
    /\ run' = [run EXCEPT ![r] =
                 [pc |-> IF ~Unmodified(read, ledger) \/ ~NothingVanished(read, ledger)
                         THEN "refused"
                         ELSE IF pending = {} THEN "applied" ELSE "running",
                  read |-> read, pending |-> pending, next |-> 1]]
    /\ UNCHANGED <<store, files, ledger, executed, edits>>

(* v is the migration the run is working on: the first that is pending.    *)
WorksOn(r, v) ==
    /\ run[r].pc = "running"
    /\ v \in run[r].pending
    /\ \A w \in run[r].pending : v <= w

StatementsLeft(r, v) == run[r].next <= Statements[run[r].read[v]]

StatementOf(r, v) == [version |-> v, index |-> run[r].next, content |-> run[r].read[v]]

ExecuteStatement(r, v) ==
    /\ WorksOn(r, v)
    /\ StatementsLeft(r, v)
    /\ executed' = executed \cup {StatementOf(r, v)}
    /\ run' = [run EXCEPT ![r].next = @ + 1]
    /\ UNCHANGED <<store, files, ledger, edits>>

(* The statement raises, or the process dies: the run stops here.          *)
StatementFails(r, v) ==
    /\ WorksOn(r, v)
    /\ StatementsLeft(r, v)
    /\ executed' \in {executed, executed \cup {StatementOf(r, v)}}
    /\ run' = [run EXCEPT ![r].pc = "failed"]
    /\ UNCHANGED <<store, files, ledger, edits>>

(* The checksum is of the text the run read, not of the file as it is now. *)
RecordedContent(r, v) == run[r].read[v]

WithRow(r, v) ==
    [w \in DOMAIN ledger \cup {v} |-> IF w = v THEN RecordedContent(r, v) ELSE ledger[w]]

(* The ledger's primary key, which PostgreSQL has: a second row is refused.*)
(* ClickHouse takes it and a read with FINAL shows the later one.          *)
Refuses(v) == store = "postgres" /\ v \in DOMAIN ledger

RecordConflict(r, v) == run' = [run EXCEPT ![r].pc = "failed"]

RecordMigration(r, v) ==
    /\ WorksOn(r, v)
    /\ ~StatementsLeft(r, v)
    /\ IF Refuses(v)
       THEN RecordConflict(r, v) /\ UNCHANGED ledger
       ELSE LET left == run[r].pending \ {v} IN
            /\ ledger' = WithRow(r, v)
            /\ run' = [run EXCEPT ![r].pending = left, ![r].next = 1,
                                  ![r].pc = IF left = {} THEN "applied" ELSE "running"]
    /\ UNCHANGED <<store, files, executed, edits>>

(* The insert raises, or the process dies: the row may be there.           *)
RecordFails(r, v) ==
    /\ WorksOn(r, v)
    /\ ~StatementsLeft(r, v)
    /\ \/ UNCHANGED ledger
       \/ ~Refuses(v) /\ ledger' = WithRow(r, v)
    /\ run' = [run EXCEPT ![r].pc = "failed"]
    /\ UNCHANGED <<store, files, executed, edits>>

(* The process dies, or the ledger cannot be read, before the plan is made.*)
PlanFails(r) ==
    /\ run[r].pc = "discovered"
    /\ run' = [run EXCEPT ![r].pc = "failed"]
    /\ UNCHANGED <<store, files, ledger, executed, edits>>

Runner(r) ==
    \/ Discover(r)
    \/ Plan(r)
    \/ PlanFails(r)
    \/ \E v \in 0..MaxVersion :
          \/ ExecuteStatement(r, v)
          \/ StatementFails(r, v)
          \/ RecordMigration(r, v)
          \/ RecordFails(r, v)

Next == ChangeDirectory \/ \E r \in Runners : Runner(r)

Spec == Init /\ [][Next]_vars

----------------------------------------------------------------------------
(* Properties.                                                             *)

PartialReads == UNION {[D -> Contents] : D \in SUBSET (0..MaxVersion)}

(* The types of the variables.  The directory may be in any state; what a  *)
(* run has pending is among the files it read.                             *)
TypeOK ==
    /\ store \in {"postgres", "clickhouse"}
    /\ files \subseteq Files
    /\ ledger \in PartialReads
    /\ run \in [Runners -> [pc : {"idle", "discovered", "running", "applied", "refused", "failed"},
                            read : PartialReads,
                            pending : SUBSET (0..MaxVersion),
                            next : Nat \ {0}]]
    /\ \A r \in Runners : run[r].pending \subseteq DOMAIN run[r].read
    /\ executed \subseteq Steps
    /\ edits \in 0..MaxEdits

(* Whatever is done to the directory, and with any runners at once and any *)
(* of them failing, the ledger holds the versions 1 to some n: a gap in    *)
(* the numbering never reaches it (discover_migrations, plan).             *)
LedgerContiguous ==
    \E n \in 0..MaxVersion : DOMAIN ledger = 1..n

(* A statement of a migration is executed only after every earlier version *)
(* was recorded: a later migration may depend on an earlier one, so apply()*)
(* stops at the first failure, and a later run resumes there.              *)
EarlierRecordedFirst ==
    \A s \in executed : \A w \in 1..(s.version - 1) : w \in DOMAIN ledger

(* A row of the ledger carries the checksum of the file as applied: each   *)
(* statement of that very content was executed, however often the file was *)
(* edited and however many runs it took.                                   *)
RecordedAsExecuted ==
    \A v \in DOMAIN ledger : \A i \in 1..Statements[ledger[v]] :
        [version |-> v, index |-> i, content |-> ledger[v]] \in executed

(* On PostgreSQL a run never builds on a history it did not read: below    *)
(* the migration it works on, the ledger holds the contents of its own     *)
(* files, though other runners with other files record meanwhile.          *)
OneHistory ==
    store = "postgres" =>
        \A r \in Runners : \A v \in 0..MaxVersion :
            WorksOn(r, v) =>
                \A w \in DOMAIN run[r].read :
                    w < v => w \in DOMAIN ledger /\ ledger[w] = run[r].read[w]

(* When apply() returns, every file it read is in the ledger, and stays    *)
(* there; on PostgreSQL under the checksum of the text it read.            *)
AppliedIsRecorded ==
    \A r \in Runners : run[r].pc = "applied" =>
        \A v \in DOMAIN run[r].read :
            /\ v \in DOMAIN ledger
            /\ store = "postgres" => ledger[v] = run[r].read[v]
=============================================================================

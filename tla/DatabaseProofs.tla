--------------------------- MODULE DatabaseProofs ---------------------------
(***************************************************************************)
(* Proofs about the two records PostgreSQL keeps for good: the migration   *)
(* ledger and the table of data gaps.  They share a database and no state. *)
(***************************************************************************)
EXTENDS Migrations, GapRegistry, FiniteSetTheorems, TLAPS

----------------------------------------------------------------------------
(* The migration runner, for any files, edits, failures and number of      *)
(* runners: the ledger is contiguous and in order, each row of it is the   *)
(* checksum of statements that were executed, and on PostgreSQL no run     *)
(* builds on a history other than the one it read.                         *)

(* A run that may still execute, or that has returned.                     *)
Planned(r) == run[r].pc \in {"running", "applied"}

(* What a planned run read is contiguous: below a version are all others.  *)
ReadsContiguous ==
    \A r \in Runners : run[r].pc \in {"discovered", "running", "applied"} =>
        \A v \in DOMAIN run[r].read : v >= 1 /\ 1..v \subseteq DOMAIN run[r].read

(* What a planned run read is recorded, or it still has it to do.          *)
ReadIsRecorded ==
    \A r \in Runners : Planned(r) =>
        \A v \in DOMAIN run[r].read \ run[r].pending :
            /\ v \in DOMAIN ledger
            /\ store = "postgres" => ledger[v] = run[r].read[v]

(* A run that returned has nothing left.                                   *)
NothingLeft == \A r \in Runners : run[r].pc = "applied" => run[r].pending = {}

(* The statements a run has passed were executed.                          *)
Passed ==
    \A r \in Runners : \A v \in 0..MaxVersion : WorksOn(r, v) =>
        \A i \in 1..(run[r].next - 1) :
            [version |-> v, index |-> i, content |-> run[r].read[v]] \in executed

IInv ==
    /\ TypeOK
    /\ LedgerContiguous
    /\ EarlierRecordedFirst
    /\ RecordedAsExecuted
    /\ ReadsContiguous
    /\ ReadIsRecorded
    /\ NothingLeft
    /\ Passed

----------------------------------------------------------------------------
(* What is below the migration a run works on is in the ledger.            *)
LEMMA BelowIsRecorded ==
    ASSUME IInv, NEW r \in Runners, NEW v \in 0..MaxVersion, WorksOn(r, v)
    PROVE  /\ v >= 1
           /\ \A w \in 1..(v - 1) : w \in DOMAIN run[r].read /\ w \notin run[r].pending
           /\ \A w \in 1..(v - 1) : w \in DOMAIN ledger
  <1>1. v \in DOMAIN run[r].read /\ run[r].pc = "running"
    BY DEF IInv, TypeOK, WorksOn
  <1>2. v >= 1 /\ 1..v \subseteq DOMAIN run[r].read
    BY <1>1 DEF IInv, ReadsContiguous
  <1>3. \A w \in 1..(v - 1) : w \in DOMAIN run[r].read
    BY <1>2, BoundsAssumption
  <1>4. \A w \in 1..(v - 1) : w \notin run[r].pending
    BY BoundsAssumption DEF WorksOn
  <1>5. \A w \in 1..(v - 1) : w \in DOMAIN ledger
    BY <1>1, <1>3, <1>4 DEF IInv, ReadIsRecorded, Planned
  <1> QED BY <1>2, <1>3, <1>4, <1>5

(* Discovery returns a content for each version it found.                  *)
LEMMA ReadType ==
    ASSUME NEW dir \in SUBSET Files
    PROVE  /\ ReadOf(dir) \in PartialReads
           /\ DOMAIN ReadOf(dir) = Versions(dir)
  <1>1. Versions(dir) \in SUBSET (0..MaxVersion)
    BY DEF Versions, Files
  <1>2. ASSUME NEW v \in Versions(dir)
        PROVE  (CHOOSE f \in dir : f.version = v).content \in Contents
    <2>1. \E f \in dir : f.version = v
      BY DEF Versions
    <2>2. (CHOOSE f \in dir : f.version = v) \in dir
      BY <2>1
    <2> QED BY <2>2 DEF Files
  <1>3. ReadOf(dir) \in [Versions(dir) -> Contents]
    BY <1>2 DEF ReadOf
  <1> QED BY <1>1, <1>3 DEF PartialReads, ReadOf

(* Recording the migration a run works on, its statements all passed.      *)
LEMMA RowRecorded ==
    ASSUME IInv, NEW r \in Runners, NEW v \in 0..MaxVersion,
           WorksOn(r, v), ~StatementsLeft(r, v), ~Refuses(v), ledger' = WithRow(r, v),
           executed' = executed
    PROVE  /\ ledger' \in PartialReads
           /\ DOMAIN ledger' = DOMAIN ledger \cup {v}
           /\ ledger'[v] = run[r].read[v]
           /\ \A w \in DOMAIN ledger : store = "postgres" => ledger'[w] = ledger[w]
           /\ LedgerContiguous'
           /\ EarlierRecordedFirst'
           /\ RecordedAsExecuted'
  <1>0. TypeOK BY DEF IInv
  <1>1. v \in DOMAIN run[r].read /\ run[r].read \in PartialReads /\ ledger \in PartialReads
    BY <1>0 DEF TypeOK, WorksOn
  <1>2. run[r].read[v] \in Contents
    BY <1>1 DEF PartialReads
  <1>3. DOMAIN ledger \subseteq 0..MaxVersion /\ \A w \in DOMAIN ledger : ledger[w] \in Contents
    BY <1>1 DEF PartialReads
  <1>4. ledger' = [w \in DOMAIN ledger \cup {v} |-> IF w = v THEN run[r].read[v] ELSE ledger[w]]
    BY DEF WithRow, RecordedContent
  <1>5. DOMAIN ledger' = DOMAIN ledger \cup {v} /\ ledger'[v] = run[r].read[v]
    BY <1>4
  <1>6. ledger' \in [DOMAIN ledger \cup {v} -> Contents]
    BY <1>2, <1>3, <1>4
  <1>7. ledger' \in PartialReads
    BY <1>3, <1>6 DEF PartialReads
  <1>8. \A w \in DOMAIN ledger : store = "postgres" => ledger'[w] = ledger[w]
    BY <1>4 DEF Refuses
  <1>9. LedgerContiguous'
    <2>1. PICK n \in 0..MaxVersion : DOMAIN ledger = 1..n
      BY DEF IInv, LedgerContiguous
    <2>2. v >= 1 /\ \A w \in 1..(v - 1) : w \in 1..n
      BY <2>1, BelowIsRecorded
    <2>3. v <= n + 1
      BY <2>2, BoundsAssumption
    <2>4. CASE v <= n
      BY <1>5, <2>1, <2>2, <2>4, BoundsAssumption DEF LedgerContiguous
    <2>5. CASE v = n + 1
      <3>1. 1..n \cup {v} = 1..v
        BY <2>5, BoundsAssumption
      <3> QED BY <1>5, <2>1, <3>1 DEF LedgerContiguous
    <2> QED BY <2>3, <2>4, <2>5, BoundsAssumption
  <1>10. EarlierRecordedFirst'
    BY <1>5 DEF IInv, EarlierRecordedFirst
  <1>11. RecordedAsExecuted'
    <2> SUFFICES ASSUME NEW w \in DOMAIN ledger', NEW i \in 1..Statements[ledger'[w]]
                 PROVE  [version |-> w, index |-> i, content |-> ledger'[w]] \in executed
      BY DEF RecordedAsExecuted
    <2>1. CASE w = v
      <3>1. Statements[run[r].read[v]] < run[r].next
            /\ run[r].next \in Nat /\ Statements[run[r].read[v]] \in Nat
        BY <1>0, <1>2, StatementsAssumption DEF StatementsLeft, TypeOK
      <3>2. i \in 1..(run[r].next - 1)
        BY <2>1, <1>5, <3>1
      <3> QED BY <2>1, <1>5, <3>2 DEF IInv, Passed
    <2>2. CASE w # v
      <3>1. w \in DOMAIN ledger /\ ledger'[w] = ledger[w]
        BY <1>4, <1>5, <2>2
      <3> QED BY <3>1 DEF IInv, RecordedAsExecuted
    <2> QED BY <2>1, <2>2
  <1> QED BY <1>5, <1>7, <1>8, <1>9, <1>10, <1>11

----------------------------------------------------------------------------
(* The invariant holds before the first run.                               *)
LEMMA InitInv == Init => IInv
  <1> SUFFICES ASSUME Init PROVE IInv
    OBVIOUS
  <1> USE DEF Init
  <1>1. DOMAIN ledger = {} /\ ledger \in [{} -> Contents]
    OBVIOUS
  <1>2. ledger \in PartialReads
    BY <1>1, {} \in SUBSET (0..MaxVersion) DEF PartialReads
  <1>3. TypeOK
    BY <1>2, BoundsAssumption DEF TypeOK
  <1>4. DOMAIN ledger = 1..0 /\ 0 \in 0..MaxVersion
    BY <1>1, BoundsAssumption
  <1>5. LedgerContiguous
    BY <1>4 DEF LedgerContiguous
  <1>6. EarlierRecordedFirst /\ RecordedAsExecuted
    BY <1>1 DEF EarlierRecordedFirst, RecordedAsExecuted
  <1>7. ReadsContiguous /\ ReadIsRecorded /\ NothingLeft /\ Passed
    BY DEF ReadsContiguous, ReadIsRecorded, NothingLeft, Passed, Planned, WorksOn
  <1> QED BY <1>3, <1>5, <1>6, <1>7 DEF IInv

(* discover_migrations() preserves the invariant.                          *)
LEMMA DiscoverStep ==
    ASSUME IInv, NEW r \in Runners, Discover(r)
    PROVE  IInv'
  <1> USE DEF Discover
  <1>0. TypeOK
    BY DEF IInv
  <1>1. /\ ReadOf(files) \in PartialReads
        /\ DOMAIN ReadOf(files) = Versions(files)
    BY <1>0, ReadType DEF TypeOK
  <1>2. run'[r] = [pc |-> IF Discoverable(files) THEN "discovered" ELSE "refused",
                   read |-> ReadOf(files), pending |-> {}, next |-> 1]
        /\ \A q \in Runners \ {r} : run'[q] = run[q]
    BY <1>0 DEF TypeOK
  <1>3. TypeOK'
    BY <1>0, <1>1, <1>2 DEF TypeOK
  <1>4. ReadsContiguous'
    <2> SUFFICES ASSUME NEW q \in Runners,
                        run'[q].pc \in {"discovered", "running", "applied"},
                        NEW v \in DOMAIN run'[q].read
                 PROVE  v >= 1 /\ 1..v \subseteq DOMAIN run'[q].read
      BY DEF ReadsContiguous
    <2>1. CASE q = r
      <3>1. Discoverable(files) /\ run'[q].read = ReadOf(files)
        BY <2>1, <1>2
      <3>2. PICK n \in 1..MaxVersion : Versions(files) = 1..n
        BY <3>1 DEF Discoverable
      <3>3. DOMAIN run'[q].read = 1..n
        BY <1>1, <3>1, <3>2
      <3> QED BY <3>2, <3>3, BoundsAssumption
    <2>2. CASE q # r
      BY <2>2, <1>2 DEF IInv, ReadsContiguous
    <2> QED BY <2>1, <2>2
  <1>5. LedgerContiguous' /\ EarlierRecordedFirst' /\ RecordedAsExecuted'
    BY DEF IInv, LedgerContiguous, EarlierRecordedFirst, RecordedAsExecuted
  <1>6. ReadIsRecorded' /\ NothingLeft' /\ Passed'
    BY <1>2 DEF IInv, ReadIsRecorded, NothingLeft, Passed, Planned, WorksOn
  <1> QED BY <1>3, <1>4, <1>5, <1>6 DEF IInv

(* plan() preserves the invariant.                                         *)
LEMMA PlanStep ==
    ASSUME IInv, NEW r \in Runners, Plan(r)
    PROVE  IInv'
  <1> DEFINE todo == DOMAIN run[r].read \ DOMAIN ledger
             refused == ~Unmodified(run[r].read, ledger) \/ ~NothingVanished(run[r].read, ledger)
  <1>0. TypeOK
    BY DEF IInv
  <1>1. /\ run'[r] = [pc |-> IF refused THEN "refused"
                             ELSE IF todo = {} THEN "applied" ELSE "running",
                      read |-> run[r].read, pending |-> todo, next |-> 1]
        /\ \A q \in Runners \ {r} : run'[q] = run[q]
        /\ run[r].pc = "discovered"
        /\ UNCHANGED <<store, files, ledger, executed, edits>>
        /\ DOMAIN run' = Runners /\ run' = [q \in Runners |-> run'[q]]
    BY <1>0 DEF Plan, TypeOK
  <1> HIDE DEF refused
  <1>2. run[r].read \in PartialReads /\ DOMAIN run[r].read \subseteq 0..MaxVersion
    BY <1>0 DEF TypeOK, PartialReads
  <1>3. TypeOK'
    <2>1. todo \in SUBSET (0..MaxVersion) /\ run[r].read \in PartialReads
      BY <1>0, <1>2
    <2>2. run'[r] \in [pc : {"idle", "discovered", "running", "applied", "refused", "failed"},
                       read : PartialReads, pending : SUBSET (0..MaxVersion), next : Nat \ {0}]
          /\ run'[r].pending \subseteq DOMAIN run'[r].read
      BY <1>1, <2>1
    <2> HIDE DEF todo
    <2>3. run' \in [Runners -> [pc : {"idle", "discovered", "running", "applied", "refused", "failed"},
                       read : PartialReads, pending : SUBSET (0..MaxVersion), next : Nat \ {0}]]
      BY <1>0, <1>1, <2>2 DEF TypeOK
    <2>4. \A q \in Runners : run'[q].pending \subseteq DOMAIN run'[q].read
      BY <1>0, <1>1, <2>2 DEF TypeOK
    <2> QED BY <1>0, <1>1, <2>3, <2>4 DEF TypeOK
  <1>4. ReadsContiguous'
    BY <1>1 DEF IInv, ReadsContiguous
  <1>5. LedgerContiguous' /\ EarlierRecordedFirst' /\ RecordedAsExecuted'
    BY <1>1 DEF IInv, LedgerContiguous, EarlierRecordedFirst, RecordedAsExecuted
  <1>6. ReadIsRecorded'
    <2> SUFFICES ASSUME NEW q \in Runners, Planned(q)',
                        NEW v \in DOMAIN run'[q].read \ run'[q].pending
                 PROVE  /\ v \in DOMAIN ledger
                        /\ store = "postgres" => ledger[v] = run'[q].read[v]
      BY <1>1 DEF ReadIsRecorded
    <2>1. CASE q = r
      <3>1. ~refused
        BY <2>1, <1>1 DEF Planned
      <3>2. v \in DOMAIN ledger /\ v \in DOMAIN run[r].read
        BY <2>1, <1>1
      <3> QED BY <2>1, <3>1, <3>2, <1>1 DEF refused, Unmodified
    <2>2. CASE q # r
      BY <2>2, <1>1 DEF IInv, ReadIsRecorded, Planned
    <2> QED BY <2>1, <2>2
  <1>7. NothingLeft'
    BY <1>1 DEF IInv, NothingLeft
  <1>8. Passed'
    <2> SUFFICES ASSUME NEW q \in Runners, NEW v \in 0..MaxVersion, WorksOn(q, v)',
                        NEW i \in 1..(run'[q].next - 1)
                 PROVE  [version |-> v, index |-> i, content |-> run'[q].read[v]] \in executed
      BY <1>1 DEF Passed
    <2>1. CASE q = r
      BY <2>1, <1>1
    <2>2. CASE q # r
      BY <2>2, <1>1 DEF IInv, Passed, WorksOn
    <2> QED BY <2>1, <2>2
  <1> QED BY <1>3, <1>4, <1>5, <1>6, <1>7, <1>8 DEF IInv

(* A statement of the migration a run works on was executed, or not.       *)
LEMMA StatementExecuted ==
    ASSUME IInv, NEW r \in Runners, NEW v \in 0..MaxVersion,
           WorksOn(r, v), UNCHANGED ledger,
           executed' \in {executed, executed \cup {StatementOf(r, v)}}
    PROVE  /\ executed \subseteq executed' /\ executed' \subseteq Steps
           /\ LedgerContiguous' /\ EarlierRecordedFirst' /\ RecordedAsExecuted'
  <1>0. TypeOK
    BY DEF IInv
  <1>1. v \in DOMAIN run[r].read /\ run[r].read \in PartialReads /\ run[r].next \in Nat
    BY <1>0 DEF TypeOK, WorksOn
  <1>2. run[r].read[v] \in Contents
    BY <1>1 DEF PartialReads
  <1>3. StatementOf(r, v) \in Steps /\ StatementOf(r, v).version = v
    BY <1>1, <1>2 DEF StatementOf, Steps
  <1>4. executed \subseteq executed' /\ executed' \subseteq Steps
    BY <1>0, <1>3 DEF TypeOK
  <1>5. EarlierRecordedFirst'
    BY <1>3, BelowIsRecorded DEF IInv, EarlierRecordedFirst
  <1>6. RecordedAsExecuted'
    BY <1>4 DEF IInv, RecordedAsExecuted
  <1>7. LedgerContiguous'
    BY DEF IInv, LedgerContiguous
  <1> QED BY <1>4, <1>5, <1>6, <1>7

(* A run stops, whatever its last call left in the store.                  *)
LEMMA StopStep ==
    ASSUME IInv, NEW r \in Runners,
           run' = [run EXCEPT ![r].pc = "failed"],
           UNCHANGED <<store, files, edits>>,
           executed \subseteq executed', executed' \subseteq Steps,
           ledger' \in PartialReads, DOMAIN ledger \subseteq DOMAIN ledger',
           \A w \in DOMAIN ledger : store = "postgres" => ledger'[w] = ledger[w],
           LedgerContiguous', EarlierRecordedFirst', RecordedAsExecuted'
    PROVE  IInv'
  <1>0. TypeOK
    BY DEF IInv
  <1>1. /\ run'[r].pc = "failed"
        /\ run'[r].read = run[r].read /\ run'[r].pending = run[r].pending
        /\ \A q \in Runners \ {r} : run'[q] = run[q]
    BY <1>0 DEF TypeOK
  <1>2. TypeOK'
    BY <1>0, <1>1 DEF TypeOK
  <1>3. ReadsContiguous' /\ NothingLeft'
    BY <1>1 DEF IInv, ReadsContiguous, NothingLeft
  <1>4. ReadIsRecorded'
    BY <1>1 DEF IInv, ReadIsRecorded, Planned
  <1>5. Passed'
    BY <1>1 DEF IInv, Passed, WorksOn
  <1> QED BY <1>2, <1>3, <1>4, <1>5 DEF IInv

(* Executing a script preserves the invariant.                             *)
LEMMA ExecuteStep ==
    ASSUME IInv, NEW r \in Runners, NEW v \in 0..MaxVersion, ExecuteStatement(r, v)
    PROVE  IInv'
  <1>0. TypeOK
    BY DEF IInv
  <1>1. /\ executed \subseteq executed' /\ executed' \subseteq Steps
        /\ LedgerContiguous' /\ EarlierRecordedFirst' /\ RecordedAsExecuted'
    BY StatementExecuted DEF ExecuteStatement
  <1>2. /\ run'[r].pc = run[r].pc /\ run'[r].read = run[r].read
        /\ run'[r].pending = run[r].pending /\ run'[r].next = run[r].next + 1
        /\ \A q \in Runners \ {r} : run'[q] = run[q]
        /\ UNCHANGED <<store, ledger>>
        /\ run[r].next \in Nat
    BY <1>0 DEF ExecuteStatement, TypeOK
  <1>3. TypeOK'
    BY <1>0, <1>1, <1>2 DEF ExecuteStatement, TypeOK
  <1>4. ReadsContiguous' /\ NothingLeft'
    BY <1>2 DEF IInv, ReadsContiguous, NothingLeft
  <1>5. ReadIsRecorded'
    BY <1>2 DEF IInv, ReadIsRecorded, Planned
  <1>6. Passed'
    <2> SUFFICES ASSUME NEW q \in Runners, NEW u \in 0..MaxVersion, WorksOn(q, u)',
                        NEW i \in 1..(run'[q].next - 1)
                 PROVE  [version |-> u, index |-> i, content |-> run'[q].read[u]] \in executed'
      BY DEF Passed
    <2>1. WorksOn(q, u)
      BY <1>2 DEF WorksOn
    <2>2. CASE q # r
      BY <1>1, <1>2, <2>1, <2>2 DEF IInv, Passed
    <2>3. CASE q = r
      <3>1. u = v
        BY <2>1, <2>3, BoundsAssumption DEF ExecuteStatement, WorksOn
      <3>2. CASE i = run[r].next
        BY <1>2, <2>3, <3>1, <3>2 DEF ExecuteStatement, StatementOf
      <3>3. CASE i # run[r].next
        <4>1. i \in 1..(run[r].next - 1)
          BY <1>2, <2>3, <3>3
        <4> QED BY <1>1, <1>2, <2>1, <2>3, <4>1 DEF IInv, Passed
      <3> QED BY <3>2, <3>3
    <2> QED BY <2>2, <2>3
  <1> QED BY <1>1, <1>3, <1>4, <1>5, <1>6 DEF IInv

(* Recording a script as applied preserves the invariant.                  *)
LEMMA RecordStep ==
    ASSUME IInv, NEW r \in Runners, NEW v \in 0..MaxVersion, RecordMigration(r, v)
    PROVE  IInv'
  <1>0. TypeOK
    BY DEF IInv
  <1>1. CASE Refuses(v)
    <2>1. run' = [run EXCEPT ![r].pc = "failed"] /\ UNCHANGED <<store, files, ledger, executed, edits>>
      BY <1>1 DEF RecordMigration, RecordConflict
    <2>2. LedgerContiguous' /\ EarlierRecordedFirst' /\ RecordedAsExecuted'
      BY <2>1 DEF IInv, LedgerContiguous, EarlierRecordedFirst, RecordedAsExecuted
    <2> QED BY <1>0, <2>1, <2>2, StopStep DEF TypeOK
  <1>2. CASE ~Refuses(v)
    <2> DEFINE left == run[r].pending \ {v}
    <2>1. /\ WorksOn(r, v) /\ ~StatementsLeft(r, v)
          /\ ledger' = WithRow(r, v)
          /\ UNCHANGED <<store, files, executed, edits>>
      BY <1>2 DEF RecordMigration
    <2>2. /\ run'[r].pc = IF left = {} THEN "applied" ELSE "running"
          /\ run'[r].read = run[r].read
          /\ run'[r].pending = left /\ run'[r].next = 1
          /\ \A q \in Runners \ {r} : run'[q] = run[q]
      BY <1>0, <1>2 DEF RecordMigration, TypeOK
    <2>3. /\ ledger' \in PartialReads
          /\ DOMAIN ledger' = DOMAIN ledger \cup {v}
          /\ ledger'[v] = run[r].read[v]
          /\ \A w \in DOMAIN ledger : store = "postgres" => ledger'[w] = ledger[w]
          /\ LedgerContiguous' /\ EarlierRecordedFirst' /\ RecordedAsExecuted'
      BY <1>2, <2>1, RowRecorded
    <2>4. TypeOK'
      BY <1>0, <1>2, <2>1, <2>2, <2>3 DEF RecordMigration, TypeOK
    <2>5. run[r].pc = "running"
      BY <2>1 DEF WorksOn
    <2>6. ReadsContiguous' /\ NothingLeft'
      BY <2>2, <2>5 DEF IInv, ReadsContiguous, NothingLeft
    <2>7. ReadIsRecorded'
      <3> SUFFICES ASSUME NEW q \in Runners, Planned(q)',
                          NEW w \in DOMAIN run'[q].read \ run'[q].pending
                   PROVE  /\ w \in DOMAIN ledger'
                          /\ store = "postgres" => ledger'[w] = run'[q].read[w]
        BY <2>1 DEF ReadIsRecorded
      <3>1. CASE q = r /\ w = v
        BY <2>2, <2>3, <3>1
      <3>2. CASE ~(q = r /\ w = v)
        <4>1. Planned(q) /\ run'[q].read = run[q].read /\ w \notin run[q].pending
          BY <2>2, <2>5, <3>2 DEF Planned
        <4>2. /\ w \in DOMAIN ledger
              /\ store = "postgres" => ledger[w] = run[q].read[w]
          BY <4>1 DEF IInv, ReadIsRecorded
        <4> QED BY <2>3, <4>1, <4>2
      <3> QED BY <3>1, <3>2
    <2>8. Passed'
      <3> SUFFICES ASSUME NEW q \in Runners, NEW u \in 0..MaxVersion, WorksOn(q, u)',
                          NEW i \in 1..(run'[q].next - 1)
                   PROVE  [version |-> u, index |-> i, content |-> run'[q].read[u]] \in executed
        BY <2>1 DEF Passed
      <3>1. q # r
        BY <2>2
      <3> QED BY <2>2, <3>1 DEF IInv, Passed, WorksOn
    <2> QED BY <2>3, <2>4, <2>6, <2>7, <2>8 DEF IInv
  <1> QED BY <1>1, <1>2

(* Every step preserves the invariant.                                     *)
LEMMA NextInv == IInv /\ [Next]_vars => IInv'
  <1> SUFFICES ASSUME IInv, [Next]_vars PROVE IInv'
    OBVIOUS
  <1>0. TypeOK
    BY DEF IInv
  <1>1. CASE UNCHANGED vars
    BY <1>1 DEF vars, IInv, TypeOK, LedgerContiguous, EarlierRecordedFirst, RecordedAsExecuted,
         ReadsContiguous, ReadIsRecorded, NothingLeft, Passed, Planned, WorksOn
  <1>2. CASE ChangeDirectory
    <2>1. TypeOK'
      BY <1>0, <1>2, BoundsAssumption DEF ChangeDirectory, TypeOK
    <2> QED BY <1>2, <2>1 DEF ChangeDirectory, IInv, LedgerContiguous, EarlierRecordedFirst,
              RecordedAsExecuted, ReadsContiguous, ReadIsRecorded, NothingLeft, Passed, Planned, WorksOn
  <1>3. ASSUME NEW r \in Runners, Discover(r) PROVE IInv'
    BY <1>3, DiscoverStep
  <1>4. ASSUME NEW r \in Runners, Plan(r) PROVE IInv'
    BY <1>4, PlanStep
  <1>5. ASSUME NEW r \in Runners, PlanFails(r) PROVE IInv'
    <2>1. run' = [run EXCEPT ![r].pc = "failed"] /\ UNCHANGED <<store, files, ledger, executed, edits>>
      BY <1>5 DEF PlanFails
    <2>2. LedgerContiguous' /\ EarlierRecordedFirst' /\ RecordedAsExecuted'
      BY <2>1 DEF IInv, LedgerContiguous, EarlierRecordedFirst, RecordedAsExecuted
    <2> QED BY <1>0, <2>1, <2>2, StopStep DEF TypeOK
  <1>6. ASSUME NEW r \in Runners, NEW v \in 0..MaxVersion, ExecuteStatement(r, v) PROVE IInv'
    BY <1>6, ExecuteStep
  <1>7. ASSUME NEW r \in Runners, NEW v \in 0..MaxVersion, StatementFails(r, v) PROVE IInv'
    <2>1. /\ WorksOn(r, v) /\ run' = [run EXCEPT ![r].pc = "failed"]
          /\ UNCHANGED <<store, files, ledger, edits>>
          /\ executed' \in {executed, executed \cup {StatementOf(r, v)}}
      BY <1>7 DEF StatementFails
    <2>2. /\ executed \subseteq executed' /\ executed' \subseteq Steps
          /\ LedgerContiguous' /\ EarlierRecordedFirst' /\ RecordedAsExecuted'
      BY <2>1, StatementExecuted
    <2> QED BY <1>0, <2>1, <2>2, StopStep DEF TypeOK
  <1>8. ASSUME NEW r \in Runners, NEW v \in 0..MaxVersion, RecordMigration(r, v) PROVE IInv'
    BY <1>8, RecordStep
  <1>9. ASSUME NEW r \in Runners, NEW v \in 0..MaxVersion, RecordFails(r, v) PROVE IInv'
    <2>1. /\ WorksOn(r, v) /\ ~StatementsLeft(r, v)
          /\ run' = [run EXCEPT ![r].pc = "failed"]
          /\ UNCHANGED <<store, files, executed, edits>>
          /\ UNCHANGED ledger \/ (~Refuses(v) /\ ledger' = WithRow(r, v))
      BY <1>9 DEF RecordFails
    <2>2. CASE UNCHANGED ledger
      <3>1. LedgerContiguous' /\ EarlierRecordedFirst' /\ RecordedAsExecuted'
        BY <2>1, <2>2 DEF IInv, LedgerContiguous, EarlierRecordedFirst, RecordedAsExecuted
      <3> QED BY <1>0, <2>1, <2>2, <3>1, StopStep DEF TypeOK
    <2>3. CASE ~Refuses(v) /\ ledger' = WithRow(r, v)
      <3>1. /\ ledger' \in PartialReads
            /\ DOMAIN ledger' = DOMAIN ledger \cup {v}
            /\ \A w \in DOMAIN ledger : store = "postgres" => ledger'[w] = ledger[w]
            /\ LedgerContiguous' /\ EarlierRecordedFirst' /\ RecordedAsExecuted'
        BY <2>1, <2>3, RowRecorded
      <3> QED BY <1>0, <2>1, <3>1, StopStep DEF TypeOK
    <2> QED BY <2>1, <2>2, <2>3
  <1> QED BY <1>1, <1>2, <1>3, <1>4, <1>5, <1>6, <1>7, <1>8, <1>9 DEF Next, Runner

(* The invariant holds in every reachable state.                           *)
THEOREM Invariance == Spec => []IInv
  <1> QED BY InitInv, NextInv, PTL DEF Spec

(* The types of the variables hold throughout.                             *)
THEOREM TypeCorrect == Spec => []TypeOK
  <1>1. IInv => TypeOK
    BY DEF IInv
  <1> QED BY <1>1, Invariance, PTL

(* Whatever people do to the directory and however runs fail or overlap,   *)
(* the ledger holds the versions 1 to n, and a statement is executed only  *)
(* when every earlier version is recorded.                                 *)
THEOREM AppliedInOrder == Spec => [](LedgerContiguous /\ EarlierRecordedFirst)
  <1>1. IInv => LedgerContiguous /\ EarlierRecordedFirst
    BY DEF IInv
  <1> QED BY <1>1, Invariance, PTL

(* Each checksum in the ledger is of a text all of whose statements were   *)
(* executed.                                                               *)
THEOREM ChecksumsAreOfWhatRan == Spec => []RecordedAsExecuted
  <1>1. IInv => RecordedAsExecuted
    BY DEF IInv
  <1> QED BY <1>1, Invariance, PTL

(* On PostgreSQL the ledger's key keeps every run on the history it read,  *)
(* although nothing locks the ledger.                                      *)
THEOREM NeverOnAnotherHistory == Spec => []OneHistory
  <1>1. IInv => OneHistory
    <2> SUFFICES ASSUME IInv, store = "postgres", NEW r \in Runners,
                        NEW v \in 0..MaxVersion, WorksOn(r, v),
                        NEW w \in DOMAIN run[r].read, w < v
                 PROVE  w \in DOMAIN ledger /\ ledger[w] = run[r].read[w]
      BY DEF OneHistory
    <2>1. run[r].read \in PartialReads
      BY DEF IInv, TypeOK
    <2>2. w \in 0..MaxVersion
      BY <2>1 DEF PartialReads
    <2>3. w \notin run[r].pending
      BY <2>2, BoundsAssumption DEF WorksOn
    <2> QED BY <2>3 DEF WorksOn, IInv, ReadIsRecorded, Planned
  <1> QED BY <1>1, Invariance, PTL

(* A run that returned has recorded what it read.                          *)
THEOREM ReturnedMeansRecorded == Spec => []AppliedIsRecorded
  <1>1. IInv => AppliedIsRecorded
    BY DEF IInv, AppliedIsRecorded, NothingLeft, ReadIsRecorded, Planned
  <1> QED BY <1>1, Invariance, PTL

----------------------------------------------------------------------------
(* The gap registry and its table, for any set of reports: what was        *)
(* written stays.                                                          *)

(* A returned write is committed; until then its row is in the open        *)
(* transaction, and nothing the table refuses is in either.                *)
RowsAccounted ==
    /\ writing # None => writing \in pending
    /\ returned \subseteq table
    /\ \A g \in table \cup pending : Ordered(g)

RegistryIInv == RegistryTypeOK /\ RowsAccounted

(* The invariant of the registry holds at the start.                       *)
LEMMA RegistryInitIInv == RegistryInit => RegistryIInv
<1> SUFFICES ASSUME RegistryInit PROVE RegistryIInv
  OBVIOUS
<1>1. RegistryTypeOK
  BY DEF RegistryInit, RegistryTypeOK
<1>2. RowsAccounted
  BY DEF RegistryInit, RowsAccounted
<1> QED  BY <1>1, <1>2 DEF RegistryIInv

(* One entry changes, to one of its type.                                  *)
LEMMA EntryChanges ==
    ASSUME RegistryIInv, NEW g \in Reports, NEW e \in Entry \cup {None},
           registry' = [registry EXCEPT ![g] = e], UNCHANGED tableVars
    PROVE  RegistryIInv'
<1>1. RegistryTypeOK'
  BY DEF RegistryIInv, RegistryTypeOK, tableVars
<1>2. RowsAccounted'
  BY DEF RegistryIInv, RowsAccounted, tableVars
<1> QED  BY <1>1, <1>2 DEF RegistryIInv

(* Every step of the registry preserves its invariant.                     *)
LEMMA RegistryStepIInv == RegistryIInv /\ [RegistryNext]_registryVars => RegistryIInv'
<1> SUFFICES ASSUME RegistryIInv, [RegistryNext]_registryVars PROVE RegistryIInv'
  OBVIOUS
<1> USE ReportsAssumption DEF ReportsAssumption
<1>1. ASSUME NEW g \in Reports, Register(g) PROVE RegistryIInv'
  <2> DEFINE e == IF registry[g] = None THEN NewEntry(g) ELSE registry[g]
  <2>1. NewEntry(g) \in Entry
    BY DEF NewEntry, Entry, Statuses
  <2>2. e \in Entry \cup {None}
    BY <2>1 DEF RegistryIInv, RegistryTypeOK
  <2>3. registry' = [registry EXCEPT ![g] = e] /\ UNCHANGED tableVars
    BY <1>1 DEF Register
  <2> HIDE DEF e
  <2> QED  BY <2>2, <2>3, EntryChanges
<1>2. ASSUME NEW g \in Reports, NEW endedAt \in Times, NEW status \in Statuses,
             Close(g, endedAt, status)
      PROVE  RegistryIInv'
  <2> DEFINE e == Closed(registry[g], endedAt, status)
  <2>1. registry[g] \in Entry
    BY <1>2 DEF Close, RegistryIInv, RegistryTypeOK
  <2>2. e \in Entry
    BY <2>1 DEF Closed, Entry
  <2>3. registry' = [registry EXCEPT ![g] = e] /\ UNCHANGED tableVars
    BY <1>2 DEF Close
  <2> HIDE DEF e
  <2> QED  BY <2>2, <2>3, EntryChanges
<1>3. ASSUME NEW g \in Reports, RecordAttempt(g) PROVE RegistryIInv'
  <2> DEFINE e == Attempted(registry[g])
  <2>1. registry[g] \in Entry
    BY <1>3 DEF RecordAttempt, RegistryIInv, RegistryTypeOK
  <2>2. e \in Entry
    BY <2>1 DEF Attempted, Entry, Statuses
  <2>3. registry' = [registry EXCEPT ![g] = e] /\ UNCHANGED tableVars
    BY <1>3 DEF RecordAttempt
  <2> HIDE DEF e
  <2> QED  BY <2>2, <2>3, EntryChanges
<1>4. ASSUME NEW g \in Reports, Insert(g) PROVE RegistryIInv'
  BY <1>4 DEF Insert, RegistryIInv, RegistryTypeOK, RowsAccounted, Ordered
<1>5. ASSUME NEW g \in Reports, InsertRaises(g) PROVE RegistryIInv'
  BY <1>5 DEF InsertRaises, RegistryIInv, RegistryTypeOK, RowsAccounted, Ordered
<1>6. CASE Commit
  BY <1>6 DEF Commit, Durable, RegistryIInv, RegistryTypeOK, RowsAccounted, Ordered
<1>7. CASE CommitRaises
  BY <1>7 DEF CommitRaises, Durable, RegistryIInv, RegistryTypeOK, RowsAccounted, Ordered
<1>8. CASE Crash
  BY <1>8 DEF Crash, RegistryIInv, RegistryTypeOK, RowsAccounted, Ordered
<1>9. CASE UNCHANGED registryVars
  BY <1>9 DEF registryVars, tableVars, RegistryIInv, RegistryTypeOK, RowsAccounted, Ordered
<1> QED
  BY <1>1, <1>2, <1>3, <1>4, <1>5, <1>6, <1>7, <1>8, <1>9 DEF RegistryNext

(* The invariant holds of every behaviour.                                 *)
THEOREM RegistryInvariance == RegistrySpec => []RegistryIInv
  BY RegistryInitIInv, RegistryStepIInv, PTL DEF RegistrySpec

(* The variables keep their types.                                         *)
THEOREM RegistryTypeCorrect == RegistrySpec => []RegistryTypeOK
<1>1. RegistryIInv => RegistryTypeOK
  BY DEF RegistryIInv
<1> QED  BY <1>1, RegistryInvariance, PTL

(* A gap whose write_gap() returned is in data_gaps for good, and no row   *)
(* of it contradicts the extent a gap can have.                            *)
THEOREM WrittenGapsStay == RegistrySpec => []WrittenIsKept
<1>1. RegistryIInv => WrittenIsKept
  BY DEF RegistryIInv, RowsAccounted, WrittenIsKept
<1> QED  BY <1>1, RegistryInvariance, PTL
=============================================================================

----------------------------- MODULE MCDatabase -----------------------------
(* The two users of the database, one at a time: one rests where it began  *)
(* while the other takes its steps.                                        *)
(*                                                                         *)
(* Migrations: two runners, versions up to two, one content of two         *)
(* statements and one of a single statement.                               *)
(* Gaps: a sequence gap whose end the wall clock put before its start,     *)
(* which the table refuses, and a silence without an end; both are closed  *)
(* before, at and after their starts.                                      *)
EXTENDS Migrations, GapRegistry

CONSTANTS long, short

MCStatements == [c \in {long, short} |-> IF c = long THEN 2 ELSE 1]

MCReports == {[id |-> 1, start |-> 2, end |-> 1, suspected |-> FALSE],
              [id |-> 2, start |-> 1, end |-> None, suspected |-> TRUE]}

MCTimes == 0..2

(* One of the initial states of the migrations.                            *)
MigrationsRest ==
    Init /\ store = "postgres" /\ files = {[version |-> 1, content |-> short]}

MCInit == Init /\ RegistryInit

MCNext ==
    \/ RegistryInit /\ Next /\ UNCHANGED registryVars
    \/ MigrationsRest /\ RegistryNext /\ UNCHANGED vars

MCSpec == MCInit /\ [][MCNext]_<<vars, registryVars>>
=============================================================================

----------------------------- MODULE Migrations -----------------------------
(***************************************************************************)
(* Bringing the schema up: db.apply_migrations, run by the migrate command *)
(* of several pods at once.  Each run reads which files have run, then     *)
(* applies every other file in a transaction of its own that also inserts  *)
(* the file's name; the second to insert a name waits for the first.       *)
(*                                                                         *)
(* X_Something is a mutant of X: X with a plausible mistake in it.         *)
(***************************************************************************)
EXTENDS Naturals, FiniteSets

CONSTANTS
    Migrator,         \* runs of apply_migrations
    Files,            \* the files 1..Files, in name order
    MaxMigrateFaults  \* bound: a statement or the connection fails

ASSUME MigrationAssumption == Files \in Nat /\ MaxMigrateFaults \in Nat

VARIABLES
    applied,       \* otto_schema_migrations
    runs,          \* runs[f]: times f's statements took effect (an observation)
    migrator,      \* migrator[m]: its locals
    crossed,       \* somebody committed a file while another run was under way
                   \* (an observation)
    migrateFaults

migrateVars == <<applied, runs, migrator, crossed, migrateFaults>>

MigratorState == [stage : {"idle", "applying", "done", "failed"},
                  known : SUBSET (1..Files), next : Nat, held : BOOLEAN]

MigrateTypeOK ==
    /\ applied \subseteq 1..Files
    /\ runs \in [1..Files -> Nat]
    /\ migrator \in [Migrator -> MigratorState]
    /\ \A m \in Migrator : migrator[m].next <= Files + 1
    /\ \A m \in Migrator : migrator[m].held => migrator[m].stage = "applying"
    /\ crossed \in BOOLEAN
    /\ migrateFaults \in 0..MaxMigrateFaults

MigrateInit ==
    /\ \E n \in 0..Files : applied = 1..n
    /\ runs = [f \in 1..Files |-> IF f \in applied THEN 1 ELSE 0]
    /\ migrator = [m \in Migrator |-> [stage |-> "idle", known |-> {}, next |-> 1,
                                       held |-> FALSE]]
    /\ crossed = FALSE
    /\ migrateFaults = 0

-----------------------------------------------------------------------------
Migrates(m, s) == migrator' = [migrator EXCEPT ![m] = s]

\* The table, and the names in it.
ReadApplied(m) ==
    /\ migrator[m].stage = "idle"
    /\ Migrates(m, [migrator[m] EXCEPT !.stage = "applying", !.known = applied])
    /\ UNCHANGED <<applied, runs, crossed, migrateFaults>>

Applying(m) == migrator[m].stage = "applying" /\ migrator[m].next <= Files

AlreadyApplied(s) == s.next \in s.known

Skip(m) ==
    /\ Applying(m)
    /\ AlreadyApplied(migrator[m])
    /\ Migrates(m, [migrator[m] EXCEPT !.next = @ + 1])
    /\ UNCHANGED <<applied, runs, crossed, migrateFaults>>

NameIsFree_Upsert(f) == TRUE

\* INSERT INTO otto_schema_migrations: filename is the primary key.
NameIsFree(f) == f \notin applied

\* Nobody else is between this file's INSERT and the end of its transaction.
Unlocked(f) == \A o \in Migrator : ~(migrator[o].held /\ migrator[o].next = f)

\* The file's statements and the INSERT of its name, uncommitted; or the
\* violation of the primary key, which takes the statements with it.
Execute(m) ==
    LET f == migrator[m].next IN
    /\ Applying(m)
    /\ ~AlreadyApplied(migrator[m]) /\ ~migrator[m].held
    /\ Unlocked(f)
    /\ Migrates(m, IF NameIsFree(f) THEN [migrator[m] EXCEPT !.held = TRUE]
                ELSE [migrator[m] EXCEPT !.stage = "failed"])
    /\ UNCHANGED <<applied, runs, crossed, migrateFaults>>

Commit(m) ==
    LET f == migrator[m].next IN
    /\ Applying(m) /\ migrator[m].held
    /\ applied' = applied \cup {f}
    /\ runs' = [runs EXCEPT ![f] = @ + 1]
    /\ crossed' = (crossed \/ \E o \in Migrator \ {m} : migrator[o].stage = "applying")
    /\ Migrates(m, [migrator[m] EXCEPT !.next = @ + 1, !.held = FALSE])
    /\ UNCHANGED migrateFaults

Finish(m) ==
    /\ migrator[m].stage = "applying"
    /\ migrator[m].next = Files + 1
    /\ Migrates(m, [migrator[m] EXCEPT !.stage = "done"])
    /\ UNCHANGED <<applied, runs, crossed, migrateFaults>>

Rolled_KeepsLock(s) == [s EXCEPT !.stage = "failed"]

Rolled(s) == [s EXCEPT !.stage = "failed", !.held = FALSE]

\* A statement is refused or the connection is lost: the transaction is rolled
\* back and the command exits 1.
Fails(m) ==
    /\ Applying(m)
    /\ migrateFaults < MaxMigrateFaults
    /\ migrateFaults' = migrateFaults + 1
    /\ Migrates(m, Rolled(migrator[m]))
    /\ UNCHANGED <<applied, runs, crossed>>

MigrateNext ==
    \E m \in Migrator : ReadApplied(m) \/ Skip(m) \/ Execute(m) \/ Commit(m) \/ Finish(m)
                        \/ Fails(m)

MigrateSpec == MigrateInit /\ [][MigrateNext]_migrateVars

-----------------------------------------------------------------------------
(* What must hold.                                                         *)

\* However many pods migrate at once and wherever they fail, the files take
\* effect in name order, none twice and none without its name being recorded.
AppliedInOrderOnce ==
    \A f \in 1..Files :
        /\ f \in applied => \A g \in 1..f : g \in applied
        /\ runs[f] = IF f \in applied THEN 1 ELSE 0

\* Exit 0 means the schema is up, whoever brought it up; and exit 1 is owed to
\* a fault or to another pod that was migrating too.
ExitTellsTheSchema ==
    \A m \in Migrator :
        /\ migrator[m].stage = "done" => applied = 1..Files
        /\ migrator[m].stage = "failed" => migrateFaults > 0 \/ crossed

\* The schema is what the table says, and what the exit status says.
SchemaIsSound == AppliedInOrderOnce /\ ExitTellsTheSchema
=============================================================================

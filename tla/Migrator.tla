------------------------------- MODULE Migrator -------------------------------
(***************************************************************************)
(* Programs that migrate one schema (internal/migrate/migrator.go): any    *)
(* number at once, of different versions, each of which may fail or die at *)
(* any statement and be started again.  Nothing but the tables keeps them  *)
(* apart: CREATE SCHEMA fails if there is the schema, and the primary key  *)
(* of migrations makes the transaction of a migration that is recorded     *)
(* already fail.                                                           *)
(***************************************************************************)
EXTENDS Integers, FiniteSets, FiniteSetsExt

CONSTANTS
  Programs,     \* programs that call Migrate
  Version,      \* the number of the last migration file of each program
  MaxFailures   \* bound: statements that fail, programs that die

ASSUME MigratorBounds ==
  /\ Version \in [Programs -> Nat \ {0}]
  /\ MaxFailures \in Nat

VARIABLES
  schema,    \* the schema and its table migrations are there
  applied,   \* the ids in migrations
  step,      \* where each program is
  latest,    \* the last migration it has read or applied
  outcome,   \* what its last call of Migrate has returned
  failures   \* number of failures so far

database == <<schema, applied>>
migrateVars == <<database, step, latest, outcome, failures>>

\* loadMigrations: the embedded files, numbered from 1 and sorted.
Files(p) == 1 .. Version[p]

Init ==
  /\ schema = FALSE /\ applied = {}
  /\ step = [p \in Programs |-> "out"]
  /\ latest = [p \in Programs |-> 0]
  /\ outcome = [p \in Programs |-> "none"]
  /\ failures = 0

Go(p, from, to) == step[p] = from /\ step' = [step EXCEPT ![p] = to]

\* Migrate returns.
Return(p, from, result) ==
  /\ Go(p, from, "out")
  /\ outcome' = [outcome EXCEPT ![p] = result]

\* NewMigrator and Migrate; a program is started again after a failure.
Start(p) ==
  /\ Go(p, "out", "reading")
  /\ outcome[p] # "migrated"
  /\ outcome' = [outcome EXCEPT ![p] = "none"]
  /\ UNCHANGED <<database, latest, failures>>

\* getLatestMigration without the table (42P01).
NoTable(p) ==
  /\ ~schema
  /\ Go(p, "reading", "installing")
  /\ UNCHANGED <<database, latest, outcome, failures>>

\* Scan of no row is an error of its own, not a null.
EmptyTable(p) ==
  /\ schema /\ applied = {}
  /\ Return(p, "reading", "error")
  /\ UNCHANGED <<database, latest, failures>>

\* order by id desc limit 1
Latest == Max(applied)

ReadLatest(p) ==
  /\ schema /\ applied # {}
  /\ Go(p, "reading", "migrating")
  /\ latest' = [latest EXCEPT ![p] = Latest]
  /\ UNCHANGED <<database, outcome, failures>>

\* installSchema: one batch of two statements, and so one transaction.
InstallSchema(p) ==
  /\ ~schema
  /\ Go(p, "installing", "migrating")
  /\ schema' = TRUE
  /\ latest' = [latest EXCEPT ![p] = 0]
  /\ UNCHANGED <<applied, outcome, failures>>

\* Another program has created the schema since.
SchemaExists(p) ==
  /\ schema
  /\ Return(p, "installing", "error")
  /\ UNCHANGED <<database, latest, failures>>

\* (mutant) the next number, whether there is such a file or not
BeginNext(p) ==
  /\ latest[p] \in Files(p) \cup {0}
  /\ Go(p, "migrating", "in transaction")
  /\ UNCHANGED <<database, latest, outcome, failures>>

\* The next file whose number is greater than the latest.
Begin(p) ==
  /\ latest[p] + 1 \in Files(p)
  /\ Go(p, "migrating", "in transaction")
  /\ UNCHANGED <<database, latest, outcome, failures>>

\* runMigration and Commit.
Apply(p) ==
  LET n == latest[p] + 1 IN
  /\ n \notin applied
  /\ Go(p, "in transaction", "migrating")
  /\ applied' = applied \cup {n}
  /\ latest' = [latest EXCEPT ![p] = n]
  /\ UNCHANGED <<schema, outcome, failures>>

\* (mutant) a migration that is there already is taken for done, and so is the rest
AlreadyAppliedFine(p) ==
  /\ latest[p] + 1 \in applied
  /\ Return(p, "in transaction", "migrated")
  /\ UNCHANGED <<database, latest, failures>>

\* Another program has applied it: the file or the record of it fails.
AlreadyApplied(p) ==
  /\ latest[p] + 1 \in applied
  /\ Return(p, "in transaction", "error")
  /\ UNCHANGED <<database, latest, failures>>

\* (mutant) the last file must be the latest migration
MigratedLast(p) ==
  /\ latest[p] = Version[p]
  /\ Return(p, "migrating", "migrated")
  /\ UNCHANGED <<database, latest, failures>>

\* No file is left: Migrate returns nil.
Migrated(p) ==
  /\ latest[p] + 1 \notin Files(p)
  /\ Return(p, "migrating", "migrated")
  /\ UNCHANGED <<database, latest, failures>>

\* A statement fails or the program dies.  The transaction is rolled back, unless
\* the answer to its commit is what was lost.
Fail(p) ==
  /\ step[p] # "out" /\ failures < MaxFailures
  /\ Return(p, step[p], "error")
  /\ failures' = failures + 1
  /\ schema' \in {schema, schema \/ step[p] = "installing"}
  /\ applied' \in {applied, IF step[p] = "in transaction"
                             THEN applied \cup {latest[p] + 1} ELSE applied}
  /\ UNCHANGED latest

Step(p) ==
  \/ NoTable(p) \/ EmptyTable(p) \/ ReadLatest(p)
  \/ InstallSchema(p) \/ SchemaExists(p)
  \/ Begin(p) \/ Apply(p) \/ AlreadyApplied(p) \/ Migrated(p)

Next == \E p \in Programs : Start(p) \/ Step(p) \/ Fail(p)

Spec == Init /\ [][Next]_migrateVars

\* Programs are started again until they have migrated.
FairSpec ==
  Spec /\ \A p \in Programs : WF_migrateVars(Start(p)) /\ WF_migrateVars(Step(p))

-------------------------------------------------------------------------------
\* Every variable has its type, and without the table nothing is recorded.
TypeOK ==
  /\ schema \in BOOLEAN
  /\ applied \in SUBSET UNION {Files(p) : p \in Programs}
  /\ applied # {} => schema
  /\ step \in [Programs -> {"out", "reading", "installing", "migrating", "in transaction"}]
  /\ latest \in [Programs -> Nat]
  /\ outcome \in [Programs -> {"none", "error", "migrated"}]
  /\ failures \in 0 .. MaxFailures

\* Whichever programs race, fail and are started again, no migration is applied
\* before those with smaller numbers are; and when Migrate has returned nil every
\* migration the program knows is applied, whoever applied it.
AppliedInFull ==
  /\ \A n \in applied : 1 .. n \subseteq applied
  /\ \A p \in Programs : outcome[p] = "migrated" => Files(p) \subseteq applied

\* Programs that are started again until they have migrated all do so, unless a
\* failure between installSchema and the first migration has left the table empty.
MigratesUnlessEmpty ==
  <>[](\A p \in Programs : outcome[p] = "migrated") \/ <>[](schema /\ applied = {})
===============================================================================

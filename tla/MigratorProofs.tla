---------------------------- MODULE MigratorProofs ----------------------------
(***************************************************************************)
(* Theorems about Migrator: whatever programs race, fail and are started   *)
(* again, for every number of programs and every version of each, they     *)
(* write one history; and what a crash can make of a schema for good.      *)
(***************************************************************************)
EXTENDS Migrator, TLAPS

USE MigratorBounds

\* A program that applies migrations has read, installed or applied those up to
\* its latest, and the next one is a file of its own.
Working(p) ==
  /\ step[p] \in {"migrating", "in transaction"} => schema /\ 1 .. latest[p] \subseteq applied
  /\ step[p] = "in transaction" => latest[p] + 1 \in Files(p)

Prefix == \E n \in Nat : applied = 1 .. n

MigratorInv ==
  /\ TypeOK
  /\ Prefix
  /\ \A p \in Programs : Working(p)
  /\ \A p \in Programs : outcome[p] = "migrated" => Files(p) \subseteq applied

LEMMA InitInv == Init => MigratorInv
  <1> SUFFICES ASSUME Init PROVE MigratorInv
    OBVIOUS
  <1>1. Prefix
    <2>1. applied = 1 .. 0
      BY DEF Init
    <2>2. QED
      BY <2>1 DEF Prefix
  <1>2. TypeOK
    <2>1. failures \in 0 .. MaxFailures
      BY DEF Init
    <2>2. QED
      BY <2>1 DEF Init, TypeOK
  <1>3. \A p \in Programs : Working(p) /\ outcome[p] # "migrated"
    BY DEF Init, Working
  <1>4. QED
    BY <1>1, <1>2, <1>3 DEF MigratorInv

\* What a transaction adds is in the table already, or the next number.
LEMMA NextNumber ==
  ASSUME Prefix, NEW k \in Nat, 1 .. k \subseteq applied
  PROVE  /\ \E n \in Nat : applied \cup {k + 1} = 1 .. n
         /\ 1 .. (k + 1) \subseteq applied \cup {k + 1}
  <1>1. PICK n \in Nat : applied = 1 .. n
    BY DEF Prefix
  <1>2. k <= n
    <2>1. CASE k = 0
      BY <2>1
    <2>2. CASE k # 0
      <3>1. k \in 1 .. k
        BY <2>2
      <3>2. QED
        BY <1>1, <3>1
    <2>3. QED
      BY <2>1, <2>2
  <1>3. CASE k < n
    <2>1. applied \cup {k + 1} = 1 .. n
      BY <1>1, <1>3
    <2>2. QED
      BY <2>1, <1>3
  <1>4. CASE k = n
    <2>1. applied \cup {k + 1} = 1 .. (n + 1)
      BY <1>1, <1>4
    <2>2. QED
      BY <2>1, <1>4
  <1>5. QED
    BY <1>2, <1>3, <1>4

LEMMA LatestIsLast ==
  ASSUME Prefix, applied # {}
  PROVE  Latest \in Nat /\ 1 .. Latest \subseteq applied
  <1>1. PICK n \in Nat : applied = 1 .. n
    BY DEF Prefix
  <1>2. n \in applied /\ \A m \in applied : n >= m
    BY <1>1
  <1>3. Latest \in applied
    BY <1>2 DEF Latest, Max
  <1>4. QED
    BY <1>1, <1>3

\* A number beyond the last file is beyond all of them.
LEMMA BeyondLast ==
  ASSUME NEW v \in Nat, NEW l \in Nat, l + 1 \notin 1 .. v
  PROVE  1 .. v \subseteq 1 .. l
  OBVIOUS

LEMMA NextNat == \A n \in Nat : n + 1 \in Nat
  OBVIOUS

LEMMA OneMore ==
  ASSUME NEW n \in 0 .. MaxFailures, n < MaxFailures
  PROVE  n + 1 \in 0 .. MaxFailures
  OBVIOUS

\* The step of one program, and what it may have added.
LEMMA StepInv ==
  ASSUME MigratorInv, NEW p \in Programs, Start(p) \/ Step(p) \/ Fail(p)
  PROVE  MigratorInv'
  <1> USE DEF MigratorInv
  <1> DEFINE Added == step[p] = "in transaction" /\ applied' = applied \cup {latest[p] + 1}
  <1>1. /\ step[p] \in {"out", "reading", "installing", "migrating", "in transaction"}
        /\ latest[p] \in Nat
        /\ Working(p)
    BY DEF TypeOK
  <1>2. applied' = applied \/ Added
    BY DEF Start, Step, Fail, NoTable, EmptyTable, ReadLatest, InstallSchema, SchemaExists,
           Begin, Apply, AlreadyApplied, Migrated, Go, Return, database
  <1>3. applied \subseteq applied'
    BY <1>2
  <1>4. schema => schema'
    BY DEF Start, Step, Fail, NoTable, EmptyTable, ReadLatest, InstallSchema, SchemaExists,
           Begin, Apply, AlreadyApplied, Migrated, Go, Return, database
  <1>5. schema' \in BOOLEAN
    BY DEF Start, Step, Fail, NoTable, EmptyTable, ReadLatest, InstallSchema, SchemaExists,
           Begin, Apply, AlreadyApplied, Migrated, Go, Return, database, TypeOK
  <1>6. Prefix'
    <2>1. CASE applied' = applied
      BY <2>1 DEF Prefix
    <2>2. CASE Added
      BY <2>2, <1>1, NextNumber DEF Prefix, Working
    <2>3. QED
      BY <1>2, <2>1, <2>2
  <1>7. applied' \in SUBSET UNION {Files(q) : q \in Programs} /\ (applied' # {} => schema')
    <2>1. CASE applied' = applied
      BY <2>1, <1>4 DEF TypeOK
    <2>2. CASE Added
      BY <2>2, <1>1, <1>4 DEF TypeOK, Working
    <2>3. QED
      BY <1>2, <2>1, <2>2
  <1>8. /\ step' \in [Programs -> {"out", "reading", "installing", "migrating", "in transaction"}]
        /\ \A q \in Programs \ {p} : step'[q] = step[q]
    BY DEF Start, Step, Fail, NoTable, EmptyTable, ReadLatest, InstallSchema, SchemaExists,
           Begin, Apply, AlreadyApplied, Migrated, Go, Return, TypeOK
  <1>9. /\ latest' \in [Programs -> Nat]
        /\ \A q \in Programs \ {p} : latest'[q] = latest[q]
    <2>1. latest \in [Programs -> Nat]
      BY DEF TypeOK
    <2>2. latest' = latest \/ \E v \in Nat : latest' = [latest EXCEPT ![p] = v]
      <3>1. CASE ReadLatest(p)
        <4>1. Latest \in Nat
          BY <3>1, LatestIsLast DEF ReadLatest
        <4>2. QED
          BY <3>1, <4>1 DEF ReadLatest
      <3>2. CASE InstallSchema(p)
        BY <3>2 DEF InstallSchema
      <3>3. CASE Apply(p)
        <4>1. latest[p] + 1 \in Nat
          <5>1. latest[p] \in Nat
            BY <1>1
          <5>2. QED
            BY <5>1, NextNat
        <4>2. latest' = [latest EXCEPT ![p] = latest[p] + 1]
          BY <3>3 DEF Apply
        <4>3. QED
          BY <4>1, <4>2
      <3>4. CASE ~(ReadLatest(p) \/ InstallSchema(p) \/ Apply(p))
        <4>1. latest' = latest
          BY <3>4 DEF Start, Step, Fail, NoTable, EmptyTable, SchemaExists, Begin,
                      AlreadyApplied, Migrated
        <4>2. QED
          BY <4>1
      <3>5. QED
        BY <3>1, <3>2, <3>3, <3>4
    <2>3. QED
      BY <2>1, <2>2
  <1>10. /\ outcome' \in [Programs -> {"none", "error", "migrated"}]
         /\ \A q \in Programs \ {p} : outcome'[q] = outcome[q]
    BY DEF Start, Step, Fail, NoTable, EmptyTable, ReadLatest, InstallSchema, SchemaExists,
           Begin, Apply, AlreadyApplied, Migrated, Go, Return, TypeOK
  <1>11. failures' \in 0 .. MaxFailures
    <2>1. CASE Fail(p)
      <3>1. failures < MaxFailures /\ failures' = failures + 1
        BY <2>1 DEF Fail
      <3>2. failures \in 0 .. MaxFailures
        BY DEF TypeOK
      <3>3. QED
        BY <3>1, <3>2, OneMore
    <2>2. CASE ~Fail(p)
      <3>1. failures' = failures
        BY <2>2 DEF Start, Step, NoTable, EmptyTable, ReadLatest, InstallSchema, SchemaExists,
                    Begin, Apply, AlreadyApplied, Migrated
      <3>2. QED
        BY <3>1 DEF TypeOK
    <2>3. QED
      BY <2>1, <2>2
  <1>12. Working(p)'
    <2>1. CASE ReadLatest(p)
      <3>1. latest'[p] = Latest /\ step'[p] = "migrating" /\ schema' /\ applied' = applied
        BY <2>1 DEF ReadLatest, Go, database, TypeOK
      <3>2. 1 .. Latest \subseteq applied
        BY <2>1, LatestIsLast DEF ReadLatest
      <3>3. QED
        BY <3>1, <3>2 DEF Working
    <2>2. CASE InstallSchema(p)
      <3>1. latest'[p] = 0 /\ step'[p] = "migrating" /\ schema'
        BY <2>2 DEF InstallSchema, Go, TypeOK
      <3>2. 1 .. 0 = {}
        OBVIOUS
      <3>3. QED
        BY <3>1, <3>2 DEF Working
    <2>3. CASE Begin(p)
      <3>1. /\ latest'[p] = latest[p] /\ step[p] = "migrating" /\ step'[p] = "in transaction"
            /\ latest[p] + 1 \in Files(p) /\ applied' = applied
        BY <2>3 DEF Begin, Go, database, TypeOK
      <3>2. QED
        BY <3>1, <1>1, <1>4 DEF Working, Files
    <2>4. CASE Apply(p)
      <3>1. /\ latest'[p] = latest[p] + 1 /\ step[p] = "in transaction"
            /\ step'[p] = "migrating" /\ applied' = applied \cup {latest[p] + 1}
        BY <2>4 DEF Apply, Go, TypeOK
      <3>2. 1 .. (latest[p] + 1) \subseteq applied \cup {latest[p] + 1}
        BY <3>1, <1>1, NextNumber DEF Working
      <3>3. QED
        BY <3>1, <3>2, <1>1, <1>4 DEF Working
    <2>5. CASE step'[p] \in {"out", "reading", "installing"}
      BY <2>5 DEF Working
    <2>6. QED
      BY <2>1, <2>2, <2>3, <2>4, <2>5
      DEF Start, Step, Fail, NoTable, EmptyTable, SchemaExists, AlreadyApplied, Migrated,
          Go, Return, TypeOK
  <1>13. ASSUME NEW q \in Programs, q # p
         PROVE  Working(q)'
    <2>1. Working(q) /\ step'[q] = step[q] /\ latest'[q] = latest[q]
      BY <1>13, <1>8, <1>9
    <2>2. QED
      BY <2>1, <1>3, <1>4 DEF Working, Files
  <1>14. outcome'[p] = "migrated" => Files(p) \subseteq applied'
    <2>1. CASE Migrated(p)
      <3>1. step[p] = "migrating" /\ latest[p] + 1 \notin 1 .. Version[p]
        BY <2>1 DEF Migrated, Return, Go, Files
      <3>2. Version[p] \in Nat \ {0}
        OBVIOUS
      <3>3. 1 .. Version[p] \subseteq 1 .. latest[p]
        BY <3>1, <3>2, <1>1, BeyondLast
      <3>4. Files(p) \subseteq 1 .. latest[p]
        BY <3>3 DEF Files
      <3>5. QED
        BY <3>1, <3>4, <1>1, <1>3 DEF Working
    <2>2. CASE outcome'[p] # "migrated"
      BY <2>2
    <2>3. CASE outcome'[p] = outcome[p]
      BY <2>3, <1>3
    <2>4. QED
      BY <2>1, <2>2, <2>3
      DEF Start, Step, Fail, NoTable, EmptyTable, ReadLatest, InstallSchema, SchemaExists,
          Begin, Apply, AlreadyApplied, Return, TypeOK
  <1>15. ASSUME NEW q \in Programs, q # p
         PROVE  outcome'[q] = "migrated" => Files(q) \subseteq applied'
    BY <1>15, <1>10, <1>3
  <1>16. TypeOK'
    BY <1>5, <1>7, <1>8, <1>9, <1>10, <1>11 DEF TypeOK, Files
  <1>17. (\A q \in Programs : Working(q))'
    BY <1>12, <1>13
  <1>18. (\A q \in Programs : outcome[q] = "migrated" => Files(q) \subseteq applied)'
    BY <1>14, <1>15 DEF Files
  <1>19. QED
    BY <1>6, <1>16, <1>17, <1>18

LEMMA Invariance == Spec => []MigratorInv
  <1>1. ASSUME MigratorInv, UNCHANGED migrateVars PROVE MigratorInv'
    <2>1. /\ schema' = schema /\ applied' = applied /\ step' = step /\ latest' = latest
          /\ outcome' = outcome /\ failures' = failures
      BY <1>1 DEF migrateVars, database
    <2>2. TypeOK'
      BY <1>1, <2>1 DEF MigratorInv, TypeOK, Files
    <2>3. Prefix' /\ \A p \in Programs : Working(p)'
      BY <1>1, <2>1 DEF MigratorInv, Prefix, Working, Files
    <2>4. QED
      BY <1>1, <2>1, <2>2, <2>3 DEF MigratorInv, Files
  <1>2. MigratorInv /\ Next => MigratorInv'
    BY StepInv DEF Next
  <1>3. QED
    BY InitInv, <1>1, <1>2, PTL DEF Spec

LEMMA InvInFull == MigratorInv => AppliedInFull
  <1> SUFFICES ASSUME MigratorInv PROVE AppliedInFull
    OBVIOUS
  <1>1. PICK n \in Nat : applied = 1 .. n
    BY DEF MigratorInv, Prefix
  <1>2. \A m \in applied : 1 .. m \subseteq applied
    BY <1>1
  <1>3. QED
    BY <1>2 DEF AppliedInFull, MigratorInv

\* The table and the programs are type correct: nothing is recorded without the
\* table, nor by a number that no program has a file for.
THEOREM MigratorTypeCorrect == Spec => []TypeOK
  <1>1. MigratorInv => TypeOK
    BY DEF MigratorInv
  <1>2. QED
    BY Invariance, <1>1, PTL

\* Migrations are applied in order and without gaps, and Migrate returns nil only
\* when all the migrations its program knows are applied.
THEOREM MigrationsInFull == Spec => []AppliedInFull
  BY Invariance, InvInFull, PTL

\* The table is written one row at a time, in the order of the numbers: what a
\* step commits is the number after the last one there, or nothing.
AppliesNext ==
  applied' = applied \/ \E n \in Nat : applied = 1 .. n /\ applied' = 1 .. (n + 1)

LEMMA AddsNext ==
  ASSUME Prefix, NEW k \in Nat, 1 .. k \subseteq applied, applied' = applied \cup {k + 1}
  PROVE  AppliesNext
  <1>1. PICK n \in Nat : applied = 1 .. n
    BY DEF Prefix
  <1>2. k <= n
    <2>1. k # 0 => k \in 1 .. k
      OBVIOUS
    <2>2. QED
      BY <1>1, <2>1
  <1>3. CASE k = n
    <2>1. applied' = 1 .. (n + 1)
      BY <1>1, <1>3
    <2>2. QED
      BY <1>1, <2>1 DEF AppliesNext
  <1>4. CASE k < n
    <2>1. k + 1 \in applied
      BY <1>1, <1>4
    <2>2. QED
      BY <2>1 DEF AppliesNext
  <1>5. QED
    BY <1>2, <1>3, <1>4

\* Programs that race, lose the answer to a commit and are started again write the
\* migrations as one program would that is never interrupted: no number twice,
\* none passed over, none taken back.
THEOREM HistoryIsSerial == Spec => [][AppliesNext]_migrateVars
  <1>1. MigratorInv /\ [Next]_migrateVars => [AppliesNext]_migrateVars
    <2> SUFFICES ASSUME MigratorInv, NEW p \in Programs, Start(p) \/ Step(p) \/ Fail(p)
                 PROVE  AppliesNext
      BY DEF Next
    <2>1. \/ applied' = applied
          \/ step[p] = "in transaction" /\ applied' = applied \cup {latest[p] + 1}
      BY DEF Start, Step, Fail, NoTable, EmptyTable, ReadLatest, InstallSchema, SchemaExists,
             Begin, Apply, AlreadyApplied, Migrated, Go, Return, database
    <2>2. Prefix /\ latest[p] \in Nat /\ Working(p)
      BY DEF MigratorInv, TypeOK
    <2>3. CASE applied' = applied
      BY <2>3 DEF AppliesNext
    <2>4. CASE step[p] = "in transaction" /\ applied' = applied \cup {latest[p] + 1}
      BY <2>2, <2>4, AddsNext DEF Working
    <2>5. QED
      BY <2>1, <2>3, <2>4
  <1>2. QED
    BY Invariance, <1>1, PTL DEF Spec

\* The schema is installed, no migration is recorded, and no program is past the
\* reading of the table.
LeftEmpty ==
  /\ schema = TRUE /\ applied = {}
  /\ \A p \in Programs : step[p] \in {"out", "reading", "installing"}

\* A schema that a failure has left without its first migration stays so, and no
\* program ever migrates it, however often programs are started again: the scan
\* of the empty table is an error (migrator.go, getLatestMigration).
THEOREM EmptyTableIsForGood ==
  Spec => [](LeftEmpty => [](LeftEmpty /\ \A p \in Programs : outcome[p] # "migrated"))
  <1>1. LeftEmpty /\ [Next]_migrateVars => LeftEmpty'
    <2>1. CASE UNCHANGED migrateVars
      BY <2>1 DEF LeftEmpty, migrateVars, database
    <2>2. ASSUME LeftEmpty, NEW p \in Programs, Start(p) \/ Step(p) \/ Fail(p)
          PROVE  LeftEmpty'
      <3>1. schema' = TRUE /\ applied' = {}
        BY <2>2 DEF LeftEmpty, Start, Step, Fail, NoTable, EmptyTable, ReadLatest,
                    InstallSchema, SchemaExists, Begin, Apply, AlreadyApplied, Migrated, Go,
                    Return, database
      <3>2. PICK to \in {"out", "reading", "installing"} : step' = [step EXCEPT ![p] = to]
        BY <2>2 DEF LeftEmpty, Start, Step, Fail, NoTable, EmptyTable, ReadLatest,
                    InstallSchema, SchemaExists, Begin, Apply, AlreadyApplied, Migrated, Go,
                    Return
      <3>3. \A q \in Programs : step'[q] \in {step[q], to}
        BY <3>2
      <3>4. QED
        BY <2>2, <3>1, <3>3 DEF LeftEmpty
    <2>3. QED
      BY <2>1, <2>2 DEF Next
  <1>2. MigratorInv /\ LeftEmpty => \A p \in Programs : outcome[p] # "migrated"
    <2>1. \A p \in Programs : 1 \in Files(p)
      BY DEF Files
    <2>2. QED
      BY <2>1 DEF MigratorInv, LeftEmpty
  <1>3. QED
    BY Invariance, <1>1, <1>2, PTL DEF Spec
===============================================================================

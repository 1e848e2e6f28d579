------------------------------ MODULE Migrations ------------------------------
(***************************************************************************)
(* The schema migration runner (migrate.py).  Each image carries the       *)
(* migrations 1..n; any number of runners, of any images, start at any     *)
(* time on one database, and each may stop between any two statements.     *)
(***************************************************************************)
EXTENDS Integers, Sequences, FiniteSets

CONSTANTS
    Runners,
    Checksums,
    Images      \* each the checksums of the migrations of one image, in order

ASSUME ImagesAreMigrations ==
    Images \subseteq {i \in Seq(Checksums) : Len(i) > 0}

VARIABLES
    ledger,     \* docplane.schema_migrations: set of <<ordinal, checksum>>
    schema,     \* the migrations whose SQL is committed, in the order of commits
    runners     \* runner -> its stage, its image and the ordinals it has pending

migrationVars == <<ledger, schema, runners>>

NotRunning == [stage |-> "idle"]
RunnerAt(stage, image, pending) == [stage |-> stage, image |-> image, pending |-> pending]

MigrationsInit ==
    /\ ledger = {} /\ schema = <<>>
    /\ runners = [r \in Runners |-> NotRunning]

Ordinals(history) == {e[1] : e \in history}

\* Mutant: the checksums are not compared.
AgreesInOrdinals(image, history) ==
    \E n \in 0..Cardinality(history) : Ordinals(history) = 1..n

\* verify_history: what is known agrees, what is beyond the image is tolerated,
\* and no ordinal is missing below the last.
Agrees(image, history) ==
    /\ \A e \in history : e[1] <= Len(image) => image[e[1]] = e[2]
    /\ \E n \in 0..Cardinality(history) : Ordinals(history) = 1..n

\* Start, ensure_ledger and applied: the history is read once, without a lock.
StartRunner(r, image) ==
    /\ runners[r].stage # "running" /\ runners[r].stage # "locked"
    /\ runners' = [runners EXCEPT ![r] =
          IF Agrees(image, ledger)
          THEN RunnerAt("running", image, (1..Len(image)) \ Ordinals(ledger))
          ELSE RunnerAt("refused", image, {})]
    /\ UNCHANGED <<ledger, schema>>

\* Mutant: the pending migrations are taken from the end.
LastOf(pending) == CHOOSE o \in pending : \A p \in pending : o >= p

First(pending) == CHOOSE o \in pending : \A p \in pending : o <= p
LockTaken == \E r \in Runners : runners[r].stage = "locked"

\* Mutant: the row is not read again under the lock.
LockWithoutReading(r) ==
    /\ runners[r].stage = "running" /\ runners[r].pending # {}
    /\ ~LockTaken
    /\ runners' = [runners EXCEPT ![r].stage = "locked"]
    /\ UNCHANGED <<ledger, schema>>

\* The advisory lock, and the row of this ordinal read again under it.
LockMigration(r) ==
    LET runner == runners[r]
        o == First(runner.pending)
    IN  /\ runner.stage = "running" /\ runner.pending # {}
        /\ ~LockTaken
        /\ runners' = [runners EXCEPT ![r] =
              IF <<o, runner.image[o]>> \in ledger
              THEN RunnerAt("running", runner.image, runner.pending \ {o})
              ELSE IF o \in Ordinals(ledger)
                   THEN RunnerAt("refused", runner.image, {})
                   ELSE RunnerAt("locked", runner.image, runner.pending)]
        /\ UNCHANGED <<ledger, schema>>

\* The SQL and the row of the ledger, which has the ordinal for its key, commit
\* together.
CommitMigration(r) ==
    LET runner == runners[r]
        o == First(runner.pending)
        entry == <<o, runner.image[o]>>
    IN  /\ runner.stage = "locked"
        /\ IF o \in Ordinals(ledger)
           THEN /\ runners' = [runners EXCEPT ![r] = RunnerAt("refused", runner.image, {})]
                /\ UNCHANGED <<ledger, schema>>
           ELSE /\ ledger' = ledger \cup {entry}
                /\ schema' = Append(schema, entry)
                /\ runners' = [runners EXCEPT ![r] =
                      RunnerAt("running", runner.image, runner.pending \ {o})]

EndRunner(r) ==
    /\ runners[r].stage = "running" /\ runners[r].pending = {}
    /\ runners' = [runners EXCEPT ![r] = RunnerAt("applied", runners[r].image, {})]
    /\ UNCHANGED <<ledger, schema>>

\* The SQL fails, or the process stops: the transaction is undone and the runner
\* goes no further.
StopRunner(r) ==
    /\ runners[r].stage \in {"running", "locked"}
    /\ runners' = [runners EXCEPT ![r] = NotRunning]
    /\ UNCHANGED <<ledger, schema>>

MigrationsNext ==
    \/ \E r \in Runners, image \in Images : StartRunner(r, image)
    \/ \E r \in Runners : LockMigration(r)
    \/ \E r \in Runners : CommitMigration(r)
    \/ \E r \in Runners : EndRunner(r)
    \/ \E r \in Runners : StopRunner(r)

MigrationsSpec == MigrationsInit /\ [][MigrationsNext]_migrationVars

-----------------------------------------------------------------------------
(* Properties *)

MigrationsTypeOK ==
    /\ ledger \subseteq (Nat \ {0}) \X Checksums
    /\ schema \in Seq((Nat \ {0}) \X Checksums)
    /\ \A r \in Runners :
        /\ runners[r].stage \in {"idle", "running", "locked", "applied", "refused"}
        /\ runners[r].stage # "idle" => runners[r].image \in Images

\* The schema is what the ledger says, each migration ran once and in strict
\* ordinal order, whatever runners started, raced and stopped (apply_pending).
StrictOrdinalOrder ==
    /\ \A o \in 1..Len(schema) : schema[o][1] = o
    /\ ledger = {schema[o] : o \in 1..Len(schema)}

\* A runner that ended well left the whole of its own image in the database, and
\* no part of another in its place (main "apply").
AppliedIsWhole ==
    \A r \in Runners : runners[r].stage = "applied" =>
        \A o \in 1..Len(runners[r].image) : <<o, runners[r].image[o]>> \in ledger

\* A runner is refused for a divergence only: never because another runner of an
\* agreeing image, older, newer or the same, was at work (verify_history, and
\* the lock of apply_pending).
OnlyDivergenceRefused ==
    \A r \in Runners : runners[r].stage = "refused" => ~Agrees(runners[r].image, ledger)

\* The database has the migrations of its ledger in their order, of one lineage, and
\* each runner that ends or is refused was right to.
MigrationsSafe ==
    /\ MigrationsTypeOK /\ StrictOrdinalOrder /\ AppliedIsWhole
    /\ OnlyDivergenceRefused
=============================================================================

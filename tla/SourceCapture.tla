---------------------------- MODULE SourceCapture ----------------------------
(***************************************************************************)
(* One capture of a source database and its migration ledger               *)
(* (schema_catalogue_capture) against the migrations of that database,     *)
(* which are external: the runner holds an advisory lock over the commit   *)
(* of its DDL and the commit of its ledger row; another writer may commit  *)
(* both at once without the lock.                                          *)
(***************************************************************************)
EXTENDS Integers

CONSTANTS
    MaxMigrations,      \* bound of the model on the migrations of the source
    CaptureAttempts     \* `attempts`

ASSUME CaptureBounds ==
    MaxMigrations \in Nat /\ CaptureAttempts \in Nat \ {0}

VARIABLES
    ddl,            \* the structure of the source, by the last DDL committed
    ledgerRows,     \* rows of its migration ledger
    readable,       \* whether the source role may read the ledger
    migrator,       \* the stage of the runner
    torn,           \* whether a runner has stopped between its two commits
    settled,        \* history: <<ddl, ledgerRows>> with no migration under way
    capture         \* the capture: its stage, attempt and what it has read

sourceVars == <<ddl, ledgerRows, readable, migrator, torn, settled,
                capture>>

CaptureIdle == [stage |-> "idle", attempt |-> 0]

SourceInit ==
    /\ ddl = 0 /\ ledgerRows = 0 /\ readable \in BOOLEAN
    /\ migrator = "idle" /\ torn = FALSE /\ settled = {<<0, 0>>}
    /\ capture = CaptureIdle

HasSharedLock == capture.stage \in {"locked", "ledger", "snapshot", "structure", "read"}

BeginMigration ==
    /\ migrator = "idle" /\ ~HasSharedLock
    /\ ledgerRows < MaxMigrations /\ ddl < MaxMigrations
    /\ migrator' = "locked"
    /\ UNCHANGED <<ddl, ledgerRows, readable, torn, settled, capture>>

\* A data migration leaves the structure as it is.
CommitDdl ==
    /\ migrator = "locked"
    /\ ddl' \in {ddl, ddl + 1}
    /\ migrator' = "changed"
    /\ UNCHANGED <<ledgerRows, readable, torn, settled, capture>>

RecordRow ==
    /\ migrator = "changed"
    /\ ledgerRows' = ledgerRows + 1
    /\ migrator' = "idle"
    /\ settled' = settled \cup {<<ddl, ledgerRows + 1>>}
    /\ UNCHANGED <<ddl, readable, torn, capture>>

StopRunnerOfSource ==
    /\ migrator # "idle"
    /\ migrator' = "idle"
    /\ torn' = (torn \/ (migrator = "changed" /\ <<ddl, ledgerRows>> \notin settled))
    /\ UNCHANGED <<ddl, ledgerRows, readable, settled, capture>>

BypassLock ==
    /\ migrator = "idle" /\ ledgerRows < MaxMigrations /\ ddl < MaxMigrations
    /\ ddl' = ddl + 1 /\ ledgerRows' = ledgerRows + 1
    /\ settled' = settled \cup {<<ddl + 1, ledgerRows + 1>>}
    /\ UNCHANGED <<readable, migrator, torn, capture>>

\* identity(capture_ledger(...)): the rows, or that they cannot be read.
LedgerIdentity == IF readable THEN ledgerRows ELSE -1

\* _acquire_shared_lock, polled until it is free or the wait is spent.
AcquireSharedLock ==
    /\ capture.stage \in {"idle", "retry"}
    /\ capture' = IF migrator = "idle"
                  THEN [stage |-> "locked", attempt |-> capture.attempt + 1]
                  ELSE [stage |-> "refused", attempt |-> capture.attempt]
    /\ UNCHANGED <<ddl, ledgerRows, readable, migrator, torn, settled>>

ReadBefore ==
    /\ capture.stage = "locked"
    /\ capture' = [stage |-> "ledger", attempt |-> capture.attempt, before |-> LedgerIdentity]
    /\ UNCHANGED <<ddl, ledgerRows, readable, migrator, torn, settled>>

\* One REPEATABLE READ snapshot gives the catalogue tables and the ledger ...
OpenSnapshot ==
    /\ capture.stage = "ledger"
    /\ capture' = [stage |-> "snapshot", attempt |-> capture.attempt, before |-> capture.before,
                   tables |-> ddl, during |-> LedgerIdentity]
    /\ UNCHANGED <<ddl, ledgerRows, readable, migrator, torn, settled>>

\* ... but pg_get_*def answers from the system cache, outside the snapshot.
ReadDefinitions ==
    /\ capture.stage = "snapshot"
    /\ capture' = [stage |-> "structure", attempt |-> capture.attempt, before |-> capture.before,
                   tables |-> capture.tables, during |-> capture.during, definitions |-> ddl]
    /\ UNCHANGED <<ddl, ledgerRows, readable, migrator, torn, settled>>

ReadAfter ==
    /\ capture.stage = "structure"
    /\ capture' = [stage |-> "read", attempt |-> capture.attempt, before |-> capture.before,
                   tables |-> capture.tables, during |-> capture.during,
                   definitions |-> capture.definitions, after |-> LedgerIdentity]
    /\ UNCHANGED <<ddl, ledgerRows, readable, migrator, torn, settled>>

\* Mutant: the ledger is not read again after the structure.
SameLedgerBefore(c) == c.before = c.during

SameLedger(c) == c.before = c.during /\ c.during = c.after
\* capture_info: a ledger that is UNAVAILABLE or EMPTY certifies nothing.
Consistent(c) == c.during > 0

\* The lock is released; the capture is accepted, tried again, or refused.
CompareLedgers ==
    /\ capture.stage = "read"
    /\ capture' =
          IF SameLedger(capture)
          THEN [stage |-> "accepted", attempt |-> capture.attempt, tables |-> capture.tables,
                definitions |-> capture.definitions, during |-> capture.during,
                consistent |-> Consistent(capture)]
          ELSE [stage |-> IF capture.attempt < CaptureAttempts THEN "retry" ELSE "refused",
                attempt |-> capture.attempt]
    /\ UNCHANGED <<ddl, ledgerRows, readable, migrator, torn, settled>>

\* The next run, or the end of a session, which releases the lock.
EndCapture ==
    /\ capture.stage # "idle"
    /\ capture' = CaptureIdle
    /\ UNCHANGED <<ddl, ledgerRows, readable, migrator, torn, settled>>

SourceNext ==
    \/ BeginMigration \/ CommitDdl \/ RecordRow \/ StopRunnerOfSource \/ BypassLock
    \/ AcquireSharedLock \/ ReadBefore \/ OpenSnapshot \/ ReadDefinitions \/ ReadAfter
    \/ CompareLedgers \/ EndCapture

SourceSpec == SourceInit /\ [][SourceNext]_sourceVars

-----------------------------------------------------------------------------
(* Properties *)

SourceTypeOK ==
    /\ ddl \in 0..MaxMigrations /\ ledgerRows \in 0..MaxMigrations
    /\ readable \in BOOLEAN /\ torn \in BOOLEAN /\ migrator \in {"idle", "locked", "changed"}
    /\ settled \subseteq (0..MaxMigrations) \X (0..MaxMigrations)
    /\ capture.stage \in {"idle", "locked", "ledger", "snapshot", "structure", "read",
                          "retry", "accepted", "refused"}
    /\ capture.attempt \in 0..CaptureAttempts

\* "Structure from one database state must never be published with ledger evidence
\* from another": what a capture certifies is one structure, and a pair the source
\* had with no migration under way (the header of schema_catalogue_capture), as
\* long as no runner has stopped between its two commits.
CertifiedPair ==
    capture.stage = "accepted" /\ capture.consistent /\ ~torn =>
        /\ capture.tables = capture.definitions
        /\ <<capture.tables, capture.during>> \in settled

\* A certified capture is of a state the source had with its own ledger.
SourceSafe == SourceTypeOK /\ CertifiedPair

\* The same when a runner has stopped there.  The code does not have it: the end
\* of its session releases the lock, with the new structure over the old ledger.
CertifiedAfterStop ==
    capture.stage = "accepted" /\ capture.consistent =>
        <<capture.tables, capture.during>> \in settled
=============================================================================

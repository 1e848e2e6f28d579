------------------------------ MODULE Coverage ------------------------------
(***************************************************************************)
(* The coverage gaps of the monitoring rules and the WORK items projected  *)
(* from them (observe_api).  The importer (scripts/meter_list.py) moves    *)
(* the rules, records its evidence and then asks for a reconciliation, in  *)
(* calls of their own, under a key of the rule set; any contributor may    *)
(* ask for one under a key of its own.                                     *)
(***************************************************************************)
EXTENDS Requests, Integers, FiniteSets

CONSTANTS
    Gaps,               \* <<gap kind, rule>>
    GapPages,           \* what a gap says: the page of its rule
    BatchLimit,         \* new items one reconciliation may create
    MaxRuleVersions     \* bound of the model

ASSUME NoneIsNoPage == None \notin GapPages
ASSUME CoverageBounds == BatchLimit \in Nat \ {0} /\ MaxRuleVersions \in Nat

VARIABLES
    gaps,           \* the gaps of the rules as imported: gap -> page, or None
    ruleVersion,    \* the rule set, which never returns to an earlier one
    imported,       \* the rule set of the last GENERATION evidence
    gapItems,       \* work.coverage_gap_items: gap -> row or None
    gapReceipts,    \* the rule sets whose key has a receipt
    importing,      \* the stage of the importer
    skipped         \* history: the rule sets imported and not reconciled

coverageVars == <<gaps, ruleVersion, imported, gapItems, gapReceipts, importing, skipped>>

Unseen == {g \in Gaps : gaps[g] # None /\ gapItems[g] = None}
OpenItems == {g \in Gaps : gapItems[g] # None /\ gapItems[g].status = "OPEN"}

CoverageInit ==
    /\ gaps = [g \in Gaps |-> None]
    /\ ruleVersion = 0 /\ imported = 0
    /\ gapItems = [g \in Gaps |-> None]
    /\ gapReceipts = {}
    /\ importing = "idle"
    /\ skipped = {}

\* The rule files change, and the next run reconciles the rules of the model.
ImportRules ==
    /\ importing = "idle"
    /\ ruleVersion < MaxRuleVersions
    /\ ruleVersion' = ruleVersion + 1
    /\ gaps' \in [Gaps -> GapPages \cup {None}]
    /\ importing' = "observe"
    /\ UNCHANGED <<imported, gapItems, gapReceipts, skipped>>

\* A run that finds the rules of an import that was stopped before its evidence.
ResumeImport ==
    /\ importing = "idle" /\ imported # ruleVersion
    /\ importing' = "observe"
    /\ UNCHANGED <<gaps, ruleVersion, imported, gapItems, gapReceipts, skipped>>

ObserveImport ==
    /\ importing = "observe"
    /\ imported' = ruleVersion
    /\ importing' = "gaps"
    /\ UNCHANGED <<gaps, ruleVersion, gapItems, gapReceipts, skipped>>

\* should_reconcile_gap_work: a run without changes asks if it is told to.
ReconcileExplicitly ==
    /\ importing = "idle" /\ imported = ruleVersion /\ ruleVersion > 0
    /\ importing' = "gaps"
    /\ UNCHANGED <<gaps, ruleVersion, imported, gapItems, gapReceipts, skipped>>

\* Mutant: an item that is resolved stays so.
ProjectedOnce(created) ==
    [g \in Gaps |->
        IF gapItems[g] = None
        THEN IF g \in created THEN [status |-> "OPEN", page |-> gaps[g]] ELSE None
        ELSE IF gaps[g] = None THEN [gapItems[g] EXCEPT !.status = "RESOLVED"]
        ELSE [gapItems[g] EXCEPT !.page = gaps[g]]]

\* plan_gap_reconciliation: known gaps are reopened, refreshed and resolved
\* whatever the limit is; it holds for the new ones.
Projected(created) ==
    [g \in Gaps |->
        IF gapItems[g] = None
        THEN IF g \in created THEN [status |-> "OPEN", page |-> gaps[g]] ELSE None
        ELSE IF gaps[g] = None THEN [gapItems[g] EXCEPT !.status = "RESOLVED"]
        ELSE [status |-> "OPEN", page |-> gaps[g]]]

Batch(created) ==
    /\ created \subseteq Unseen
    /\ \/ Cardinality(created) = BatchLimit
       \/ created = Unseen /\ Cardinality(created) < BatchLimit

\* reconcile_coverage_work, asked by the importer: a key that has a receipt is
\* answered from it.
ReconcileGaps ==
    /\ importing = "gaps"
    /\ IF ruleVersion \in gapReceipts THEN UNCHANGED gapItems
       ELSE \E created \in SUBSET Unseen : Batch(created) /\ gapItems' = Projected(created)
    /\ gapReceipts' = gapReceipts \cup {ruleVersion}
    /\ importing' = "idle"
    /\ UNCHANGED <<gaps, ruleVersion, imported, skipped>>

\* The same, asked under a fresh key, at any time.
ReconcileFresh ==
    /\ \E created \in SUBSET Unseen : Batch(created) /\ gapItems' = Projected(created)
    /\ UNCHANGED <<gaps, ruleVersion, imported, gapReceipts, importing, skipped>>

StopImport ==
    /\ importing # "idle"
    /\ importing' = "idle"
    /\ skipped' = IF importing = "gaps" THEN skipped \cup {ruleVersion} ELSE skipped
    /\ UNCHANGED <<gaps, ruleVersion, imported, gapItems, gapReceipts>>

CoverageNext ==
    \/ ImportRules \/ ResumeImport \/ ObserveImport \/ ReconcileExplicitly
    \/ ReconcileGaps \/ ReconcileFresh
    \/ StopImport

CoverageSpec == CoverageInit /\ [][CoverageNext]_coverageVars

-----------------------------------------------------------------------------
(* Properties *)

GapRow == [status : {"OPEN", "RESOLVED"}, page : GapPages]

CoverageTypeOK ==
    /\ gaps \in [Gaps -> GapPages \cup {None}]
    /\ ruleVersion \in 0..MaxRuleVersions /\ imported \in 0..ruleVersion
    /\ gapItems \in [Gaps -> GapRow \cup {None}]
    /\ gapReceipts \subseteq 1..MaxRuleVersions
    /\ importing \in {"idle", "observe", "gaps"}

\* Once an import has run to its end, the OPEN items are the gaps there are, but
\* for new ones beyond the batches, and say what the gaps say; runs that were
\* stopped and resumed before, and contributors who reconcile in the middle of one,
\* leave nothing behind (the docstring of plan_gap_reconciliation).
ImportedGapsAreOpen ==
    importing = "idle" /\ imported = ruleVersion /\ ruleVersion \notin skipped =>
        /\ \A g \in OpenItems : gaps[g] = gapItems[g].page
        /\ \A g \in Gaps : gaps[g] # None /\ gapItems[g] # None => g \in OpenItems

\* The projection of gaps is that of the rules once an import has ended.
CoverageSafe == CoverageTypeOK /\ ImportedGapsAreOpen

\* "Explicitly reconcile the bounded coverage-gap Work projection, even when source
\* is unchanged" (--reconcile-gaps).  The code does not have it: the key of the rule
\* set has been used by the import, and is answered from its receipt.
ExplicitRunReconciles ==
    [][importing = "gaps" /\ gapReceipts' = gapReceipts \cup {ruleVersion}
            /\ importing' = "idle" /\ Unseen # {} /\ skipped' = skipped
        => Unseen' # Unseen]_coverageVars

\* An import whose run is stopped after its evidence is reconciled by a later run.
\* The code does not have it: the later runs find nothing changed.
ImportIsReconciled ==
    importing = "idle" /\ imported = ruleVersion =>
        \A g \in OpenItems : gaps[g] # None
=============================================================================

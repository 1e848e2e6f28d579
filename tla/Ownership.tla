------------------------------ MODULE Ownership ------------------------------
(***************************************************************************)
(* Generated artifacts: which automation principal has declared which      *)
(* artifact, which pages the artifact owns, and how the publication of a   *)
(* change respects and moves that ownership (model_api, artifact_ownership,*)
(* the guard and the ownership plan of publication).                       *)
(*                                                                         *)
(* A transaction that reads something it does not lock is two actions; the *)
(* others are one.  Paths of pages, configuration and provenance of the    *)
(* generator are left out, with the refusals about them.                   *)
(***************************************************************************)
EXTENDS Requests, Integers, Sequences, FiniteSets

CONSTANTS
    Automata,           \* AUTOMATION principals
    Person,             \* any other principal
    TargetPages, ArtifactKeys,
    DeclareKeys,        \* idempotency keys of declare and handoff
    Contracts,          \* execution contracts: the set of the two owners
    MaxArtifacts, MaxArtifactVersion

ASSUME PersonIsNoAutomaton == Person \notin Automata
ASSUME NoneIsNoAutomaton == None \notin Automata \cup Nat \cup DeclareKeys
ASSUME ContractsHaveOwners ==
    Contracts \subseteq {O \in SUBSET Automata : Cardinality(O) \in 1..2}
ASSUME ArtifactBounds == {MaxArtifacts, MaxArtifactVersion} \subseteq Nat \ {0}

VARIABLES
    artifacts,      \* sequence of rows of model.generated_artifacts
    targets,        \* model.artifact_targets: page -> artifact or None
    targetPages,    \* the columns of docs.pages the guard is about
    active,         \* automata whose status is ACTIVE
    custody,        \* artifact -> the principals its events name as custodians
    declareReceipts,    \* <<principal, key>> of the receipts of declare and handoff
    owning          \* handler -> its transaction

ownershipVars == <<artifacts, targets, targetPages, active, custody,
                   declareReceipts, owning>>

NotOwning == [stage |-> "idle"]
Declared(a) == artifacts[a].status = "DECLARED"
TargetsOf(a) == {p \in TargetPages : targets[p] = a}
Archived(p) == targetPages[p].status = "archived"
Generated(p) == targetPages[p].generated

\* Mutant: rows of artifacts are read without FOR UPDATE.
ArtifactNeverLocked(a) == TRUE

\* SELECT ... FOR UPDATE of an artifact's row, until the commit.
ArtifactFree(a) ==
    \A h \in Handlers :
        owning[h].stage \in {"reconciling", "succeeding"} => owning[h].artifact # a

\* Mutant: evaluate_change does not lock the pages.
PagesNeverLocked == TRUE

\* evaluate_change locks every page, until the commit; a new target row and a
\* new provenance need the lock of their page.
PagesFree == \A h \in Handlers : owning[h].stage # "publishing"

OwnershipInit ==
    /\ artifacts = <<>>
    /\ targets = [p \in TargetPages |-> None]
    /\ targetPages = [p \in TargetPages |->
                         [status |-> "active", generated |-> FALSE]]
    /\ active = Automata
    /\ custody = <<>>
    /\ declareReceipts = {}
    /\ owning = [h \in Handlers |-> NotOwning]

-----------------------------------------------------------------------------
(* The effects the transactions share *)


\* _validate_execution_contract_owners
OwnersValid(O) == O \subseteq active

\* The contract and its health (_execution_contract).
ContractStatus(a) ==
    IF artifacts[a].contract = {} THEN "UNDECLARED_TRANSITIONAL"
    ELSE IF artifacts[a].contract \subseteq active THEN "DECLARED"
    ELSE "OWNER_INACTIVE"

NewArtifact(key, by, k, contract) ==
    [key |-> key, status |-> "DECLARED", declaredBy |-> by, requestKey |-> k,
     contract |-> contract, version |-> 1, predecessor |-> None]

\* Mutant: a page that becomes a target keeps its provenance.
AdoptUnmarked(P) == targetPages

Adopt(P) == [p \in TargetPages |->
                IF p \in P THEN [targetPages[p] EXCEPT !.generated = TRUE]
                           ELSE targetPages[p]]

\* _validate_custody
Custodian(a, by, version) ==
    /\ Declared(a)
    /\ artifacts[a].declaredBy = by
    /\ artifacts[a].version = version

\* _validate_conflicts
NoConflict(a, D) == \A p \in D : targets[p] \in {None, a}

\* _validate_removals_archived
RemovalsArchived(a, D) == \A p \in TargetsOf(a) \ D : Archived(p)

\* The rows that reconcile_targets and handoff_targets leave: owner of D.
Retarget(from, to, D) ==
    [p \in TargetPages |-> IF p \in D THEN to
                           ELSE IF targets[p] = from THEN None ELSE targets[p]]

\* UNIQUE (page_resource_id), UNIQUE (declared_by, idempotency_key)
Unowned(P) == \A p \in P : targets[p] = None
HoldersOf(by, k) ==
    {a \in DOMAIN artifacts :
        artifacts[a].declaredBy = by /\ artifacts[a].requestKey = k}

\* Mutant: the predecessor is not retired.
SucceedDeclared(a, D, k) ==
    LET row == [artifacts[a] EXCEPT !.requestKey = k, !.version = 1,
                                    !.predecessor = a]
    IN  /\ artifacts' = Append([artifacts EXCEPT ![a].version = @ + 1], row)
        /\ targets' = Retarget(a, Len(artifacts) + 1, D)
        /\ custody' = Append(custody, {row.declaredBy})

\* Mutant: the execution contract is not copied.
SucceedBare(a, D, k) ==
    LET row == [artifacts[a] EXCEPT !.requestKey = k, !.version = 1,
                                    !.predecessor = a, !.contract = {}]
    IN  /\ artifacts' = Append([artifacts EXCEPT ![a].status = "RETIRED",
                                                 ![a].version = @ + 1], row)
        /\ targets' = Retarget(a, Len(artifacts) + 1, D)
        /\ custody' = Append(custody, {row.declaredBy})

\* handoff_targets, in what its caller commits: by None for a plan's key.
Succeed(a, D, k) ==
    LET row == [artifacts[a] EXCEPT !.requestKey = k, !.version = 1,
                                    !.predecessor = a]
    IN  /\ artifacts' = Append([artifacts EXCEPT ![a].status = "RETIRED",
                                                 ![a].version = @ + 1], row)
        /\ targets' = Retarget(a, Len(artifacts) + 1, D)
        /\ custody' = Append(custody, {row.declaredBy})

Reconcile(a, D) ==
    /\ artifacts' = [artifacts EXCEPT ![a].version = @ + 1]
    /\ targets' = Retarget(a, a, D)
    /\ UNCHANGED custody

\* load_receipt finds nothing under the advisory lock of principal and key.
KeyFresh(by, k) ==
    /\ <<by, k>> \notin declareReceipts
    /\ \A h \in Handlers :
        owning[h].stage = "succeeding" =>
            <<artifacts[owning[h].artifact].declaredBy, owning[h].key>> # <<by, k>>

\* A bound of the model; a succession begins again at 1.
Roomy(a) == artifacts[a].version < MaxArtifactVersion

-----------------------------------------------------------------------------
(* declare_artifact *)

\* ON CONFLICT (declared_by, idempotency_key) answers with the row that has
\* the key, whatever it says; the targets are added to that row.
DeclareArtifact(by, k, key, P, contract) ==
    LET held == HoldersOf(by, k)
        a == IF held = {} THEN Len(artifacts) + 1 ELSE CHOOSE x \in held : TRUE
    IN  /\ by \in active
        /\ KeyFresh(by, k)
        /\ contract \in Contracts => OwnersValid(contract)
        /\ P # {} => PagesFree
        /\ \A p \in P : targets[p] \in {None, a}
        /\ IF held = {}
           THEN /\ Len(artifacts) < MaxArtifacts
                /\ \A b \in DOMAIN artifacts : Declared(b) => artifacts[b].key # key
                /\ artifacts' = Append(artifacts, NewArtifact(key, by, k, contract))
                /\ custody' = Append(custody, {by})
           ELSE /\ ArtifactFree(a)
                /\ artifacts' = IF contract = {} THEN artifacts
                                ELSE [artifacts EXCEPT ![a].contract = contract]
                /\ UNCHANGED custody
        /\ targets' = [p \in TargetPages |-> IF p \in P THEN a ELSE targets[p]]
        /\ targetPages' = Adopt(P)
        /\ declareReceipts' = declareReceipts \cup {<<by, k>>}
        /\ UNCHANGED <<active, owning>>

-----------------------------------------------------------------------------
(* reconcile_artifact_targets and handoff_artifact *)

CheckTargets(h, a, by, D, stage, k) ==
    /\ owning[h] = NotOwning
    /\ ArtifactFree(a) /\ by \in active
    /\ Custodian(a, by, artifacts[a].version)
    /\ NoConflict(a, D) /\ RemovalsArchived(a, D)
    /\ stage = "reconciling" => Roomy(a)
    /\ stage = "succeeding" => KeyFresh(by, k)
    /\ owning' = [owning EXCEPT ![h] = [stage |-> stage, artifact |-> a,
                                        desired |-> D, key |-> k]]
    /\ UNCHANGED <<artifacts, targets, targetPages, active, custody, declareReceipts>>

\* The rows are written and committed, unless a page was taken meanwhile.
WriteTargets(h) ==
    LET a == owning[h].artifact
        D == owning[h].desired
        added == D \ TargetsOf(a)
    IN  /\ owning[h].stage \in {"reconciling", "succeeding"}
        /\ Unowned(added) /\ (added # {} => PagesFree)
        /\ \/ /\ owning[h].stage = "reconciling"
              /\ Reconcile(a, D)
              /\ UNCHANGED declareReceipts
           \/ /\ owning[h].stage = "succeeding"
              /\ Len(artifacts) < MaxArtifacts
              /\ HoldersOf(artifacts[a].declaredBy, owning[h].key) = {}
              /\ Succeed(a, D, owning[h].key)
              /\ declareReceipts' = declareReceipts \cup
                     {<<artifacts[a].declaredBy, owning[h].key>>}
        /\ targetPages' = Adopt(added)
        /\ owning' = [owning EXCEPT ![h] = NotOwning]
        /\ UNCHANGED active

\* Any error after the checks, and the end of the connection.
AbandonOwnership(h) ==
    /\ owning[h] # NotOwning
    /\ owning' = [owning EXCEPT ![h] = NotOwning]
    /\ UNCHANGED <<artifacts, targets, targetPages, active, custody, declareReceipts>>

-----------------------------------------------------------------------------
(* The other routes on one artifact *)

UpdateExecutionContract(a, by, contract) ==
    /\ ArtifactFree(a) /\ by \in active /\ Roomy(a)
    /\ Custodian(a, by, artifacts[a].version)
    /\ OwnersValid(contract)
    /\ artifacts' = [artifacts EXCEPT ![a].contract = contract,
                                      ![a].version = @ + 1]
    /\ UNCHANGED <<targets, targetPages, active, custody, declareReceipts, owning>>

BootstrapSetContract(a, contract) ==
    /\ ArtifactFree(a) /\ Declared(a) /\ Roomy(a)
    /\ OwnersValid(contract)
    /\ artifacts' = [artifacts EXCEPT ![a].contract = contract,
                                      ![a].version = @ + 1]
    /\ UNCHANGED <<targets, targetPages, active, custody, declareReceipts, owning>>

\* A retired artifact is answered as it is.
RetireArtifact(a, by) ==
    /\ ArtifactFree(a) /\ by \in active
    /\ Custodian(a, by, artifacts[a].version)
    /\ TargetsOf(a) = {}
    /\ artifacts' = [artifacts EXCEPT ![a].status = "RETIRED", ![a].version = @ + 1]
    /\ UNCHANGED <<targets, targetPages, active, custody, declareReceipts, owning>>

\* UNIQUE (declared_by, idempotency_key) refuses a destination that has
\* declared another artifact with the same key.
ReassignCustody(a, to) ==
    /\ ArtifactFree(a) /\ Declared(a) /\ Roomy(a)
    /\ to \in active
    /\ HoldersOf(to, artifacts[a].requestKey) \subseteq {a}
    /\ artifacts' = [artifacts EXCEPT ![a].declaredBy = to, ![a].version = @ + 1]
    /\ custody' = [custody EXCEPT ![a] = @ \cup {to}]
    /\ UNCHANGED <<targets, targetPages, active, declareReceipts, owning>>

RevokeAutomaton(by) ==
    /\ active' = active \ {by}
    /\ UNCHANGED <<artifacts, targets, targetPages, custody, declareReceipts, owning>>

-----------------------------------------------------------------------------
(* Publication of a change with one operation and perhaps an ownership plan *)

\* _declaring_artifact_principal
DeclaringPrincipal(p) ==
    IF targets[p] # None /\ Declared(targets[p])
    THEN artifacts[targets[p]].declaredBy ELSE None

Plans ==
    {None}
    \cup [mode : {"IN_PLACE", "SUCCESSOR"}, artifact : DOMAIN artifacts,
          version : {artifacts[a].version : a \in DOMAIN artifacts},
          desired : SUBSET TargetPages]

\* _plan_allows_page
PlanAllows(plan, p, by) ==
    /\ plan # None
    /\ p \in plan.desired
    /\ artifacts[plan.artifact].declaredBy = by

\* generated_guard_error
GuardPasses(plan, p, by) ==
    \/ ~Generated(p)
    \/ DeclaringPrincipal(p) = by
    \/ DeclaringPrincipal(p) = None /\ PlanAllows(plan, p, by)

\* evaluate_change under the locks of all pages; to is the page's new status.
EvaluateChange(h, by, p, to, plan) ==
    /\ owning[h] = NotOwning
    /\ PagesFree
    /\ by \in active \cup {Person}
    /\ GuardPasses(plan, p, by)
    /\ owning' = [owning EXCEPT ![h] = [stage |-> "publishing", by |-> by, page |-> p,
                                        to |-> to, plan |-> plan]]
    /\ UNCHANGED <<artifacts, targets, targetPages, active, custody, declareReceipts>>

\* The page, then the plan on what the page has become, then the commit.
Publish(h) ==
    LET plan == owning[h].plan
        p == owning[h].page
        ArchivedThen(q) == IF q = p THEN owning[h].to = "archived" ELSE Archived(q)
    IN  /\ owning[h].stage = "publishing"
        /\ \/ /\ plan = None
              /\ targetPages' = [targetPages EXCEPT ![p].status = owning[h].to]
              /\ UNCHANGED <<artifacts, targets, custody>>
           \/ /\ plan # None
              /\ ArtifactFree(plan.artifact)
              /\ Custodian(plan.artifact, owning[h].by, plan.version)
              /\ NoConflict(plan.artifact, plan.desired)
              /\ \A q \in TargetsOf(plan.artifact) \ plan.desired : ArchivedThen(q)
              /\ IF plan.mode = "IN_PLACE"
                 THEN Roomy(plan.artifact) /\ Reconcile(plan.artifact, plan.desired)
                 ELSE /\ Len(artifacts) < MaxArtifacts
                      /\ Succeed(plan.artifact, plan.desired, None)
              /\ targetPages' =
                    [Adopt(plan.desired \ TargetsOf(plan.artifact)) EXCEPT
                        ![p].status = owning[h].to]
        /\ owning' = [owning EXCEPT ![h] = NotOwning]
        /\ UNCHANGED <<active, declareReceipts>>

OwnershipNext ==
    \/ \E by \in Automata, k \in DeclareKeys, key \in ArtifactKeys,
          P \in SUBSET TargetPages, c \in Contracts \cup {{}} :
            DeclareArtifact(by, k, key, P, c)
    \/ \E h \in Handlers, a \in DOMAIN artifacts, by \in Automata,
          D \in SUBSET TargetPages :
            CheckTargets(h, a, by, D, "reconciling", None)
    \/ \E h \in Handlers, a \in DOMAIN artifacts, by \in Automata,
          D \in SUBSET TargetPages, k \in DeclareKeys :
            CheckTargets(h, a, by, D, "succeeding", k)
    \/ \E h \in Handlers : WriteTargets(h)
    \/ \E h \in Handlers : AbandonOwnership(h)
    \/ \E a \in DOMAIN artifacts, by \in Automata, c \in Contracts :
            UpdateExecutionContract(a, by, c)
    \/ \E a \in DOMAIN artifacts, c \in Contracts : BootstrapSetContract(a, c)
    \/ \E a \in DOMAIN artifacts, by \in Automata : RetireArtifact(a, by)
    \/ \E a \in DOMAIN artifacts, to \in Automata : ReassignCustody(a, to)
    \/ \E by \in Automata : RevokeAutomaton(by)
    \/ \E h \in Handlers, by \in Automata \cup {Person}, p \in TargetPages,
          to \in {"active", "archived"}, plan \in Plans :
            EvaluateChange(h, by, p, to, plan)
    \/ \E h \in Handlers : Publish(h)

OwnershipSpec == OwnershipInit /\ [][OwnershipNext]_ownershipVars

-----------------------------------------------------------------------------
(* Properties *)

ArtifactRow ==
    [key : ArtifactKeys, status : {"DECLARED", "RETIRED"}, declaredBy : Automata,
     requestKey : DeclareKeys \cup {None}, contract : SUBSET Automata,
     version : Nat \ {0}, predecessor : DOMAIN artifacts \cup {None}]
PageRow == [status : {"active", "archived"}, generated : BOOLEAN]

OwnershipTypeOK ==
    /\ artifacts \in Seq(ArtifactRow)
    /\ targets \in [TargetPages -> DOMAIN artifacts \cup {None}]
    /\ targetPages \in [TargetPages -> PageRow]
    /\ active \subseteq Automata
    /\ custody \in [DOMAIN artifacts -> SUBSET Automata]
    /\ declareReceipts \subseteq Automata \X DeclareKeys
    /\ \A h \in Handlers :
        owning[h].stage \in {"idle", "reconciling", "succeeding", "publishing"}

\* A key has at most one standing declaration, through every succession
\* (handoff_targets, the index generated_artifacts_one_active_key).
OneDeclarationPerKey ==
    \A a, b \in DOMAIN artifacts :
        Declared(a) /\ Declared(b) /\ artifacts[a].key = artifacts[b].key => a = b

\* A page an artifact owns is under the publication guard: its provenance says
\* GENERATED, whoever made it a target and in whichever transaction.
OwnedIsGenerated == \A p \in TargetPages : targets[p] # None => Generated(p)

Reassigned(a) == Cardinality(custody[a]) > 1

\* A retired artifact owns no page, unless its custody was moved to another
\* principal once: a repeated idempotency key of that one reaches it.
RetiredOwnsNothing ==
    \A p \in TargetPages :
        targets[p] # None /\ ~Declared(targets[p]) => Reassigned(targets[p])

\* The execution contract outlives the succession of its artifact, even one
\* set just before (handoff_targets copies it under the artifact's lock).
ContractSurvives ==
    \A a \in DOMAIN artifacts :
        LET from == artifacts[a].predecessor
        IN  from # None /\ ~Reassigned(from) /\ artifacts[from].contract # {}
            => artifacts[a].contract # {}

\* An artifact and those it succeeds, one after another.
Line(a) ==
    {b \in DOMAIN artifacts :
        \A S \in SUBSET DOMAIN artifacts :
            /\ a \in S
            /\ \A c \in S : artifacts[c].predecessor # None
                             => artifacts[c].predecessor \in S
            => b \in S}

\* A generated page cannot become a stranger's between the guard of a publication
\* and its commit: its writer is, or was, custodian of the declared artifact that
\* owns it, or of one that this succeeds (evaluate_change locks the pages, not
\* their owners, and a succession moves the pages that continue without a lock).
GeneratedWrittenByCustodian ==
    \A h \in Handlers :
        owning[h].stage = "publishing" =>
            LET a == targets[owning[h].page]
            IN  a # None /\ Declared(a) =>
                    \E b \in Line(a) : owning[h].by \in custody[b]

\* Custody is exclusive and guarded, through declarations, adoptions, successions,
\* retirements and publications of several principals at once.
OwnershipSafe ==
    /\ OwnershipTypeOK /\ OneDeclarationPerKey /\ OwnedIsGenerated
    /\ RetiredOwnsNothing /\ ContractSurvives /\ GeneratedWrittenByCustodian
=============================================================================

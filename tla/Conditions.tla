------------------------------ MODULE Conditions ------------------------------
(***************************************************************************)
(* Conditions of a generated artifact: a runner reads what is true of it   *)
(* and puts the complete set; WORK opens, refreshes, resolves and reopens  *)
(* the conditions to match (reconcile_generated_conditions,                *)
(* work_conditions_api).  One artifact; what its reads derive is           *)
(* Freshness, here it is the set of the kinds that hold, with a briefing.  *)
(*                                                                         *)
(* The route is two steps, the locks and reads, and the writes; inserts    *)
(* meet the table's UNIQUE (artifact_id, condition_kind).                  *)
(***************************************************************************)
EXTENDS Requests, Integers, Sequences, FiniteSets

CONSTANTS
    Kinds, Briefings,
    InvocationKeys,     \* idempotency keys of the runner's invocations
    MaxChanges          \* changes of what is true of the artifact

ASSUME ChangesAreBounded == MaxChanges \in Nat
ASSUME KindsAreFinite == IsFiniteSet(Kinds)
ASSUME NoneIsNoBriefing == None \notin Briefings

VARIABLES
    truth,          \* what holds of the artifact: kind -> briefing or None
    changed,        \* how often it has changed
    conditions,     \* sequence of rows of work.generated_artifact_conditions
    conditionReceipts,  \* key -> the set it was used for, or None
    lastPut,        \* the last set applied and when it had been read
    running         \* handler -> its invocation

conditionVars == <<truth, changed, conditions, conditionReceipts, lastPut, running>>

NotRunning == [stage |-> "idle"]
Nothing == [k \in Kinds |-> None]
ConditionSets == [Kinds -> Briefings \cup {None}]

ConditionsInit ==
    /\ truth = Nothing /\ changed = 0
    /\ conditions = <<>>
    /\ conditionReceipts = [k \in InvocationKeys |-> None]
    /\ lastPut = [set |-> Nothing, readAt |-> 0]
    /\ running = [h \in Handlers |-> NotRunning]

\* MODEL and OBSERVE move on.
ChangeTruth(new) ==
    /\ changed < MaxChanges
    /\ new # truth
    /\ truth' = new /\ changed' = changed + 1
    /\ UNCHANGED <<conditions, conditionReceipts, lastPut, running>>

\* build_request
BuildRequest(h, k) ==
    /\ running[h] = NotRunning
    /\ running' = [running EXCEPT ![h] =
           [stage |-> "built", key |-> k, set |-> truth, readAt |-> changed,
            current |-> <<>>]]
    /\ UNCHANGED <<truth, changed, conditions, conditionReceipts, lastPut>>

\* Mutant: the conditions are read without FOR UPDATE.
ArtifactUnlocked == FALSE

\* The rows of the artifact are locked with the artifact, until the commit.
ArtifactLocked == \E h \in Handlers : running[h].stage = "locked"

\* load_receipt under the key's lock: a new key goes on, a used one is answered
\* or, for another set, refused.
LockConditions(h) ==
    /\ running[h].stage = "built"
    /\ conditionReceipts[running[h].key] = None
    /\ ~ArtifactLocked
    /\ running' = [running EXCEPT ![h].stage = "locked", ![h].current = conditions]
    /\ UNCHANGED <<truth, changed, conditions, conditionReceipts, lastPut>>

\* An answer from the receipt, a refusal, or an error at any point.
EndInvocation(h) ==
    /\ running[h] # NotRunning
    /\ running' = [running EXCEPT ![h] = NotRunning]
    /\ UNCHANGED <<truth, changed, conditions, conditionReceipts, lastPut>>

\* Mutant: a condition that holds still is written again.
ReconciledAnew(row, briefing) ==
    IF briefing # None
    THEN [row EXCEPT !.status = "OPEN", !.briefing = briefing, !.version = @ + 1]
    ELSE IF row.status = "OPEN"
    THEN [row EXCEPT !.status = "RESOLVED", !.version = @ + 1]
    ELSE row

\* What a row read becomes: opened or reopened, refreshed, resolved, or left.
Reconciled(row, briefing) ==
    IF briefing # None /\ row.status = "RESOLVED"
      THEN [row EXCEPT !.status = "OPEN", !.briefing = briefing, !.version = @ + 1]
    ELSE IF briefing # None /\ row.briefing # briefing
      THEN [row EXCEPT !.briefing = briefing, !.version = @ + 1]
    ELSE IF briefing = None /\ row.status = "OPEN"
      THEN [row EXCEPT !.status = "RESOLVED", !.version = @ + 1]
    ELSE row

\* Mutant: a condition that was resolved is opened in a row of its own.
OpenedAnew(set, current) ==
    LET new == {k \in Kinds : set[k] # None /\
                   \A r \in DOMAIN current :
                      current[r].status = "RESOLVED" \/ current[r].kind # k}
    IN  CHOOSE s \in [1..Cardinality(new) ->
                         [kind : new, status : {"OPEN"}, briefing : Briefings,
                          version : {1}]] :
            \A k \in new : \E r \in DOMAIN s : s[r].kind = k /\ s[r].briefing = set[k]

\* Rows for the kinds that have none, in the order of kinds.
Opened(set, current) ==
    LET new == {k \in Kinds : set[k] # None
                              /\ \A r \in DOMAIN current : current[r].kind # k}
    IN  CHOOSE s \in [1..Cardinality(new) ->
                         [kind : new, status : {"OPEN"}, briefing : Briefings,
                          version : {1}]] :
            \A k \in new : \E r \in DOMAIN s : s[r].kind = k /\ s[r].briefing = set[k]

\* The rows are written by their ids, as they were read; other rows stay.
PutConditions(h) ==
    LET set == running[h].set
        current == running[h].current
    IN  /\ running[h].stage = "locked"
        /\ conditions' =
               [r \in DOMAIN conditions |->
                   IF r \in DOMAIN current THEN Reconciled(current[r], set[current[r].kind])
                   ELSE conditions[r]]
               \o Opened(set, current)
        /\ conditionReceipts' = [conditionReceipts EXCEPT ![running[h].key] = set]
        /\ lastPut' = [set |-> set, readAt |-> running[h].readAt]
        /\ running' = [running EXCEPT ![h] = NotRunning]
        /\ UNCHANGED <<truth, changed>>

ConditionsNext ==
    \/ \E new \in ConditionSets : ChangeTruth(new)
    \/ \E h \in Handlers, k \in InvocationKeys : BuildRequest(h, k)
    \/ \E h \in Handlers : LockConditions(h)
    \/ \E h \in Handlers : PutConditions(h)
    \/ \E h \in Handlers : EndInvocation(h)

ConditionsSpec == ConditionsInit /\ [][ConditionsNext]_conditionVars

-----------------------------------------------------------------------------
(* Properties *)

ConditionRow ==
    [kind : Kinds, status : {"OPEN", "RESOLVED"}, briefing : Briefings,
     version : Nat \ {0}]

ConditionsTypeOK ==
    /\ truth \in ConditionSets /\ changed \in 0..MaxChanges
    /\ conditions \in Seq(ConditionRow)
    /\ conditionReceipts \in [InvocationKeys -> ConditionSets \cup {None}]
    /\ lastPut \in [set : ConditionSets, readAt : 0..MaxChanges]
    /\ \A h \in Handlers : running[h].stage \in {"idle", "built", "locked"}

\* "One artifact/kind pair keeps a stable identity across open, resolve and
\* reopen cycles" (work_conditions_api), with runners side by side.
OneIdentityPerKind ==
    \A r, s \in DOMAIN conditions : conditions[r].kind = conditions[s].kind => r = s

OpenConditions ==
    [k \in Kinds |->
        IF \E r \in DOMAIN conditions :
               conditions[r].kind = k /\ conditions[r].status = "OPEN"
        THEN conditions[CHOOSE r \in DOMAIN conditions :
                 conditions[r].kind = k /\ conditions[r].status = "OPEN"].briefing
        ELSE None]

\* The open conditions are what holds of the artifact as soon as a set that was
\* read after its last change is the last one applied.
SettledShowsTruth == lastPut.readAt = changed => OpenConditions = truth

\* "Exact reconciliation is zero-write when the semantic condition set and
\* briefings are unchanged": a row's version moves when its status or briefing
\* does, by one, and at no other time.
VersionMeansChange ==
    [][\A r \in DOMAIN conditions :
        LET old == conditions[r]
            new == conditions'[r]
        IN  new.version = old.version
              + IF <<old.status, old.briefing>> = <<new.status, new.briefing>>
                THEN 0 ELSE 1]_conditionVars

\* A condition keeps its identity, its versions count its changes, and what is open
\* is true once the last reading is applied.
ConditionsSafe ==
    /\ [](ConditionsTypeOK /\ OneIdentityPerKind /\ SettledShowsTruth)
    /\ VersionMeansChange

-----------------------------------------------------------------------------
(* What the code does not have *)

\* A set read before another one that has been applied does not undo it: the
\* route has no version for a runner to name.
NewestReadingStands ==
    [][lastPut'.readAt >= lastPut.readAt]_conditionVars
=============================================================================

----------------------------- MODULE MeterRules -----------------------------
(***************************************************************************)
(* The lifecycle of MONITOR_RULE entities in scripts/meter_list.py:        *)
(* reconcile_entities lists the rules of the model, and retires,           *)
(* reactivates, creates, updates and wires them until they are those of    *)
(* the rule files, each with one call under a key of the rule set and the  *)
(* rule.  A run may end after any call, or before its answer.  The         *)
(* importer owns the kind: nothing else writes its rules.                  *)
(***************************************************************************)
EXTENDS Requests, Integers, FiniteSets

CONSTANTS
    RuleKeys, Services,
    RuleSets,           \* what the files may say: rule -> [text, service] or None
    RetirementBound,    \* rules one run may retire, unless it is allowed more
    MaxRuleSetChanges   \* bound of the model

ASSUME RuleSetsAreRuleSets ==
    \A R \in RuleSets : DOMAIN R = RuleKeys /\
        \A k \in RuleKeys : R[k] = None \/ R[k].service \in Services \cup {None}

\* What the attributes of a rule may be, and a row of model.entities.
RuleTexts == UNION {{R[k].text : k \in {j \in RuleKeys : R[j] # None}} : R \in RuleSets}
RuleRow == [status : {"ACTIVE", "RETIRED"}, version : Nat, text : RuleTexts]

ASSUME NoneIsNoRule == None \notin RuleRow
ASSUME RuleBounds == RetirementBound \in Nat /\ MaxRuleSetChanges \in Nat

VARIABLES
    ruleSet,        \* what the files say
    earlierSets,    \* history: what they have said before
    returned,       \* history: whether they have said the same thing twice
    ruleChanges,
    rules,          \* MONITOR_RULE entities: rule -> row or None
    watches,        \* WATCHES edges: rule -> services
    ruleReceipts,   \* the mutation receipts of the importer: [key, version]
    ruleEvents,     \* the keys of its MODEL_ENTITY_* events
    unrecorded,     \* history: whether a change of status has no event
    meterRun        \* the run, and how the last one ended

meterVars == <<ruleSet, earlierSets, returned, ruleChanges, rules, watches,
               ruleReceipts, ruleEvents, unrecorded, meterRun>>

MeterEnded(outcome) == [stage |-> "idle", outcome |-> outcome]

MeterInit ==
    /\ ruleSet \in RuleSets /\ earlierSets = {} /\ returned = FALSE /\ ruleChanges = 0
    /\ rules = [k \in RuleKeys |-> None]
    /\ watches = [k \in RuleKeys |-> {}]
    /\ ruleReceipts = {} /\ ruleEvents = {} /\ unrecorded = FALSE
    /\ meterRun = MeterEnded("none")

unchangedFiles == <<ruleSet, earlierSets, returned, ruleChanges>>

ChangeRuleSet ==
    /\ ruleChanges < MaxRuleSetChanges
    /\ ruleChanges' = ruleChanges + 1
    /\ ruleSet' \in RuleSets \ {ruleSet}
    /\ earlierSets' = earlierSets \cup {ruleSet}
    /\ returned' = (returned \/ ruleSet' \in earlierSets)
    /\ UNCHANGED <<rules, watches, ruleReceipts, ruleEvents, unrecorded, meterRun>>

-----------------------------------------------------------------------------
(* What the API does with a key of the run *)

\* Mutant: the keys are not bound to the rule set.
KeyForRule(verb, k) == <<verb, k>>

KeyFor(verb, k) == <<meterRun.set, verb, k>>
Active(k) == rules[k] # None /\ rules[k].status = "ACTIVE"

\* load_receipt refuses a key whose receipt is for another body.
Reused(key, version) ==
    \E r \in ruleReceipts : r.key = key /\ r.version # version

\* retire_entity and reactivate_entity have no receipt; append_event keeps the
\* first event of a key.
SetStatus(k, verb, status) ==
    /\ rules' = [rules EXCEPT ![k].status = status, ![k].version = @ + 1]
    /\ ruleEvents' = ruleEvents \cup {KeyFor(verb, k)}
    /\ unrecorded' = (unrecorded \/ KeyFor(verb, k) \in ruleEvents)
    /\ UNCHANGED <<watches, ruleReceipts>>

-----------------------------------------------------------------------------
(* The run *)

ToRetire(R) == {k \in RuleKeys : R[k] = None /\ Active(k)}
Refuse == meterRun' = MeterEnded("refused") /\ UNCHANGED <<rules, watches, ruleReceipts>>

\* list_all, then the guard on mass retirement.
StartMeterRun ==
    /\ meterRun.stage = "idle"
    /\ \E allowed \in BOOLEAN :
        meterRun' =
            IF Cardinality(ToRetire(ruleSet)) > RetirementBound /\ ~allowed
            THEN MeterEnded("bounded")
            ELSE [stage |-> "retire", set |-> ruleSet, rule |-> None, wired |-> {},
                  left |-> {k \in RuleKeys : ruleSet[k] # None}]
    /\ UNCHANGED <<unchangedFiles, rules, watches, ruleReceipts, ruleEvents, unrecorded>>

RetireRule ==
    /\ meterRun.stage = "retire"
    /\ \E k \in ToRetire(meterRun.set) : SetStatus(k, "retire", "RETIRED")
    /\ UNCHANGED <<unchangedFiles, meterRun>>

Wanted == meterRun.set[meterRun.rule]
WantedServices == {Wanted.service} \ {None}
\* Mutant: the edges that are left over are not removed.
RuleDoneWhenLinked ==
    \/ meterRun.stage = "retire" /\ ToRetire(meterRun.set) = {}
    \/ meterRun.stage = "wire" /\ WantedServices \subseteq meterRun.wired

RuleDone ==
    \/ meterRun.stage = "retire" /\ ToRetire(meterRun.set) = {}
    \/ meterRun.stage = "wire" /\ meterRun.wired = WantedServices

\* What the next rule needs first; a run with no rule left is complete.
PickRule ==
    /\ RuleDone
    /\ IF meterRun.left = {} THEN meterRun' = MeterEnded("converged")
       ELSE \E k \in meterRun.left :
            meterRun' = [meterRun EXCEPT
                !.rule = k, !.left = @ \ {k},
                !.stage = IF rules[k] = None THEN "create"
                          ELSE IF Active(k) THEN "update" ELSE "reactivate"]
    /\ UNCHANGED <<unchangedFiles, rules, watches, ruleReceipts, ruleEvents, unrecorded>>

\* Mutant: a rule that is reactivated is not updated.
ReactivateAndWire ==
    /\ meterRun.stage = "reactivate"
    /\ SetStatus(meterRun.rule, "reactivate", "ACTIVE")
    /\ meterRun' = [meterRun EXCEPT !.stage = "wire", !.wired = watches[meterRun.rule]]
    /\ UNCHANGED unchangedFiles

ReactivateRule ==
    /\ meterRun.stage = "reactivate"
    /\ SetStatus(meterRun.rule, "reactivate", "ACTIVE")
    /\ meterRun' = [meterRun EXCEPT !.stage = "update"]
    /\ UNCHANGED unchangedFiles

\* A rule that is new has no edges; create_entity answers with the rule.
CreateRule ==
    LET k == meterRun.rule
    IN  /\ meterRun.stage = "create"
        /\ rules' = [rules EXCEPT ![k] =
                        [status |-> "ACTIVE", version |-> 1, text |-> Wanted.text]]
        /\ ruleReceipts' = ruleReceipts \cup {[key |-> KeyFor("entity", k), version |-> 0]}
        /\ meterRun' = [meterRun EXCEPT !.stage = "wire", !.wired = {}]
        /\ UNCHANGED <<unchangedFiles, watches, ruleEvents, unrecorded>>

\* update_entity, with the version of the rule in the body, if the attributes of
\* the rule are others; then the edges of the rule are read.
UpdateRule ==
    LET k == meterRun.rule
        key == KeyFor("update", k)
    IN  /\ meterRun.stage = "update"
        /\ IF Wanted.text # rules[k].text /\ Reused(key, rules[k].version) THEN Refuse
           ELSE /\ IF Wanted.text = rules[k].text
                   THEN UNCHANGED <<rules, ruleReceipts>>
                   ELSE /\ rules' = [rules EXCEPT ![k].text = Wanted.text,
                                                  ![k].version = @ + 1]
                        /\ ruleReceipts' = ruleReceipts \cup
                              {[key |-> key, version |-> rules[k].version]}
                /\ meterRun' = [meterRun EXCEPT !.stage = "wire", !.wired = watches[k]]
                /\ UNCHANGED watches
        /\ UNCHANGED <<unchangedFiles, ruleEvents, unrecorded>>

\* create_entity_link and remove_entity_link: the body is the same at every use
\* of the key, so that a request of long ago is answered from its receipt.
Wire(verb, service, services) ==
    LET k == meterRun.rule
        receipt == [key |-> <<meterRun.set, verb, k, service>>, version |-> 0]
    IN  /\ watches' = IF receipt \in ruleReceipts THEN watches
                      ELSE [watches EXCEPT ![k] = services]
        /\ ruleReceipts' = ruleReceipts \cup {receipt}
        /\ UNCHANGED <<unchangedFiles, rules, ruleEvents, unrecorded>>

LinkService ==
    /\ meterRun.stage = "wire"
    /\ \E s \in WantedServices \ meterRun.wired :
        /\ Wire("link", s, watches[meterRun.rule] \cup {s})
        /\ meterRun' = [meterRun EXCEPT !.wired = @ \cup {s}]

\* The edges that are left over go when the wanted ones are there.
UnlinkService ==
    /\ meterRun.stage = "wire"
    /\ WantedServices \subseteq meterRun.wired
    /\ \E s \in meterRun.wired \ WantedServices :
        /\ Wire("unlink", s, watches[meterRun.rule] \ {s})
        /\ meterRun' = [meterRun EXCEPT !.wired = @ \ {s}]

StopMeterRun ==
    /\ meterRun.stage # "idle"
    /\ meterRun' = MeterEnded("stopped")
    /\ UNCHANGED <<unchangedFiles, rules, watches, ruleReceipts, ruleEvents, unrecorded>>

MeterNext ==
    \/ ChangeRuleSet
    \/ StartMeterRun \/ RetireRule \/ PickRule
    \/ ReactivateRule \/ CreateRule \/ UpdateRule
    \/ LinkService \/ UnlinkService
    \/ StopMeterRun

MeterSpec == MeterInit /\ [][MeterNext]_meterVars

-----------------------------------------------------------------------------
(* Properties *)

MeterTypeOK ==
    /\ ruleSet \in RuleSets /\ earlierSets \subseteq RuleSets
    /\ ruleChanges \in 0..MaxRuleSetChanges
    /\ \A k \in RuleKeys : rules[k] = None \/ rules[k].status \in {"ACTIVE", "RETIRED"}
    /\ watches \in [RuleKeys -> SUBSET Services]
    /\ {returned, unrecorded} \subseteq BOOLEAN

\* A run that completes has made the rules those of its files, whatever the runs
\* before it had left undone, in whatever order the files changed
\* (reconcile_entities: "a resumed run converges").
CompletedRunMatches ==
    [][meterRun' = MeterEnded("converged") /\ meterRun' # meterRun =>
        \A k \in RuleKeys :
            IF meterRun.set[k] = None THEN ~Active(k)
            ELSE Active(k) /\ rules[k].text = meterRun.set[k].text]_meterVars

\* So are the services that its rules watch, while the files have never said the
\* same thing twice.
CompletedRunIsWired ==
    [][meterRun' = MeterEnded("converged") /\ meterRun' # meterRun /\ ~returned =>
        \A k \in RuleKeys : meterRun.set[k] # None =>
            watches[k] = {meterRun.set[k].service} \ {None}]_meterVars

\* A run is not refused, and no change of status goes unrecorded, while the files
\* have never said the same thing twice: no key of a run that was stopped is in
\* the way of the next.
FreshKeysSuffice ==
    ~returned => ~unrecorded /\ meterRun # MeterEnded("refused")

\* A run that completes leaves the rules and their services as its files have them,
\* and no stopped run is in its way.
MeterSafe ==
    /\ [](MeterTypeOK /\ FreshKeysSuffice)
    /\ CompletedRunMatches /\ CompletedRunIsWired

\* A rule set that returns finds the keys of its first visit used: updates are
\* refused, edges are not restored, retirements leave no event.
ResumedRunConverges == meterRun # MeterEnded("refused")
ReturnedRunIsWired ==
    [][meterRun' = MeterEnded("converged") /\ meterRun' # meterRun =>
        \A k \in RuleKeys : meterRun.set[k] # None =>
            watches[k] = {meterRun.set[k].service} \ {None}]_meterVars
StatusIsRecorded == ~unrecorded
=============================================================================

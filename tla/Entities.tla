------------------------------- MODULE Entities -------------------------------
(***************************************************************************)
(* Model entities, the pages that describe them, and verification requests *)
(* (model_api, verification_api).  A change of an entity's attributes asks *)
(* for a check of the pages that describe it: the ripple.                  *)
(*                                                                         *)
(* Publications of changes and verifications of pages are the modules      *)
(* Publication and Trust; here each is the one step its commit is.         *)
(* Attributes are left out, but for whether a request alters them.         *)
(***************************************************************************)
EXTENDS Requests, Integers, Sequences, FiniteSets

CONSTANTS
    EntityIds, CheckPages,
    Corrections,        \* changes; CorrectionPage gives the page one operates on
    CorrectionPage,
    Agents,
    BriefingLimit,      \* pages a briefing may have (200 in the code)
    MaxEntityVersion, MaxRequests, MaxManual

ASSUME CorrectionsHavePages == CorrectionPage \in [Corrections -> CheckPages]
ASSUME NoneIsNoAgent == None \notin Agents /\ None \notin EntityIds
ASSUME NoneIsNoOutcome == None \notin {"VERIFIED", "CORRECTED", "MIXED", "INCONCLUSIVE"}
ASSUME EntityBounds == {BriefingLimit, MaxEntityVersion, MaxRequests, MaxManual} \subseteq Nat

VARIABLES
    entities,       \* rows of model.entities: entity -> row
    describes,      \* entity_page_links of relation DESCRIBES or OPERATES
    checkPages,     \* docs.pages: page -> status and revision
    verified,       \* <<page, revision>> of every verification ever VERIFIED
    standing,       \* those whose state is VERIFIED now
    corrected,      \* the corrections that are PUBLISHED
    requests,       \* sequence of docs.verification_requests
    writing         \* handler -> its transaction

entityVars == <<entities, describes, checkPages, verified, standing, corrected,
                requests, writing>>

NotWriting == [stage |-> "idle"]
Live(r) == requests[r].status \in {"OPEN", "CLAIMED"}
Ripples(e) ==
    {r \in DOMAIN requests : requests[r].reason = "RIPPLE" /\ requests[r].entity = e}
LiveRipples(e) == {r \in Ripples(e) : Live(r)}

\* Mutant: an update reads its entity without FOR UPDATE.
EntityNeverLocked(e) == TRUE

\* SELECT ... FOR UPDATE of a row of model.entities.
EntityFree(e) ==
    \A h \in Handlers : writing[h].stage = "updating" => writing[h].entity # e

\* changed and base are the row's versions: the one whose attributes are new,
\* and the one the last writer had read.
EntitiesInit ==
    /\ entities = [e \in EntityIds |->
                      [status |-> "NONE", version |-> 0, changed |-> 0, base |-> 0]]
    /\ describes = {}
    /\ checkPages = [p \in CheckPages |-> [status |-> "active", revision |-> 1]]
    /\ verified = {} /\ standing = {} /\ corrected = {}
    /\ requests = <<>>
    /\ writing = [h \in Handlers |-> NotWriting]

unchangedPages == UNCHANGED <<checkPages, verified, standing, corrected>>

-----------------------------------------------------------------------------
(* model_api *)

CreateEntity(e) ==
    /\ entities[e].status = "NONE"
    /\ entities' = [entities EXCEPT ![e] =
                       [status |-> "ACTIVE", version |-> 1, changed |-> 0, base |-> 0]]
    /\ unchangedPages /\ UNCHANGED <<describes, requests, writing>>

\* create_entity_page_link
LinkPage(e, p) ==
    /\ entities[e].status # "NONE"
    /\ describes' = describes \cup {<<e, p>>}
    /\ unchangedPages /\ UNCHANGED <<entities, requests, writing>>

\* _briefing of an entity: the active pages that describe it, as they are.
Described(e) == {p \in CheckPages : <<e, p>> \in describes}
Scope(e) == {p \in Described(e) : checkPages[p].status = "active"}
Briefing(P) == [p \in P |-> checkPages[p].revision]
Briefable(P) == P # {} /\ Cardinality(P) <= BriefingLimit

NewRequest(e, reason, P) ==
    [entity |-> e, reason |-> reason, briefing |-> Briefing(P), status |-> "OPEN",
     claimedBy |-> None, completedBy |-> None, outcome |-> None,
     checks |-> {}, changes |-> {}, closedAt |-> 0]

\* Mutant: only an OPEN ripple stands for the new one.
MintsUnlessOpen(e) ==
    Described(e) # {} /\ \A r \in LiveRipples(e) : requests[r].status # "OPEN"

\* mint_ripple_request: a live ripple, seen and not locked, stands for the new.
Mints(e) == Described(e) # {} /\ LiveRipples(e) = {}

\* update_entity that alters the attributes, up to its commit, by a writer that
\* has read version base.
BeginUpdate(h, e, base) ==
    /\ writing[h] = NotWriting
    /\ entities[e].status # "NONE"
    /\ EntityFree(e)
    /\ entities[e].version = base /\ base < MaxEntityVersion
    /\ Described(e) # {} => Briefable(Scope(e))
    /\ writing' = [writing EXCEPT ![h] =
                      [stage |-> "updating", entity |-> e, base |-> base,
                       mints |-> Mints(e), briefing |-> Scope(e)]]
    /\ unchangedPages /\ UNCHANGED <<entities, describes, requests>>

CommitUpdate(h) ==
    LET w == writing[h]
        e == w.entity
        v == entities[e].version + 1
    IN  /\ w.stage = "updating"
        /\ entities' = [entities EXCEPT
                           ![e].version = v, ![e].base = w.base, ![e].changed = v]
        /\ IF w.mints
           THEN /\ Len(requests) < MaxRequests
                /\ requests' = Append(requests, NewRequest(e, "RIPPLE", w.briefing))
           ELSE UNCHANGED requests
        /\ writing' = [writing EXCEPT ![h] = NotWriting]
        /\ unchangedPages /\ UNCHANGED describes

\* update_entity that leaves the attributes, and retire_entity and
\* reactivate_entity, which answer an entity that has the status.
RewriteEntity(e, base, status) ==
    /\ EntityFree(e)
    /\ entities[e].status # "NONE"
    /\ entities[e].version = base /\ base < MaxEntityVersion
    /\ entities' = [entities EXCEPT ![e].status = status, ![e].version = @ + 1,
                                    ![e].base = base]
    /\ unchangedPages /\ UNCHANGED <<describes, requests, writing>>

-----------------------------------------------------------------------------
(* verification_api *)

\* create_verification_request for an entity, or for pages by id or prefix.
CreateRequest(e, P) ==
    /\ Len(requests) < MaxRequests
    /\ Briefable(P)
    /\ requests' = Append(requests, NewRequest(e, "MANUAL", P))
    /\ unchangedPages /\ UNCHANGED <<entities, describes, writing>>

ClaimRequest(r, agent) ==
    /\ requests[r].status = "OPEN"
    /\ requests' = [requests EXCEPT ![r].status = "CLAIMED", ![r].claimedBy = agent]
    /\ unchangedPages /\ UNCHANGED <<entities, describes, writing>>

\* Mutant: a check of any revision of the page is evidence.
VerifiedOnce(r, p, checks) == \E v \in checks \cap standing : v[1] = p

\* _reconcile_completion, for the checks and changes a completion names.
VerifiedOK(r, p, checks) == <<p, requests[r].briefing[p]>> \in checks \cap standing
CorrectedOK(p, changes) == \E c \in changes : CorrectionPage[c] = p

\* What the page's outcome is, unless the whole completion has one.
OutcomeOf(outcome, perPage, p) == IF outcome = "MIXED" THEN perPage[p] ELSE outcome

Reconciled(r, outcome, checks, changes, perPage) ==
    outcome # "INCONCLUSIVE" =>
        /\ changes \subseteq corrected
        /\ \A p \in DOMAIN requests[r].briefing :
            LET o == OutcomeOf(outcome, perPage, p)
            IN  \/ o = "INCONCLUSIVE"
                \/ o = "VERIFIED" /\ VerifiedOK(r, p, checks)
                \/ o = "CORRECTED" /\ CorrectedOK(p, changes)
                \/ outcome = "CORRECTED" /\ VerifiedOK(r, p, checks)

VersionOf(e) == IF e = None THEN 0 ELSE entities[e].version

\* Mutant: whoever completes a request need not have claimed it.
CompleteUnclaimed(r, agent, outcome, checks, changes, perPage) ==
    /\ Live(r)
    /\ Reconciled(r, outcome, checks, changes, perPage)
    /\ requests' = [requests EXCEPT
          ![r].status = "COMPLETED", ![r].completedBy = agent,
          ![r].claimedBy = IF @ = None THEN agent ELSE @,
          ![r].outcome = outcome, ![r].checks = checks, ![r].changes = changes,
          ![r].closedAt = VersionOf(requests[r].entity)]
    /\ unchangedPages /\ UNCHANGED <<entities, describes, writing>>

\* complete_verification_request.  It reads its evidence before it commits, and
\* what changes in between could as well have changed after.
CompleteRequest(r, agent, outcome, checks, changes, perPage) ==
    /\ Live(r)
    /\ requests[r].status = "CLAIMED" => requests[r].claimedBy = agent
    /\ Reconciled(r, outcome, checks, changes, perPage)
    /\ requests' = [requests EXCEPT
          ![r].status = "COMPLETED", ![r].completedBy = agent,
          ![r].claimedBy = IF @ = None THEN agent ELSE @,
          ![r].outcome = outcome, ![r].checks = checks, ![r].changes = changes,
          ![r].closedAt = VersionOf(requests[r].entity)]
    /\ unchangedPages /\ UNCHANGED <<entities, describes, writing>>

CancelRequest(r) ==
    /\ Live(r)
    /\ requests' = [requests EXCEPT ![r].status = "CANCELLED",
                                    ![r].closedAt = VersionOf(requests[r].entity)]
    /\ unchangedPages /\ UNCHANGED <<entities, describes, writing>>

\* Any error before the commit, and the end of the connection.
AbandonWrite(h) ==
    /\ writing[h] # NotWriting
    /\ writing' = [writing EXCEPT ![h] = NotWriting]
    /\ unchangedPages /\ UNCHANGED <<entities, describes, requests>>

-----------------------------------------------------------------------------
(* What Trust and Publication commit meanwhile *)

VerifyPage(p) ==
    LET v == <<p, checkPages[p].revision>>
    IN  /\ checkPages[p].status = "active"
        /\ verified' = verified \cup {v}
        /\ standing' = standing \cup {v}
        /\ UNCHANGED <<entities, describes, checkPages, corrected, requests, writing>>

\* A publication gives its page a revision that no verification is about.
PublishCorrection(c, status) ==
    LET p == CorrectionPage[c]
    IN  /\ c \notin corrected
        /\ corrected' = corrected \cup {c}
        /\ checkPages' = [checkPages EXCEPT ![p].status = status, ![p].revision = @ + 1]
        /\ standing' = {v \in standing : v[1] # p}
        /\ UNCHANGED <<entities, describes, verified, requests, writing>>

\* A bound of the model.
ManualRoom ==
    Cardinality({r \in DOMAIN requests : requests[r].reason = "MANUAL"}) < MaxManual

Outcomes == {"VERIFIED", "CORRECTED", "MIXED", "INCONCLUSIVE"}
PageOutcomes == {"VERIFIED", "CORRECTED", "INCONCLUSIVE"}

EntitiesNext ==
    \/ \E e \in EntityIds : CreateEntity(e)
    \/ \E e \in EntityIds, p \in CheckPages : LinkPage(e, p)
    \/ \E h \in Handlers, e \in EntityIds, base \in 1..MaxEntityVersion :
          BeginUpdate(h, e, base)
    \/ \E h \in Handlers : CommitUpdate(h)
    \/ \E e \in EntityIds, base \in 1..MaxEntityVersion,
          status \in {"ACTIVE", "RETIRED"} : RewriteEntity(e, base, status)
    \/ \E e \in EntityIds : ManualRoom /\ CreateRequest(e, Scope(e))
    \/ \E P \in SUBSET {p \in CheckPages : checkPages[p].status = "active"} :
          ManualRoom /\ CreateRequest(None, P)
    \/ \E r \in DOMAIN requests, agent \in Agents : ClaimRequest(r, agent)
    \/ \E r \in {q \in DOMAIN requests : Live(q)}, agent \in Agents,
          outcome \in Outcomes, checks \in {{}, verified}, changes \in {{}, corrected} :
          /\ outcome = "INCONCLUSIVE" => checks = {} /\ changes = {}
          /\ outcome = "VERIFIED" => changes = {}
          /\ \E perPage \in [DOMAIN requests[r].briefing -> PageOutcomes] :
             /\ outcome # "MIXED" => \A p \in DOMAIN perPage : perPage[p] = outcome
             /\ CompleteRequest(r, agent, outcome, checks, changes, perPage)
    \/ \E r \in DOMAIN requests : CancelRequest(r)
    \/ \E h \in Handlers : AbandonWrite(h)
    \/ \E p \in CheckPages : VerifyPage(p)
    \/ \E c \in Corrections, status \in {"active", "archived"} :
          PublishCorrection(c, status)

EntitiesSpec == EntitiesInit /\ [][EntitiesNext]_entityVars

-----------------------------------------------------------------------------
(* Properties *)

EntityRow == [status : {"NONE", "ACTIVE", "RETIRED"}, version : Nat, changed : Nat,
              base : Nat]

EntitiesTypeOK ==
    /\ entities \in [EntityIds -> EntityRow]
    /\ describes \subseteq EntityIds \X CheckPages
    /\ checkPages \in [CheckPages -> [status : {"active", "archived"}, revision : Nat]]
    /\ verified \subseteq CheckPages \X Nat /\ standing \subseteq verified
    /\ corrected \subseteq Corrections
    /\ \A r \in DOMAIN requests :
        /\ requests[r].status \in {"OPEN", "CLAIMED", "COMPLETED", "CANCELLED"}
        /\ DOMAIN requests[r].briefing \subseteq CheckPages
    /\ \A h \in Handlers : writing[h].stage \in {"idle", "updating"}

\* No update is lost: each version of an entity was written by someone who had
\* read the one before it (expected_version under the row's lock).
NoLostUpdate ==
    \A e \in EntityIds : entities[e].version > 0 => entities[e].base = entities[e].version - 1

\* Reality moving twice needs one check: an entity never has two live ripples,
\* though its updates only look for one (verification_requests_ripple_live_idx).
OneLiveRipple == \A e \in EntityIds : Cardinality(LiveRipples(e)) <= 1

\* A request closed as VERIFIED or CORRECTED has, for every page of its
\* briefing, a check of exactly the revision briefed, or a published change of
\* the page; later publications do not take that away (_reconcile_completion).
ClosedWithEvidence ==
    \A r \in DOMAIN requests : \A p \in DOMAIN requests[r].briefing :
        LET checked == <<p, requests[r].briefing[p]>> \in requests[r].checks \cap verified
            changed == \E c \in requests[r].changes \cap corrected : CorrectionPage[c] = p
        IN  /\ requests[r].outcome = "VERIFIED" => checked
            /\ requests[r].outcome = "CORRECTED" => checked \/ changed

\* A claimed request is completed by the one who claimed it, while claims,
\* completions and cancellations of several agents meet on it.
CompletedByClaimant ==
    \A r \in DOMAIN requests :
        requests[r].status = "COMPLETED" => requests[r].completedBy = requests[r].claimedBy

\* Entities lose no update, and a change asks for one verification at a time, which
\* its claimant closes with evidence.
EntitiesSafe ==
    /\ EntitiesTypeOK /\ NoLostUpdate /\ OneLiveRipple
    /\ ClosedWithEvidence /\ CompletedByClaimant

\* "One live ripple request per entity: reality moving twice before anyone
\* checks still needs only one check" (db/migrations/005_verification_requests
\* .sql:40): once an entity has a ripple, each of its changes has a check that is
\* still to come, or was closed since.  The code does not have it: the ripple seen live may be
\* closed before the change is committed.
ChangeIsChecked ==
    \A e \in EntityIds :
        Ripples(e) # {} =>
            \E r \in Ripples(e) :
                Live(r) \/ requests[r].closedAt >= entities[e].changed

\* mint_ripple_request answers "None when nothing is described": an entity none
\* of whose describing pages is active can still be updated.  The code refuses
\* it (VERIFICATION_SCOPE_EMPTY).
DescribedByArchivedUpdates ==
    \A e \in EntityIds : Described(e) # {} => Briefable(Scope(e))
=============================================================================

--------------------------- MODULE Reorganisation ---------------------------
(***************************************************************************)
(* Reorganisation plans (reorganisation_api): a plan collects structural   *)
(* operations, is analysed and validated, and is published in three        *)
(* transactions: one evaluates it and makes a change of it, publish_change *)
(* publishes the change, one records the outcome in the plan.  Between     *)
(* them the process may stop, other publications commit, and the change is *)
(* within reach of every client of the changes API.                        *)
(*                                                                         *)
(* Each transaction is one step: plans are locked FOR UPDATE, and module   *)
(* Publication shows publications to be atomic.  The corpus is the         *)
(* revision of each page and the value of each route: what the operations  *)
(* on redirects and sections set, which carry no revision.  Together they  *)
(* are the state identity.  An operation on a page is accepted at its      *)
(* revision; the conflicts of paths and of navigation that can refuse more *)
(* are in module Corpus.                                                   *)
(***************************************************************************)
EXTENDS Requests, Naturals, Sequences, FiniteSets

CONSTANTS Pages,        \* resource ids
          Routes,       \* sources of redirects; the order of the sections
          Plans,        \* plan ids
          MaxRevision,  \* bound: revisions of a page
          MaxOps,       \* bound: operations of a plan or a change
          MaxChanges,   \* bound: changes that publish_plan makes
          MaxPublished  \* bound: publications of these changes

ASSUME ReorganisationAssumption ==
    /\ Pages \cap Routes = {}
    /\ MaxRevision \in Nat /\ MaxOps \in Nat
    /\ MaxChanges \in Nat /\ MaxPublished \in Nat
    /\ None \notin Plans
    /\ None \notin [Pages \cup Routes -> Nat]

VARIABLES corpus,     \* docs.pages, docs.redirects, docs.sections
          plans,      \* docs.reorganisation_plans
          changes,    \* docs.changes: those publish_plan made, in order
          published,  \* docplane.events: CHANGE_PUBLISHED, with its pages
          pc,         \* where each worker is
          plan,       \* publish_plan: the plan of the request
          change      \* the change of the request

tables == <<corpus, plans, changes, published>>
request == <<pc, plan, change>>
vars == <<tables, request>>

Resources == Pages \cup Routes

\* On a page, the revision it expects; on a route, the value it sets.
Operation == [on : Resources, value : Nat]
Corpora == [Resources -> Nat]

NoPlan == [status |-> "NONE", ops |-> {}, base |-> None, linked |-> 0]

Mutable == {"DRAFT", "ANALYZED", "VALIDATED", "FAILED"}

Init ==
    /\ corpus = [r \in Resources |-> IF r \in Pages THEN 1 ELSE 0]
    /\ plans = [d \in Plans |-> NoPlan]
    /\ changes = <<>>
    /\ published = <<>>
    /\ pc = [w \in Handlers |-> "idle"]
    /\ plan = [w \in Handlers |-> None]
    /\ change = [w \in Handlers |-> 0]

-----------------------------------------------------------------------------
(***************************************************************************)
(* The change engine: evaluate_change and what publish_change writes.      *)
(***************************************************************************)
Accepted(op) == op.on \in Pages => op.value = corpus[op.on]

\* The base state identity is the present one, or none was given.
BaseFits(base) == base \in {None, corpus}

Passed(ops, base) ==
    /\ ops # {}
    /\ BaseFits(base)
    /\ \A op \in ops : Accepted(op)

Touched(ops) == {op.on : op \in ops} \cap Pages

Values(ops, r) == {op.value : op \in {o \in ops : o.on = r}}

\* Each page touched gets a new revision, each route the value of its last
\* operation, all of them at once.
Outcomes(ops) ==
    {state \in [Resources -> 0..MaxRevision] :
        \A r \in Resources :
            state[r] \in IF r \in Touched(ops) THEN {corpus[r] + 1}
                        ELSE IF Values(ops, r) # {} THEN Values(ops, r)
                        ELSE {corpus[r]}}

Idle(w) ==
    /\ pc' = [pc EXCEPT ![w] = "idle"]
    /\ plan' = [plan EXCEPT ![w] = None]
    /\ change' = [change EXCEPT ![w] = 0]

\* The operations an author may submit: bound to the revision just read, or
\* setting a route.
Submitted ==
    {[on |-> p, value |-> corpus[p]] : p \in Pages}
        \cup [on : Routes, value : {0, 1}]

-----------------------------------------------------------------------------
(***************************************************************************)
(* Plans, up to their publication.                                         *)
(***************************************************************************)
CreatePlan(d, base) ==
    /\ plans[d].status = "NONE"
    /\ plans' = [plans EXCEPT ![d] = [NoPlan EXCEPT !.status = "DRAFT",
                                                    !.base = base]]
    /\ UNCHANGED <<corpus, changes, published, request>>

AddOperation(d, op) ==
    /\ plans[d].status \in Mutable
    /\ Cardinality(plans[d].ops) < MaxOps
    /\ plans' = [plans EXCEPT ![d].ops = @ \cup {op}, ![d].status = "DRAFT"]
    /\ UNCHANGED <<corpus, changes, published, request>>

AnalyzePlan(d) ==
    /\ plans[d].status # "NONE"
    /\ plans' = [plans EXCEPT ![d].status = "ANALYZED"]
    /\ UNCHANGED <<corpus, changes, published, request>>

ValidatePlan(d) ==
    /\ plans[d].status # "NONE"
    /\ plans' = [plans EXCEPT ![d].status =
                    IF Passed(plans[d].ops, plans[d].base)
                    THEN "VALIDATED" ELSE "ANALYZED"]
    /\ UNCHANGED <<corpus, changes, published, request>>

-----------------------------------------------------------------------------
(***************************************************************************)
(* publish_plan.                                                           *)
(***************************************************************************)
Settled(d) == plans[d].status = "PUBLISHED" /\ plans[d].linked # 0

\* The evaluation fails.
RejectPlan(w, d) ==
    /\ pc[w] = "idle"
    /\ plans[d].status # "NONE"
    /\ ~Settled(d)
    /\ ~Passed(plans[d].ops, plans[d].base)
    /\ plans' = [plans EXCEPT ![d].status = "FAILED"]
    /\ UNCHANGED <<corpus, changes, published, request>>

Proceed(w, d, c) ==
    /\ pc' = [pc EXCEPT ![w] = "linked"]
    /\ plan' = [plan EXCEPT ![w] = d]
    /\ change' = [change EXCEPT ![w] = c]

\* Mutant: the change takes over the base state of the plan.
ChangeBoundToPlan(d) ==
    [status |-> "VALIDATED", ops |-> plans[d].ops, base |-> plans[d].base,
     summary |-> corpus, plan |-> d]

\* The change that a plan becomes, bound to the state it was evaluated in.
ChangeOf(d) ==
    [status |-> "VALIDATED", ops |-> plans[d].ops, base |-> corpus,
     summary |-> corpus, plan |-> d]

\* Mutant: a change is made whether or not there is one.
LinkPlanAnew(w, d) ==
    /\ pc[w] = "idle"
    /\ plans[d].status # "NONE"
    /\ ~Settled(d)
    /\ Passed(plans[d].ops, plans[d].base)
    /\ Len(changes) < MaxChanges
    /\ changes' = Append(changes, ChangeOf(d))
    /\ plans' = [plans EXCEPT ![d].linked = Len(changes) + 1]
    /\ Proceed(w, d, Len(changes) + 1)
    /\ UNCHANGED <<corpus, published>>

LinkPlan(w, d) ==
    /\ pc[w] = "idle"
    /\ plans[d].status # "NONE"
    /\ ~Settled(d)
    /\ Passed(plans[d].ops, plans[d].base)
    /\ plans[d].linked = 0
    /\ Len(changes) < MaxChanges
    /\ changes' = Append(changes, ChangeOf(d))
    /\ plans' = [plans EXCEPT ![d].linked = Len(changes) + 1]
    /\ Proceed(w, d, Len(changes) + 1)
    /\ UNCHANGED <<corpus, published>>

\* A plan that an earlier request linked keeps its change.
ResumePlan(w, d) ==
    /\ pc[w] = "idle"
    /\ ~Settled(d)
    /\ Passed(plans[d].ops, plans[d].base)
    /\ plans[d].linked # 0
    /\ Proceed(w, d, plans[d].linked)
    /\ UNCHANGED tables

\* publish_change, where it commits.
Publish(c) ==
    /\ changes[c].status \in {"DRAFT", "VALIDATED"}
    /\ Passed(changes[c].ops, changes[c].base)
    /\ Len(published) < MaxPublished
    /\ corpus' \in Outcomes(changes[c].ops)
    /\ changes' = [changes EXCEPT ![c].status = "PUBLISHED"]
    /\ published' = Append(published, [change |-> c,
                                       pages |-> Touched(changes[c].ops)])

\* publish_change, where its evaluation fails.
Reject(c) ==
    /\ changes[c].status \in {"DRAFT", "VALIDATED"}
    /\ ~Passed(changes[c].ops, changes[c].base)
    /\ changes' = [changes EXCEPT ![c].status = "DRAFT"]
    /\ UNCHANGED <<corpus, published>>

\* The change is published, by this step or before.
PublishLinked(w) ==
    /\ pc[w] = "linked"
    /\ pc' = [pc EXCEPT ![w] = "published"]
    /\ \/ Publish(change[w])
       \/ /\ changes[change[w]].status = "PUBLISHED"
          /\ UNCHANGED <<corpus, changes, published>>
    /\ UNCHANGED <<plans, plan, change>>

RejectLinked(w) ==
    /\ pc[w] = "linked"
    /\ Reject(change[w])
    /\ Idle(w)
    /\ UNCHANGED plans

\* Mutant: an abandoned change counts as settled.
LinkedSettled(w) ==
    /\ pc[w] = "linked"
    /\ changes[change[w]].status = "ABANDONED"
    /\ pc' = [pc EXCEPT ![w] = "published"]
    /\ UNCHANGED <<tables, plan, change>>

\* CHANGE_ABANDONED
LinkedAbandoned(w) ==
    /\ pc[w] = "linked"
    /\ changes[change[w]].status = "ABANDONED"
    /\ Idle(w)
    /\ UNCHANGED tables

MarkPublished(w) ==
    /\ pc[w] = "published"
    /\ plans' = [plans EXCEPT ![plan[w]].status = "PUBLISHED"]
    /\ Idle(w)
    /\ UNCHANGED <<corpus, changes, published>>

Crash(w) ==
    /\ pc[w] # "idle"
    /\ Idle(w)
    /\ UNCHANGED tables

-----------------------------------------------------------------------------
(***************************************************************************)
(* The same changes through the changes API, and everybody else.           *)
(***************************************************************************)
ChangeIds == 1..Len(changes)

PublishChange(c) == Publish(c) /\ UNCHANGED <<plans, request>>

RejectChange(c) == Reject(c) /\ UNCHANGED <<plans, request>>

ValidateChange(c) ==
    /\ changes[c].status \in {"DRAFT", "VALIDATED"}
    /\ changes' = [changes EXCEPT ![c].status =
                      IF Passed(changes[c].ops, changes[c].base)
                      THEN "VALIDATED" ELSE "DRAFT"]
    /\ UNCHANGED <<corpus, plans, published, request>>

AbandonChange(c) ==
    /\ changes[c].status \in {"DRAFT", "VALIDATED"}
    /\ changes' = [changes EXCEPT ![c].status = "ABANDONED"]
    /\ UNCHANGED <<corpus, plans, published, request>>

\* add_operation of the changes API reads the status without a lock.
BeginExtend(w, c) ==
    /\ pc[w] = "idle"
    /\ changes[c].status \in {"DRAFT", "VALIDATED"}
    /\ Cardinality(changes[c].ops) < MaxOps
    /\ pc' = [pc EXCEPT ![w] = "extending"]
    /\ change' = [change EXCEPT ![w] = c]
    /\ UNCHANGED <<tables, plan>>

FinishExtend(w, op) ==
    /\ pc[w] = "extending"
    /\ changes' = [changes EXCEPT ![change[w]].ops = @ \cup {op},
                                  ![change[w]].status = "DRAFT"]
    /\ Idle(w)
    /\ UNCHANGED <<corpus, plans, published>>

\* A publication that has nothing to do with plans.
PublishOther(op) ==
    /\ corpus' \in Outcomes({op})
    /\ UNCHANGED <<plans, changes, published, request>>

Next ==
    \/ \E d \in Plans :
          \/ \E base \in {None, corpus} : CreatePlan(d, base)
          \/ \E op \in Submitted : AddOperation(d, op)
          \/ AnalyzePlan(d) \/ ValidatePlan(d)
    \/ \E w \in Handlers :
          \/ \E d \in Plans : RejectPlan(w, d) \/ LinkPlan(w, d)
                              \/ ResumePlan(w, d)
          \/ PublishLinked(w) \/ RejectLinked(w) \/ LinkedAbandoned(w)
          \/ MarkPublished(w) \/ Crash(w)
          \/ \E c \in ChangeIds : BeginExtend(w, c)
          \/ \E op \in Submitted : FinishExtend(w, op)
    \/ \E c \in ChangeIds :
          \/ PublishChange(c) \/ RejectChange(c)
          \/ ValidateChange(c) \/ AbandonChange(c)
    \/ \E op \in Submitted : PublishOther(op)

Spec == Init /\ [][Next]_vars

-----------------------------------------------------------------------------
(***************************************************************************)
(* Properties.                                                             *)
(***************************************************************************)
PlanRecord ==
    [status : {"NONE", "PUBLISHED"} \cup Mutable, ops : SUBSET Operation,
     base : Corpora \cup {None}, linked : Nat]

ChangeRecord ==
    [status : {"DRAFT", "VALIDATED", "PUBLISHED", "ABANDONED"},
     ops : SUBSET Operation, base : Corpora \cup {None}, summary : Corpora,
     plan : Plans]

Event == [change : ChangeIds, pages : SUBSET Pages]

\* Every variable has its type; requests and events name changes that exist.
TypeOK ==
    /\ corpus \in Corpora
    /\ plans \in [Plans -> PlanRecord]
    /\ changes \in Seq(ChangeRecord)
    /\ published \in Seq(Event)
    /\ pc \in [Handlers -> {"idle", "linked", "published", "extending"}]
    /\ plan \in [Handlers -> Plans \cup {None}]
    /\ change \in [Handlers -> 0..Len(changes)]

IsPublished(c) == \E k \in 1..Len(published) : published[k].change = c

\* However often a plan is published, by however many requests that stop at
\* whatever point, one change is made of it (linked_change_id).
OneChangePerPlan ==
    \A c \in ChangeIds : plans[changes[c].plan].linked = c

\* A plan that reads PUBLISHED has its change in the corpus: publish_plan
\* records it after publish_change has committed.
PublishedPlanIsApplied ==
    \A d \in Plans :
        plans[d].status = "PUBLISHED" => IsPublished(plans[d].linked)

\* The change of a plan that has edited a page does not enter the corpus
\* again, even if an operation added behind its publication makes a draft of
\* it.  (One of redirects alone may: what it did can be undone by others.)
PublishedOnce ==
    \A j, k \in 1..Len(published) :
        /\ published[j].change = published[k].change
        /\ published[j].pages # {}
        => k <= j

\* The change of a plan enters the corpus in the very state in which
\* publish_plan evaluated it, whatever has been published since.
PublishedAsEvaluated ==
    [][published' # published =>
          corpus = changes[published'[Len(published')].change].summary]_vars

-----------------------------------------------------------------------------
(***************************************************************************)
(* Statements of the documentation and the code that runs refute.          *)
(***************************************************************************)
\* A plan that failed has left the corpus alone.  A process that stops
\* before MarkPublished makes the retry evaluate, and fail, a plan whose
\* change is published.
FailedPlanIsNotApplied ==
    \A d \in Plans :
        plans[d].status = "FAILED" => ~IsPublished(plans[d].linked)

\* A published plan stays as it is (permitted_actions); analyze_plan and
\* validate_plan do not look at the status.
PublishedPlanIsFinal ==
    [][\A d \in Plans :
          plans[d].status = "PUBLISHED" => plans'[d] = plans[d]]_vars

\* The operations of a published plan are published together; one added
\* while an interrupted publication has left a change behind is not.
PublishedPlanIsComplete ==
    \A d \in Plans : plans[d].status = "PUBLISHED" =>
        plans[d].ops \subseteq changes[plans[d].linked].ops

\* A request whose plan has passed goes on with a change bound to the state
\* the plan passed in, or published; one linked in an earlier state is
\* refused at its change each time.
PassedPlanIsPublished ==
    [][\A w \in Handlers :
          pc[w] = "idle" /\ pc'[w] = "linked" =>
              LET c == changes'[change'[w]]
              IN  c.status = "PUBLISHED" \/ BaseFits(c.base)]_vars

-----------------------------------------------------------------------------
(***************************************************************************)
(* The inductive invariant behind them.                                    *)
(***************************************************************************)
\* A request on its way holds the change that its plan is linked to.
RequestsLinked ==
    \A w \in Handlers :
        /\ pc[w] \in {"linked", "published"} =>
              /\ plan[w] \in Plans
              /\ change[w] = plans[plan[w]].linked
        /\ pc[w] # "idle" => change[w] \in ChangeIds
        /\ pc[w] = "published" => IsPublished(change[w])

\* Revisions only grow, and grow with each publication that edits a page: the
\* state its change was bound to never comes back.
BasesGone ==
    /\ \A c \in ChangeIds :
          /\ changes[c].base = changes[c].summary
          /\ \A p \in Pages : changes[c].base[p] <= corpus[p]
    /\ \A k \in 1..Len(published) : published[k].pages # {} =>
          \E p \in Pages : changes[published[k].change].base[p] < corpus[p]

\* A change reads PUBLISHED only once it is.
StatusIsTrue ==
    \A c \in ChangeIds : changes[c].status = "PUBLISHED" => IsPublished(c)

\* A plan is linked to nothing or to a change there is.
LinksExist ==
    \A d \in Plans :
        /\ plans[d].linked \in 0..Len(changes)
        /\ plans[d].status = "NONE" => plans[d].linked = 0

Inductive ==
    /\ TypeOK
    /\ LinksExist
    /\ RequestsLinked
    /\ StatusIsTrue
    /\ BasesGone
    /\ OneChangePerPlan
    /\ PublishedPlanIsApplied
    /\ PublishedOnce
=============================================================================

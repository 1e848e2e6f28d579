---------------------------- MODULE ProducerProofs ----------------------------
(***************************************************************************)
(* Proofs about the programs that make changes step by step, each call a   *)
(* transaction of its own: reorganisation plans, the catalogue generators, *)
(* and the importer of metered rules.                                      *)
(***************************************************************************)
EXTENDS Reorganisation, Generators, MeterRules,
        SequenceTheorems, FiniteSetTheorems, TLAPS

-----------------------------------------------------------------------------
(***************************************************************************)
(* Reorganisation plans: one change to a plan, whoever publishes it.       *)
(***************************************************************************)
-----------------------------------------------------------------------------
(***************************************************************************)
(* Steps, by what they may change.                                         *)
(***************************************************************************)
\* A plan gets another status or more operations.
EditsPlan ==
    /\ UNCHANGED <<corpus, changes, published, request>>
    /\ \E d \in Plans, row \in PlanRecord :
          /\ plans' = [plans EXCEPT ![d] = row]
          /\ row.linked = plans[d].linked
          /\ row.status \notin {"NONE", "PUBLISHED"}

\* A request moves on without writing.
MovesOn(w) ==
    /\ UNCHANGED tables
    /\ \/ Idle(w)
       \/ \E d \in Plans : plans[d].linked # 0 /\ Proceed(w, d, plans[d].linked)
       \/ \E c \in ChangeIds : BeginExtend(w, c)
       \/ /\ pc[w] = "linked" /\ changes[change[w]].status = "PUBLISHED"
          /\ pc' = [pc EXCEPT ![w] = "published"]
          /\ UNCHANGED <<plan, change>>

\* A change gets another status, not PUBLISHED, or one more operation.
EditsChange ==
    /\ UNCHANGED <<corpus, plans, published>>
    /\ UNCHANGED request \/ \E w \in Handlers : Idle(w)
    /\ \E c \in ChangeIds, row \in ChangeRecord :
          /\ changes' = [changes EXCEPT ![c] = row]
          /\ row.base = changes[c].base
          /\ row.summary = changes[c].summary
          /\ row.plan = changes[c].plan
          /\ row.status # "PUBLISHED"

LEMMA SubmittedOps ==
    ASSUME TypeOK
    PROVE  Submitted \subseteq Operation
BY DEF Submitted, Operation, Resources, TypeOK, Corpora

LEMMA ChangesTyped ==
    ASSUME TypeOK
    PROVE  \A c \in ChangeIds : /\ changes[c] \in ChangeRecord
                               /\ changes[c].plan \in Plans
                               /\ changes[c].summary \in Corpora
                               /\ changes[c].ops \subseteq Operation
<1>1. \A c \in ChangeIds : changes[c] \in ChangeRecord
  BY ElementOfSeq DEF TypeOK, ChangeIds
<1> QED
  BY <1>1 DEF ChangeRecord

LEMMA EventsTyped ==
    ASSUME TypeOK
    PROVE  \A k \in 1..Len(published) : /\ published[k] \in Event
                                       /\ published[k].change \in ChangeIds
<1>1. \A k \in 1..Len(published) : published[k] \in Event
  BY ElementOfSeq DEF TypeOK
<1> QED
  BY <1>1 DEF Event

LEMMA PlanEdits ==
    ASSUME TypeOK, LinksExist,
           \/ \E d \in Plans :
                 \/ \E base \in {None, corpus} : CreatePlan(d, base)
                 \/ \E op \in Submitted : AddOperation(d, op)
                 \/ AnalyzePlan(d) \/ ValidatePlan(d)
           \/ \E w \in Handlers, d \in Plans : RejectPlan(w, d)
    PROVE  EditsPlan
<1>1. \A d \in Plans : plans[d] \in PlanRecord
  BY DEF TypeOK
<1>2. ASSUME NEW d \in Plans, NEW base \in {None, corpus}, CreatePlan(d, base)
      PROVE  EditsPlan
  <2> DEFINE row == [NoPlan EXCEPT !.status = "DRAFT", !.base = base]
  <2>1. row \in PlanRecord /\ row.linked = 0 /\ row.status = "DRAFT"
    BY DEF NoPlan, PlanRecord, Mutable, TypeOK
  <2>2. plans' = [plans EXCEPT ![d] = row] /\ plans[d].linked = 0
    BY <1>2 DEF CreatePlan, LinksExist
  <2>3. UNCHANGED <<corpus, changes, published, request>>
    BY <1>2 DEF CreatePlan
  <2> HIDE DEF row
  <2> QED
    BY <2>1, <2>2, <2>3 DEF EditsPlan
<1>3. ASSUME NEW d \in Plans, NEW op \in Submitted, AddOperation(d, op)
      PROVE  EditsPlan
  <2>1. op \in Operation
    BY SubmittedOps
  <2> DEFINE ops == plans[d].ops \cup {op}
             row == [plans[d] EXCEPT !.ops = ops, !.status = "DRAFT"]
  <2>2. ops \in SUBSET Operation
    BY <1>1, <2>1 DEF PlanRecord
  <2>3. plans' = [plans EXCEPT ![d] = row]
    BY <1>3 DEF AddOperation, TypeOK
  <2>4. UNCHANGED <<corpus, changes, published, request>>
    BY <1>3 DEF AddOperation
  <2> HIDE DEF ops
  <2>5. /\ row \in PlanRecord /\ row.linked = plans[d].linked
        /\ row.status = "DRAFT"
    BY <1>1, <2>2 DEF PlanRecord, Mutable
  <2> HIDE DEF row
  <2> QED
    BY <2>3, <2>4, <2>5 DEF EditsPlan
<1>4. ASSUME NEW d \in Plans, NEW status \in {"ANALYZED", "VALIDATED", "FAILED"},
             plans' = [plans EXCEPT ![d].status = status],
             UNCHANGED <<corpus, changes, published, request>>
      PROVE  EditsPlan
  <2> DEFINE row == [plans[d] EXCEPT !.status = status]
  <2>1. plans' = [plans EXCEPT ![d] = row]
    BY <1>4 DEF TypeOK
  <2>2. /\ row \in PlanRecord /\ row.linked = plans[d].linked
        /\ row.status = status
    BY <1>1 DEF PlanRecord, Mutable
  <2> HIDE DEF row
  <2> QED
    BY <1>4, <2>1, <2>2 DEF EditsPlan
<1>5. ASSUME NEW d \in Plans, AnalyzePlan(d) PROVE EditsPlan
  BY <1>4, <1>5 DEF AnalyzePlan
<1>6. ASSUME NEW d \in Plans, ValidatePlan(d) PROVE EditsPlan
  BY <1>4, <1>6 DEF ValidatePlan
<1>7. ASSUME NEW w \in Handlers, NEW d \in Plans, RejectPlan(w, d)
      PROVE  EditsPlan
  BY <1>4, <1>7 DEF RejectPlan
<1> QED
  BY <1>2, <1>3, <1>5, <1>6, <1>7

LEMMA ChangeEdits ==
    ASSUME TypeOK, RequestsLinked,
           \/ \E w \in Handlers : \/ RejectLinked(w)
                                 \/ \E op \in Submitted : FinishExtend(w, op)
           \/ \E c \in ChangeIds :
                 RejectChange(c) \/ ValidateChange(c) \/ AbandonChange(c)
    PROVE  EditsChange
<1>1. \A c \in ChangeIds : changes[c] \in ChangeRecord
  BY ElementOfSeq DEF TypeOK, ChangeIds
<1>2. changes \in [ChangeIds -> ChangeRecord]
  BY LenProperties DEF TypeOK, ChangeIds
<1>3. ASSUME NEW c \in ChangeIds, NEW status \in {"DRAFT", "VALIDATED", "ABANDONED"},
             changes' = [changes EXCEPT ![c].status = status]
      PROVE  \E row \in ChangeRecord :
                /\ changes' = [changes EXCEPT ![c] = row]
                /\ row.base = changes[c].base
                /\ row.summary = changes[c].summary
                /\ row.plan = changes[c].plan
                /\ row.status # "PUBLISHED"
  <2> DEFINE row == [changes[c] EXCEPT !.status = status]
  <2>1. changes' = [changes EXCEPT ![c] = row]
    BY <1>2, <1>3
  <2>2. /\ row \in ChangeRecord
        /\ row.base = changes[c].base /\ row.summary = changes[c].summary
        /\ row.plan = changes[c].plan /\ row.status = status
    BY <1>1 DEF ChangeRecord
  <2> HIDE DEF row
  <2> QED
    BY <2>1, <2>2
<1>4. ASSUME NEW c \in ChangeIds,
             \/ RejectChange(c) \/ ValidateChange(c) \/ AbandonChange(c)
      PROVE  EditsChange
  BY <1>3, <1>4
  DEF RejectChange, Reject, ValidateChange, AbandonChange, EditsChange
<1>5. ASSUME NEW w \in Handlers, RejectLinked(w)
      PROVE  EditsChange
  <2>1. change[w] \in ChangeIds
    BY <1>5 DEF RejectLinked, RequestsLinked
  <2> QED
    BY <1>3, <1>5, <2>1 DEF RejectLinked, Reject, EditsChange
<1>6. ASSUME NEW w \in Handlers, NEW op \in Submitted, FinishExtend(w, op)
      PROVE  EditsChange
  <2>1. change[w] \in ChangeIds
    BY <1>6 DEF FinishExtend, RequestsLinked
  <2>2. op \in Operation
    BY SubmittedOps
  <2> DEFINE c == change[w]
             ops == changes[c].ops \cup {op}
             row == [changes[c] EXCEPT !.ops = ops, !.status = "DRAFT"]
  <2>3. ops \in SUBSET Operation
    BY <1>1, <2>1, <2>2 DEF ChangeRecord
  <2>4. changes' = [changes EXCEPT ![c] = row]
    BY <1>2, <1>6, <2>1 DEF FinishExtend
  <2>a. changes[c] \in ChangeRecord
    BY <1>1, <2>1
  <2> HIDE DEF ops, c
  <2>5. /\ row \in ChangeRecord
        /\ row.base = changes[c].base /\ row.summary = changes[c].summary
        /\ row.plan = changes[c].plan /\ row.status = "DRAFT"
    BY <2>a, <2>3 DEF ChangeRecord
  <2> HIDE DEF row
  <2> QED
    BY <1>6, <2>1, <2>4, <2>5 DEF FinishExtend, EditsChange, c
<1> QED
  BY <1>4, <1>5, <1>6

LEMMA Moves ==
    ASSUME TypeOK, NEW w \in Handlers,
           \/ \E d \in Plans : ResumePlan(w, d)
           \/ LinkedAbandoned(w) \/ Crash(w)
           \/ \E c \in ChangeIds : BeginExtend(w, c)
           \/ /\ PublishLinked(w)
              /\ changes[change[w]].status = "PUBLISHED"
    PROVE  MovesOn(w)
BY DEF ResumePlan, LinkedAbandoned, Crash, BeginExtend, PublishLinked, Publish,
       MovesOn, tables

\* Every step is of one of six kinds.
LEMMA Kinds ==
    ASSUME TypeOK, LinksExist, RequestsLinked, Next
    PROVE  \/ EditsPlan \/ EditsChange
           \/ \E w \in Handlers :
                 \/ MovesOn(w) \/ MarkPublished(w)
                 \/ PublishLinked(w) /\ Publish(change[w])
                 \/ \E d \in Plans : LinkPlan(w, d)
           \/ \E c \in ChangeIds : PublishChange(c)
           \/ \E op \in Submitted : PublishOther(op)
<1>1. ASSUME NEW w \in Handlers, PublishLinked(w), ~Publish(change[w])
      PROVE  MovesOn(w)
  BY <1>1, Moves DEF PublishLinked
<1> QED
  BY <1>1, PlanEdits, ChangeEdits, Moves DEF Next
-----------------------------------------------------------------------------
(***************************************************************************)
(* The inductive invariant, one kind of step at a time.                    *)
(***************************************************************************)
LEMMA InductiveInit == Init => Inductive
<1> SUFFICES ASSUME Init PROVE Inductive
  OBVIOUS
<1>1. /\ Len(changes) = 0 /\ Len(published) = 0 /\ ChangeIds = {}
      /\ \A c : ~IsPublished(c)
  BY DEF Init, ChangeIds, IsPublished
<1>2. TypeOK
  <2>1. NoPlan \in PlanRecord
    BY DEF NoPlan, PlanRecord
  <2>2. changes \in Seq(ChangeRecord) /\ published \in Seq(Event)
    BY DEF Init
  <2> QED
    BY <1>1, <2>1, <2>2 DEF Init, TypeOK, Corpora, Resources
<1>3. LinksExist /\ PublishedPlanIsApplied
  BY <1>1 DEF Init, LinksExist, PublishedPlanIsApplied, NoPlan
<1>4. RequestsLinked
  BY DEF Init, RequestsLinked
<1>5. StatusIsTrue /\ BasesGone /\ OneChangePerPlan /\ PublishedOnce
  BY <1>1 DEF StatusIsTrue, BasesGone, OneChangePerPlan, PublishedOnce
<1> QED
  BY <1>2, <1>3, <1>4, <1>5 DEF Inductive

\* The end of a request.
LEMMA IdleKeeps ==
    ASSUME TypeOK, RequestsLinked, NEW w \in Handlers, Idle(w)
    PROVE  /\ pc' \in [Handlers -> {"idle", "linked", "published", "extending"}]
           /\ plan' \in [Handlers -> Plans \cup {None}]
           /\ change' \in [Handlers -> 0..Len(changes)]
           /\ \A u \in Handlers : pc'[u] # "idle" =>
                 /\ pc'[u] = pc[u] /\ plan'[u] = plan[u]
                 /\ change'[u] = change[u]
<1>1. 0 \in 0..Len(changes)
  BY LenProperties DEF TypeOK
<1> QED
  BY <1>1 DEF TypeOK, Idle

LEMMA EditsPlanKeeps ==
    ASSUME Inductive, EditsPlan
    PROVE  Inductive'
<1>1. PICK d \in Plans, row \in PlanRecord :
          /\ plans' = [plans EXCEPT ![d] = row]
          /\ row.linked = plans[d].linked
          /\ row.status \notin {"NONE", "PUBLISHED"}
  BY DEF EditsPlan
<1>2. /\ corpus' = corpus /\ changes' = changes /\ published' = published
      /\ pc' = pc /\ plan' = plan /\ change' = change
  BY DEF EditsPlan, request
<1>3. /\ plans' \in [Plans -> PlanRecord]
      /\ \A e \in Plans : /\ plans'[e].linked = plans[e].linked
                          /\ plans'[e].status \in {"NONE", "PUBLISHED"} =>
                                plans'[e] = plans[e]
  BY <1>1 DEF Inductive, TypeOK
<1>4. ChangeIds' = ChangeIds /\ Event' = Event
      /\ \A c : IsPublished(c)' <=> IsPublished(c)
  BY <1>2 DEF ChangeIds, Event, IsPublished
<1>5. TypeOK'
  BY <1>2, <1>3, <1>4 DEF Inductive, TypeOK
<1>6. LinksExist' /\ PublishedPlanIsApplied'
  BY <1>2, <1>3, <1>4 DEF Inductive, LinksExist, PublishedPlanIsApplied
<1>7. RequestsLinked'
  BY <1>2, <1>3, <1>4 DEF Inductive, RequestsLinked
<1>8. StatusIsTrue' /\ BasesGone' /\ PublishedOnce'
  BY <1>2, <1>4 DEF Inductive, StatusIsTrue, BasesGone, PublishedOnce
<1>9. OneChangePerPlan'
  <2>1. \A c \in ChangeIds : changes[c].plan \in Plans
    BY ChangesTyped DEF Inductive
  <2> QED
    BY <1>2, <1>3, <1>4, <2>1 DEF Inductive, OneChangePerPlan
<1> QED
  BY <1>5, <1>6, <1>7, <1>8, <1>9 DEF Inductive

LEMMA EditsChangeKeeps ==
    ASSUME Inductive, EditsChange
    PROVE  Inductive'
<1>1. PICK c \in ChangeIds, row \in ChangeRecord :
          /\ changes' = [changes EXCEPT ![c] = row]
          /\ row.base = changes[c].base
          /\ row.summary = changes[c].summary
          /\ row.plan = changes[c].plan
          /\ row.status # "PUBLISHED"
  BY DEF EditsChange
<1>2. corpus' = corpus /\ plans' = plans /\ published' = published
  BY DEF EditsChange
<1>3. /\ changes' \in Seq(ChangeRecord) /\ Len(changes') = Len(changes)
      /\ \A e \in ChangeIds :
            /\ changes'[e].base = changes[e].base
            /\ changes'[e].summary = changes[e].summary
            /\ changes'[e].plan = changes[e].plan
            /\ changes'[e].status = "PUBLISHED" =>
                  changes[e].status = "PUBLISHED"
  BY <1>1, ExceptSeq DEF Inductive, TypeOK, ChangeIds
<1>4. ChangeIds' = ChangeIds /\ Event' = Event
      /\ \A e : IsPublished(e)' <=> IsPublished(e)
  BY <1>2, <1>3 DEF ChangeIds, Event, IsPublished
<1>5. /\ pc' \in [Handlers -> {"idle", "linked", "published", "extending"}]
      /\ plan' \in [Handlers -> Plans \cup {None}]
      /\ change' \in [Handlers -> 0..Len(changes)]
      /\ \A u \in Handlers : pc'[u] # "idle" =>
            /\ pc'[u] = pc[u] /\ plan'[u] = plan[u]
            /\ change'[u] = change[u]
  <2>1. CASE UNCHANGED request
    BY <2>1 DEF request, Inductive, TypeOK
  <2>2. CASE \E w \in Handlers : Idle(w)
    BY <2>2, IdleKeeps DEF Inductive
  <2> QED
    BY <2>1, <2>2 DEF EditsChange
<1>6. TypeOK'
  BY <1>2, <1>3, <1>4, <1>5 DEF Inductive, TypeOK
<1>7. LinksExist' /\ PublishedPlanIsApplied' /\ PublishedOnce'
  BY <1>2, <1>3, <1>4
  DEF Inductive, LinksExist, PublishedPlanIsApplied, PublishedOnce
<1>8. RequestsLinked'
  BY <1>2, <1>4, <1>5 DEF Inductive, RequestsLinked
<1>9. StatusIsTrue' /\ BasesGone' /\ OneChangePerPlan'
  <2>1. \A k \in 1..Len(published) : published[k].change \in ChangeIds
    BY EventsTyped DEF Inductive
  <2> QED
    BY <1>2, <1>3, <1>4, <2>1
    DEF Inductive, StatusIsTrue, BasesGone, OneChangePerPlan
<1> QED
  BY <1>6, <1>7, <1>8, <1>9 DEF Inductive

\* When the tables stay, only the requests matter.
LEMMA TablesKept ==
    ASSUME Inductive, UNCHANGED tables,
           pc' \in [Handlers -> {"idle", "linked", "published", "extending"}],
           plan' \in [Handlers -> Plans \cup {None}],
           change' \in [Handlers -> 0..Len(changes)],
           RequestsLinked'
    PROVE  Inductive'
<1>1. /\ corpus' = corpus /\ plans' = plans /\ changes' = changes
      /\ published' = published
  BY DEF tables
<1>2. ChangeIds' = ChangeIds /\ Event' = Event
      /\ \A c : IsPublished(c)' <=> IsPublished(c)
  BY <1>1 DEF ChangeIds, Event, IsPublished
<1>3. TypeOK'
  BY <1>1, <1>2 DEF Inductive, TypeOK
<1> QED
  BY <1>1, <1>2, <1>3
  DEF Inductive, LinksExist, StatusIsTrue, BasesGone, OneChangePerPlan,
      PublishedPlanIsApplied, PublishedOnce

LEMMA MovesOnKeeps ==
    ASSUME Inductive, NEW w \in Handlers, MovesOn(w)
    PROVE  Inductive'
<1>1. /\ corpus' = corpus /\ plans' = plans /\ changes' = changes
      /\ published' = published
  BY DEF MovesOn, tables
<1>2. ChangeIds' = ChangeIds /\ Event' = Event
      /\ \A c : IsPublished(c)' <=> IsPublished(c)
  BY <1>1 DEF ChangeIds, Event, IsPublished
<1>3. ChangeIds = 1..Len(changes) /\ Len(changes) \in Nat
  BY LenProperties DEF ChangeIds, Inductive, TypeOK
<1>4. CASE Idle(w)
  <2>1. RequestsLinked'
    BY <1>1, <1>2, <1>4, IdleKeeps DEF Inductive, RequestsLinked
  <2> QED
    BY <1>1, <1>4, <2>1, IdleKeeps, TablesKept DEF Inductive, tables
<1>5. ASSUME NEW d \in Plans, plans[d].linked # 0,
             Proceed(w, d, plans[d].linked)
      PROVE  Inductive'
  <2>1. plans[d].linked \in ChangeIds
    BY <1>3, <1>5 DEF Inductive, LinksExist
  <2>2. /\ pc' \in [Handlers -> {"idle", "linked", "published", "extending"}]
        /\ plan' \in [Handlers -> Plans \cup {None}]
        /\ change' \in [Handlers -> 0..Len(changes)]
    BY <1>3, <1>5, <2>1 DEF Inductive, TypeOK, Proceed
  <2>3. RequestsLinked'
    BY <1>1, <1>2, <1>5, <2>1 DEF Inductive, TypeOK, RequestsLinked, Proceed
  <2> QED
    BY <1>1, <2>2, <2>3, TablesKept DEF tables
<1>6. ASSUME NEW c \in ChangeIds, BeginExtend(w, c)
      PROVE  Inductive'
  <2>1. /\ pc' \in [Handlers -> {"idle", "linked", "published", "extending"}]
        /\ plan' \in [Handlers -> Plans \cup {None}]
        /\ change' \in [Handlers -> 0..Len(changes)]
    BY <1>3, <1>6 DEF Inductive, TypeOK, BeginExtend
  <2>2. RequestsLinked'
    BY <1>1, <1>2, <1>6 DEF Inductive, TypeOK, RequestsLinked, BeginExtend
  <2> QED
    BY <1>1, <2>1, <2>2, TablesKept DEF tables
<1>7. CASE /\ pc[w] = "linked" /\ changes[change[w]].status = "PUBLISHED"
           /\ pc' = [pc EXCEPT ![w] = "published"]
           /\ UNCHANGED <<plan, change>>
  <2>1. IsPublished(change[w])
    BY <1>7 DEF Inductive, RequestsLinked, StatusIsTrue
  <2>2. RequestsLinked'
    BY <1>1, <1>2, <1>7, <2>1 DEF Inductive, TypeOK, RequestsLinked
  <2> QED
    BY <1>1, <1>7, <2>2, TablesKept DEF tables, Inductive, TypeOK
<1> QED
  BY <1>4, <1>5, <1>6, <1>7 DEF MovesOn

LEMMA MarkKeeps ==
    ASSUME Inductive, NEW w \in Handlers, MarkPublished(w)
    PROVE  Inductive'
<1> DEFINE d == plan[w]
           row == [plans[d] EXCEPT !.status = "PUBLISHED"]
<1>1. d \in Plans /\ IsPublished(plans[d].linked)
  BY DEF Inductive, RequestsLinked, MarkPublished
<1>2. /\ plans[d] \in PlanRecord
      /\ plans' = [plans EXCEPT ![d] = row]
  BY <1>1 DEF Inductive, TypeOK, MarkPublished
<1> HIDE DEF d
<1>3. /\ row \in PlanRecord /\ row.linked = plans[d].linked
      /\ row.status = "PUBLISHED"
  BY <1>2 DEF PlanRecord
<1> HIDE DEF row
<1>4. /\ plans' \in [Plans -> PlanRecord]
      /\ \A e \in Plans : /\ plans'[e].linked = plans[e].linked
                          /\ e # d => plans'[e] = plans[e]
      /\ plans'[d].status = "PUBLISHED"
  BY <1>1, <1>2, <1>3 DEF Inductive, TypeOK
<1>5. corpus' = corpus /\ changes' = changes /\ published' = published
  BY DEF MarkPublished
<1>6. ChangeIds' = ChangeIds /\ Event' = Event
      /\ \A c : IsPublished(c)' <=> IsPublished(c)
  BY <1>5 DEF ChangeIds, Event, IsPublished
<1>7. TypeOK'
  BY <1>4, <1>5, <1>6, IdleKeeps DEF Inductive, TypeOK, MarkPublished
<1>8. LinksExist' /\ PublishedPlanIsApplied'
  BY <1>1, <1>4, <1>5, <1>6 DEF Inductive, LinksExist, PublishedPlanIsApplied
<1>9. RequestsLinked'
  BY <1>4, <1>6, IdleKeeps DEF Inductive, RequestsLinked, MarkPublished
<1>10. StatusIsTrue' /\ BasesGone' /\ PublishedOnce'
  BY <1>5, <1>6 DEF Inductive, StatusIsTrue, BasesGone, PublishedOnce
<1>11. OneChangePerPlan'
  <2>1. \A c \in ChangeIds : changes[c].plan \in Plans
    BY ChangesTyped DEF Inductive
  <2> QED
    BY <1>4, <1>5, <1>6, <2>1 DEF Inductive, OneChangePerPlan
<1> QED
  BY <1>7, <1>8, <1>9, <1>10, <1>11 DEF Inductive
LEMMA LinkKeeps ==
    ASSUME Inductive, NEW w \in Handlers, NEW d \in Plans, LinkPlan(w, d)
    PROVE  Inductive'
<1> DEFINE n == Len(changes) + 1
           new == ChangeOf(d)
           row == [plans[d] EXCEPT !.linked = n]
<1>1. /\ Len(changes) \in Nat /\ changes \in Seq(ChangeRecord)
      /\ ChangeIds = 1..Len(changes)
      /\ plans[d] \in PlanRecord
  BY LenProperties DEF Inductive, TypeOK, ChangeIds
<1>2. /\ new \in ChangeRecord /\ new.plan = d /\ new.status = "VALIDATED"
      /\ new.base = corpus /\ new.summary = corpus
  BY <1>1 DEF ChangeOf, ChangeRecord, PlanRecord, Inductive, TypeOK
<1>3. changes' = Append(changes, new) /\ plans' = [plans EXCEPT ![d] = row]
  BY DEF LinkPlan, Inductive, TypeOK
<1> HIDE DEF new
<1>4. /\ changes' \in Seq(ChangeRecord) /\ Len(changes') = n
      /\ changes'[n] = new
      /\ \A c \in ChangeIds : changes'[c] = changes[c]
  BY <1>1, <1>2, <1>3, AppendProperties
<1>5. /\ n \in Nat /\ ChangeIds' = 1..n
      /\ ChangeIds' = ChangeIds \cup {n} /\ n \notin ChangeIds
  BY <1>1, <1>4 DEF ChangeIds
<1> HIDE DEF n
<1>6. row \in PlanRecord /\ row.linked = n /\ row.status = plans[d].status
  BY <1>1, <1>5 DEF PlanRecord
<1> HIDE DEF row
<1>7. /\ plans' \in [Plans -> PlanRecord]
      /\ plans'[d].linked = n /\ plans'[d].status = plans[d].status
      /\ \A e \in Plans \ {d} : plans'[e] = plans[e]
  BY <1>3, <1>6 DEF Inductive, TypeOK
<1>8. /\ corpus' = corpus /\ published' = published
      /\ plans[d].linked = 0 /\ plans[d].status # "NONE" /\ ~Settled(d)
      /\ Proceed(w, d, n)
  BY DEF LinkPlan, n
<1>9. \A c : IsPublished(c)' <=> IsPublished(c)
  BY <1>8 DEF IsPublished
<1>10. TypeOK'
  <2>1. 0..Len(changes) \subseteq 0..n
    BY <1>1, <1>5 DEF n
  <2>2. published' \in Seq(Event')
    <3>1. published \in Seq(Event) /\ Event \subseteq Event'
      BY <1>5 DEF Inductive, TypeOK, Event
    <3> QED
      BY <1>8, <3>1
  <2>3. n \in 0..n
    BY <1>5
  <2>4. /\ pc' \in [Handlers -> {"idle", "linked", "published", "extending"}]
        /\ plan' \in [Handlers -> Plans \cup {None}]
        /\ change' \in [Handlers -> 0..n]
    BY <1>8, <2>1, <2>3 DEF Inductive, TypeOK, Proceed
  <2> QED
    BY <1>4, <1>7, <1>8, <2>2, <2>4 DEF Inductive, TypeOK
<1>11. LinksExist'
  <2>1. n \in 0..n /\ 0..Len(changes) \subseteq 0..n
    BY <1>1, <1>5 DEF n
  <2> QED
    BY <1>4, <1>7, <1>8, <2>1 DEF Inductive, LinksExist
<1>12. RequestsLinked'
  <2> DEFINE Linked(u) ==
        /\ pc[u] \in {"linked", "published"} =>
              /\ plan[u] \in Plans
              /\ change[u] = plans[plan[u]].linked
        /\ pc[u] # "idle" => change[u] \in ChangeIds
        /\ pc[u] = "published" => IsPublished(change[u])
  <2>1. Linked(w)'
    <3>1. pc'[w] = "linked" /\ plan'[w] = d /\ change'[w] = n
      BY <1>8 DEF Inductive, TypeOK, Proceed
    <3> QED
      BY <1>5, <1>7, <3>1
  <2>2. ASSUME NEW u \in Handlers, u # w
        PROVE  Linked(u)'
    <3>1. /\ pc'[u] = pc[u] /\ plan'[u] = plan[u] /\ change'[u] = change[u]
      BY <1>8, <2>2 DEF Inductive, TypeOK, Proceed
    <3>2. Linked(u)
      BY DEF Inductive, RequestsLinked
    <3>3. pc[u] \in {"linked", "published"} => plan[u] # d
      BY <1>1, <1>8, <3>2
    <3> QED
      BY <1>5, <1>7, <1>9, <3>1, <3>2, <3>3
  <2> QED
    BY <2>1, <2>2 DEF RequestsLinked
<1>13. \A c \in ChangeIds : c # n /\ changes[c].plan # d
  <2>1. \A c \in ChangeIds : plans[changes[c].plan].linked = c /\ c # 0
    BY <1>1 DEF Inductive, OneChangePerPlan
  <2> QED
    BY <1>5, <1>8, <2>1
<1>14. ~IsPublished(n)
  <2>1. \A k \in 1..Len(published) : published[k].change \in ChangeIds
    BY EventsTyped DEF Inductive
  <2> QED
    BY <1>5, <2>1 DEF IsPublished
<1>15. OneChangePerPlan'
  <2>1. \A c \in ChangeIds : plans'[changes'[c].plan].linked = c
    BY <1>4, <1>7, <1>13, ChangesTyped DEF Inductive, OneChangePerPlan
  <2> QED
    BY <1>2, <1>4, <1>5, <1>7, <2>1 DEF OneChangePerPlan
<1>16. StatusIsTrue'
  BY <1>2, <1>4, <1>5, <1>9 DEF Inductive, StatusIsTrue
<1>17. BasesGone'
  <2>1. \A p \in Pages : corpus[p] <= corpus[p]
    BY DEF Inductive, TypeOK, Corpora, Resources
  <2>2. \A k \in 1..Len(published) : published[k].change \in ChangeIds
    BY EventsTyped DEF Inductive
  <2>3. \A c \in ChangeIds' :
           /\ changes'[c].base = changes'[c].summary
           /\ \A p \in Pages : changes'[c].base[p] <= corpus[p]
    BY <1>2, <1>4, <1>5, <2>1 DEF Inductive, BasesGone
  <2> QED
    BY <1>4, <1>8, <2>2, <2>3 DEF Inductive, BasesGone
<1>18. PublishedPlanIsApplied' /\ PublishedOnce'
  <2>1. plans[d].status # "PUBLISHED"
    <3>1. ~IsPublished(0)
      <4>1. \A k \in 1..Len(published) : published[k].change \in ChangeIds
        BY EventsTyped DEF Inductive
      <4> QED
        BY <1>1, <4>1 DEF IsPublished
    <3> QED
      BY <1>8, <3>1 DEF Inductive, PublishedPlanIsApplied
  <2> QED
    BY <1>7, <1>8, <1>9, <2>1 DEF Inductive, PublishedPlanIsApplied, PublishedOnce
<1> QED
  BY <1>10, <1>11, <1>12, <1>15, <1>16, <1>17, <1>18 DEF Inductive

\* What a publication makes of the corpus.
LEMMA PublishedState ==
    ASSUME NEW ops, corpus \in Corpora, corpus' \in Outcomes(ops)
    PROVE  /\ corpus' \in Corpora
           /\ \A p \in Pages : /\ corpus[p] \in Nat /\ corpus'[p] \in Nat
                               /\ corpus[p] <= corpus'[p]
           /\ \A p \in Touched(ops) : corpus'[p] = corpus[p] + 1
<1>1. /\ corpus' \in [Resources -> 0..MaxRevision]
      /\ 0..MaxRevision \subseteq Nat
      /\ Pages \subseteq Resources /\ Touched(ops) \subseteq Pages
  BY ReorganisationAssumption DEF Outcomes, Resources, Touched
<1>2. corpus' \in Corpora
  BY <1>1 DEF Corpora
<1>3. \A p \in Pages : corpus[p] \in Nat /\ corpus'[p] \in Nat
  BY <1>1, <1>2 DEF Corpora
<1>4. \A p \in Touched(ops) : corpus'[p] = corpus[p] + 1
  BY <1>1 DEF Outcomes
<1>5. ASSUME NEW p \in Pages \ Touched(ops)
      PROVE  corpus'[p] = corpus[p]
  <2>1. Values(ops, p) = {}
    BY DEF Values, Touched
  <2> QED
    BY <1>1, <2>1 DEF Outcomes
<1> QED
  BY <1>2, <1>3, <1>4, <1>5

\* What publish_change commits: all of the invariant but the requests.
LEMMA PublishKeeps ==
    ASSUME Inductive, NEW c \in ChangeIds, Publish(c), plans' = plans
    PROVE  /\ corpus' \in Corpora
           /\ changes' \in Seq(ChangeRecord) /\ Len(changes') = Len(changes)
           /\ published' \in Seq(Event')
           /\ ChangeIds' = ChangeIds /\ Event' = Event
           /\ \A e : IsPublished(e)' <=> IsPublished(e) \/ e = c
           /\ corpus = changes[c].summary /\ changes'[c].summary = corpus
           /\ published'[Len(published')].change = c
           /\ LinksExist' /\ StatusIsTrue' /\ BasesGone' /\ OneChangePerPlan'
           /\ PublishedPlanIsApplied' /\ PublishedOnce'
<1> DEFINE row == [changes[c] EXCEPT !.status = "PUBLISHED"]
<1>1. /\ changes \in Seq(ChangeRecord) /\ published \in Seq(Event)
      /\ changes[c] \in ChangeRecord /\ corpus \in Corpora
      /\ c \in 1..Len(changes)
  BY ChangesTyped DEF Inductive, TypeOK, ChangeIds
<1>2. changes' = [changes EXCEPT ![c] = row]
  BY <1>1, LenProperties DEF Publish
<1>3. /\ row \in ChangeRecord
      /\ row.base = changes[c].base /\ row.summary = changes[c].summary
      /\ row.plan = changes[c].plan
  BY <1>1 DEF ChangeRecord
<1> HIDE DEF row
<1>4. /\ changes' \in Seq(ChangeRecord) /\ Len(changes') = Len(changes)
      /\ \A e \in ChangeIds :
            /\ changes'[e].base = changes[e].base
            /\ changes'[e].summary = changes[e].summary
            /\ changes'[e].plan = changes[e].plan
            /\ e # c => changes'[e] = changes[e]
  BY <1>1, <1>2, <1>3, ExceptSeq DEF ChangeIds
<1>5. ChangeIds' = ChangeIds /\ Event' = Event
  BY <1>4 DEF ChangeIds, Event
<1> DEFINE T == Touched(changes[c].ops)
           event == [change |-> c, pages |-> T]
<1>a. event \in Event /\ event.change = c /\ event.pages = T
  BY DEF Event, Touched
<1>b. published' = Append(published, event)
  BY DEF Publish
<1> HIDE DEF T, event
<1>6. /\ published' \in Seq(Event)
      /\ Len(published) \in Nat
      /\ Len(published') = Len(published) + 1
      /\ published'[Len(published) + 1] = event
      /\ \A k \in 1..Len(published) : published'[k] = published[k]
  BY <1>1, <1>a, <1>b, AppendProperties, LenProperties
<1>7. \A e : IsPublished(e)' <=> IsPublished(e) \/ e = c
  BY <1>6, <1>a DEF IsPublished
<1>8. changes[c].base = corpus /\ changes[c].summary = corpus
  <2>1. /\ changes[c].base = changes[c].summary
        /\ changes[c].summary \in Corpora
    BY ChangesTyped DEF Inductive, BasesGone
  <2>2. changes[c].base # None
    BY <2>1, ReorganisationAssumption DEF Corpora, Resources
  <2> QED
    BY <2>1, <2>2 DEF Publish, Passed, BaseFits
<1>9. \A k \in 1..Len(published) :
         published[k].change = c => published[k].pages = {}
  <2>1. \A p \in Pages : corpus[p] \in Nat
    BY <1>1 DEF Corpora, Resources
  <2> QED
    BY <1>8, <2>1 DEF Inductive, BasesGone
<1>10. /\ T \subseteq Pages
       /\ \A p \in Pages : corpus[p] \in Nat /\ corpus'[p] \in Nat
       /\ \A p \in Pages : corpus[p] <= corpus'[p]
       /\ \A p \in T : corpus'[p] = corpus[p] + 1
       /\ corpus' \in Corpora
  <2>1. corpus' \in Outcomes(changes[c].ops) /\ T \subseteq Pages
    BY DEF Publish, Touched, T
  <2> QED
    BY <1>1, <2>1, PublishedState DEF T
<1>12. BasesGone'
  <2> DEFINE Base(e) == changes[e].base
  <2>1. ASSUME NEW e \in ChangeIds
        PROVE  /\ changes'[e].base = Base(e) /\ changes'[e].summary = Base(e)
               /\ \A p \in Pages : /\ Base(e)[p] \in Nat
                                   /\ Base(e)[p] <= corpus[p]
    BY <1>4, <2>1, ChangesTyped DEF Inductive, BasesGone, Corpora, Resources
  <2> HIDE DEF Base
  <2>2. ASSUME NEW e \in ChangeIds
        PROVE  /\ changes'[e].base = changes'[e].summary
               /\ \A p \in Pages : changes'[e].base[p] <= corpus'[p]
    BY <1>10, <2>1, <2>2
  <2>3. ASSUME NEW k \in 1..Len(published'), published'[k].pages # {}
        PROVE  \E p \in Pages : changes'[published'[k].change].base[p] < corpus'[p]
    <3>1. CASE k \in 1..Len(published)
      <4>1. published'[k] = published[k] /\ published[k].change \in ChangeIds
        BY <1>6, <3>1, EventsTyped DEF Inductive
      <4>2. PICK p \in Pages : Base(published[k].change)[p] < corpus[p]
        BY <2>3, <3>1, <4>1 DEF Inductive, BasesGone, Base
      <4> QED
        BY <1>10, <2>1, <4>1, <4>2
    <3>2. CASE k = Len(published) + 1
      <4>1. published'[k].change = c /\ published'[k].pages = T
        BY <1>6, <1>a, <3>2
      <4>2. PICK p \in T : TRUE
        BY <2>3, <4>1
      <4>3. Base(c) = corpus
        BY <1>8 DEF Base
      <4> QED
        BY <1>10, <2>1, <4>1, <4>2, <4>3
    <3> QED
      BY <1>6, <3>1, <3>2
  <2> QED
    BY <1>5, <2>2, <2>3 DEF BasesGone
<1>13. PublishedOnce'
  <2> SUFFICES ASSUME NEW j \in 1..Len(published'), NEW k \in 1..Len(published'),
                      published'[j].change = published'[k].change,
                      published'[j].pages # {}
               PROVE  k <= j
    BY DEF PublishedOnce
  <2>1. CASE j = Len(published) + 1
    BY <1>6, <2>1
  <2>2. CASE j \in 1..Len(published) /\ k \in 1..Len(published)
    BY <1>6, <2>2 DEF Inductive, PublishedOnce
  <2>3. CASE j \in 1..Len(published) /\ k = Len(published) + 1
    BY <1>6, <1>9, <1>a, <2>3
  <2> QED
    BY <1>6, <2>1, <2>2, <2>3
<1>14. LinksExist' /\ PublishedPlanIsApplied'
  BY <1>4, <1>7 DEF Inductive, LinksExist, PublishedPlanIsApplied
<1>15. StatusIsTrue' /\ OneChangePerPlan'
  BY <1>4, <1>5, <1>7 DEF Inductive, StatusIsTrue, OneChangePerPlan
<1> QED
  BY <1>1, <1>4, <1>5, <1>6, <1>7, <1>8, <1>10, <1>12, <1>13, <1>14, <1>15, <1>a

LEMMA PublishChangeKeeps ==
    ASSUME Inductive, NEW c \in ChangeIds, PublishChange(c)
    PROVE  Inductive'
<1>1. Publish(c) /\ UNCHANGED <<plans, request>>
  BY DEF PublishChange
<1>2. TypeOK'
  BY <1>1, PublishKeeps DEF Inductive, TypeOK, request
<1>3. RequestsLinked'
  BY <1>1, PublishKeeps DEF Inductive, RequestsLinked, request
<1> QED
  BY <1>1, <1>2, <1>3, PublishKeeps DEF Inductive

LEMMA PublishLinkedKeeps ==
    ASSUME Inductive, NEW w \in Handlers, PublishLinked(w), Publish(change[w])
    PROVE  Inductive'
<1>1. /\ change[w] \in ChangeIds /\ UNCHANGED <<plans, plan, change>>
      /\ pc' = [pc EXCEPT ![w] = "published"]
      /\ pc[w] = "linked"
  BY DEF PublishLinked, Inductive, RequestsLinked
<1>2. TypeOK'
  BY <1>1, PublishKeeps DEF Inductive, TypeOK
<1>3. RequestsLinked'
  BY <1>1, PublishKeeps DEF Inductive, TypeOK, RequestsLinked
<1> QED
  BY <1>1, <1>2, <1>3, PublishKeeps DEF Inductive

LEMMA PublishOtherKeeps ==
    ASSUME Inductive, NEW op \in Submitted, PublishOther(op)
    PROVE  Inductive'
<1>1. /\ plans' = plans /\ changes' = changes /\ published' = published
      /\ pc' = pc /\ plan' = plan /\ change' = change
  BY DEF PublishOther, request
<1>2. /\ corpus \in Corpora /\ corpus' \in Corpora
      /\ \A q \in Pages : corpus[q] <= corpus'[q]
  BY PublishedState DEF PublishOther, Inductive, TypeOK
<1>3. ChangeIds' = ChangeIds /\ Event' = Event
      /\ \A c : IsPublished(c)' <=> IsPublished(c)
  BY <1>1 DEF ChangeIds, Event, IsPublished
<1>4. TypeOK'
  BY <1>1, <1>2, <1>3 DEF Inductive, TypeOK
<1>5. BasesGone'
  <2>1. \A c \in ChangeIds : changes[c].base \in Corpora
    BY ChangesTyped DEF Inductive, BasesGone
  <2>2. \A q \in Pages : corpus[q] \in Nat /\ corpus'[q] \in Nat
    BY <1>2 DEF Corpora, Resources
  <2>3. \A c \in ChangeIds, q \in Pages : changes[c].base[q] \in Nat
    BY <2>1 DEF Corpora, Resources
  <2>4. \A k \in 1..Len(published) : published[k].change \in ChangeIds
    BY EventsTyped DEF Inductive
  <2> QED
    BY <1>1, <1>2, <1>3, <2>2, <2>3, <2>4 DEF Inductive, BasesGone
<1> QED
  BY <1>1, <1>3, <1>4, <1>5
  DEF Inductive, LinksExist, RequestsLinked, StatusIsTrue, OneChangePerPlan,
      PublishedPlanIsApplied, PublishedOnce

LEMMA InductiveStep ==
    ASSUME Inductive, [Next]_vars
    PROVE  Inductive'
<1>1. CASE UNCHANGED vars
  BY <1>1
  DEF vars, tables, request, Inductive, TypeOK, LinksExist, RequestsLinked,
      StatusIsTrue, BasesGone, OneChangePerPlan, PublishedPlanIsApplied,
      PublishedOnce, ChangeIds, Event, IsPublished
<1>2. CASE Next
  <2>1. TypeOK /\ LinksExist /\ RequestsLinked
    BY DEF Inductive
  <2> QED
    BY <1>2, <2>1, Kinds, EditsPlanKeeps, EditsChangeKeeps, MovesOnKeeps,
       MarkKeeps, LinkKeeps, PublishChangeKeeps, PublishLinkedKeeps,
       PublishOtherKeeps
<1> QED
  BY <1>1, <1>2

-----------------------------------------------------------------------------
(***************************************************************************)
(* The theorems.                                                           *)
(***************************************************************************)
\* Plans, their changes and the requests between them are consistent at every
\* moment, whatever stops or intervenes.
THEOREM PlansInvariant == Spec => []Inductive
<1>1. Init => Inductive
  BY InductiveInit
<1>2. Inductive /\ [Next]_vars => Inductive'
  BY InductiveStep
<1> QED
  BY <1>1, <1>2, PTL DEF Spec

\* Every variable has its type; requests and events name changes that exist.
THEOREM PlansTypeCorrect == Spec => []TypeOK
<1>1. Inductive => TypeOK
  BY DEF Inductive
<1> QED
  BY <1>1, PlansInvariant, PTL

\* One change is made of a plan (publish_plan, linked_change_id).
THEOREM PlansHaveOneChange == Spec => []OneChangePerPlan
<1>1. Inductive => OneChangePerPlan
  BY DEF Inductive
<1> QED
  BY <1>1, PlansInvariant, PTL

\* A plan that reads PUBLISHED has its change in the corpus.
THEOREM PublishedPlansAreApplied == Spec => []PublishedPlanIsApplied
<1>1. Inductive => PublishedPlanIsApplied
  BY DEF Inductive
<1> QED
  BY <1>1, PlansInvariant, PTL

\* The change of a plan enters the corpus once.
THEOREM ChangesPublishOnce == Spec => []PublishedOnce
<1>1. Inductive => PublishedOnce
  BY DEF Inductive
<1> QED
  BY <1>1, PlansInvariant, PTL

\* The change of a plan enters the corpus in the state in which publish_plan
\* evaluated it.
THEOREM ChangesPublishAsEvaluated == Spec => PublishedAsEvaluated
<1>1. ASSUME Inductive, [Next]_vars
      PROVE  [published' # published =>
                 corpus = changes[published'[Len(published')].change].summary]_vars
  <2> SUFFICES ASSUME Next, published' # published
               PROVE  corpus = changes[published'[Len(published')].change].summary
    BY <1>1 DEF vars, tables
  <2>1. PICK c \in ChangeIds : Publish(c) /\ plans' = plans
    <3>1. \/ \E w \in Handlers : PublishLinked(w) /\ Publish(change[w])
          \/ \E c \in ChangeIds : PublishChange(c)
      BY <1>1, Kinds
      DEF Inductive, EditsPlan, EditsChange, MovesOn, MarkPublished, LinkPlan,
          PublishOther, tables
    <3> QED
      BY <1>1, <3>1 DEF PublishLinked, PublishChange, Inductive, RequestsLinked
  <2> QED
    BY <1>1, <2>1, PublishKeeps
<1> QED
  BY <1>1, PlansInvariant, PTL DEF Spec, PublishedAsEvaluated

-----------------------------------------------------------------------------
(***************************************************************************)
(* Catalogue producers: a generated page published by a run that may be    *)
(* repeated at any point, under a key made from the transition or from its target.*)
(***************************************************************************)
TransitionKeys == BOOLEAN \X Nat \X Structures
PageIds == TransitionKeys \cup Nat
CataloguePages == [id : PageIds, content : Structures, revision : Nat \ {0}]
Operations == [type : {"CREATE_PAGE", "REPLACE_DOCUMENT"}, id : PageIds, revision : Nat,
               content : Structures]
GeneratorChange ==
    [key : TransitionKeys, plan : [version : 1..2, target : PageIds],
     operation : {None} \cup Operations, status : {"DRAFT", "PUBLISHED"}]

EarlyStages == {"declare", "plan", "operate", "publish"}
RunStages ==
    EarlyStages \cup {"link", "linkUnchanged", "linkRepair", "project", "repair", "observe"}
GeneratorRuns ==
    [stage : RunStages, key : TransitionKeys, structure : Structures, operation : Operations]

GeneratorsTyped ==
    /\ keying \in {"transition", "target"}
    /\ source \in Structures /\ sourceChanges \in 0..MaxSourceChanges
    /\ artifact \in {None, [version |-> 1, adopted |-> FALSE], [version |-> 2, adopted |-> TRUE]}
    /\ page \in {None} \cup CataloguePages
    /\ projection \in Structures \cup {None}
    /\ evidence \in Seq(Structures)
    /\ genChanges \in SUBSET GeneratorChange /\ IsFiniteSet(genChanges)
    /\ projected \in SUBSET TransitionKeys
    /\ drawn \in 0..MaxDrawn
    /\ genRun.stage # "idle" => genRun \in GeneratorRuns

\* What has been adopted is what has been published, and nothing is written before
\* the artifact is declared.
Adopted ==
    /\ artifact = None => page = None /\ genChanges = {}
    /\ artifact # None => (artifact.adopted <=> page # None)

\* A key has one row.
RowForKey == \A c, d \in genChanges : c.key = d.key => c = d

\* The operation that makes the present page one of this structure.
OperationOn(id, structure) ==
    IF page = None
    THEN [type |-> "CREATE_PAGE", id |-> id, revision |-> 0, content |-> structure]
    ELSE [type |-> "REPLACE_DOCUMENT", id |-> page.id, revision |-> page.revision,
          content |-> structure]

HasRow(key, status, operation) ==
    \E c \in genChanges : c.key = key /\ c.status = status /\ c.operation = operation
HasPublished(key) == \E c \in genChanges : c.key = key /\ c.status = "PUBLISHED"

\* What a run has reached.
RunFits ==
    /\ genRun.stage # "idle" => (artifact = None <=> genRun.stage = "declare")
    /\ genRun.stage \in EarlyStages =>
          genRun.operation = OperationOn(genRun.operation.id, genRun.structure)
    /\ genRun.stage = "publish" => HasRow(genRun.key, "DRAFT", genRun.operation)
    /\ genRun.stage \in {"link", "project", "observe"} =>
          page.content = genRun.structure /\ HasPublished(genRun.key)
    /\ genRun.stage \in {"project", "observe"} => catalogued = page.id

\* And where keys are bound to the transition.
TransitionFits ==
    /\ genRun.stage # "idle" =>
          genRun.key[2] = Len(evidence) /\ genRun.key[3] = genRun.structure
    /\ genRun.stage \in EarlyStages =>
          genRun.operation = OperationOn(genRun.key, genRun.structure)
    /\ genRun.stage = "observe" => projection = genRun.structure
    /\ genRun.stage \in {"linkRepair", "repair"} =>
          genRun.structure = LastGenerated /\ projection # genRun.structure

\* Nothing has been published since the last evidence.
Unpublished == \A c \in genChanges : c.key[2] = Len(evidence) => c.status # "PUBLISHED"

\* What was left since the last evidence is what a run under the same key would write.
LeftoversFit ==
    /\ \A c \in genChanges : c.key[2] <= Len(evidence)
    /\ \A k \in projected : k[2] <= Len(evidence)
    /\ Unpublished =>
        /\ \A c \in genChanges : c.key[2] = Len(evidence) =>
              LET operation == OperationOn(c.key, c.key[3])
              IN  /\ c.plan = [version |-> artifact.version, target |-> operation.id]
                  /\ c.operation \in {None, operation}
        /\ (\E k \in projected : k[2] = Len(evidence)) => projection = LastGenerated

GenInv ==
    /\ GeneratorsTyped /\ Adopted /\ RowForKey /\ RunFits /\ OneRevisionPerChange
    /\ keying = "transition" => TransitionFits /\ LeftoversFit

-----------------------------------------------------------------------------
\* A run that goes to another stage keeps its key, structure and operation.
LEMMA Restaged ==
    ASSUME NEW run \in GeneratorRuns, NEW t \in RunStages,
           NEW r, r = [run EXCEPT !.stage = t]
    PROVE  /\ r \in GeneratorRuns /\ r.stage = t /\ r.key = run.key
           /\ r.structure = run.structure /\ r.operation = run.operation
<1>1. run = [stage |-> run.stage, key |-> run.key, structure |-> run.structure,
             operation |-> run.operation]
      /\ run.key \in TransitionKeys /\ run.structure \in Structures
      /\ run.operation \in Operations
  BY DEF GeneratorRuns
<1>2. r = [stage |-> t, key |-> run.key, structure |-> run.structure,
           operation |-> run.operation]
  BY <1>1
<1> QED
  BY <1>1, <1>2 DEF GeneratorRuns

\* The fields of a run that is under way.
LEMMA RunFields ==
    ASSUME GeneratorsTyped, genRun.stage # "idle"
    PROVE  /\ genRun \in GeneratorRuns /\ genRun.stage \in RunStages
           /\ genRun.key \in TransitionKeys /\ genRun.structure \in Structures
           /\ genRun.operation \in Operations
<1>1. genRun \in GeneratorRuns
  BY DEF GeneratorsTyped
<1> QED
  BY <1>1 DEF GeneratorRuns

\* The parts of a transition key: whether the artifact was declared, how much evidence there was,
\* and the structure.
LEMMA KeyParts ==
    ASSUME NEW k \in TransitionKeys
    PROVE  k[1] \in BOOLEAN /\ k[2] \in Nat /\ k[3] \in Structures
BY DEF TransitionKeys

\* The operation of a structure is an operation.
LEMMA OperationFields ==
    ASSUME GeneratorsTyped, NEW id \in PageIds, NEW structure \in Structures,
           NEW operation, operation = OperationOn(id, structure)
    PROVE  /\ operation \in Operations /\ operation.content = structure
           /\ operation = OperationOn(operation.id, structure)
           /\ operation.revision = IF page = None THEN 0 ELSE page.revision
<1>1. CASE page = None
  BY <1>1 DEF OperationOn, Operations
<1>2. CASE page # None
  <2>1. page.id \in PageIds /\ page.revision \in Nat
    BY <1>2 DEF GeneratorsTyped, CataloguePages
  <2> QED
    BY <1>2, <2>1 DEF OperationOn, Operations
<1> QED
  BY <1>1, <1>2

\* What a step that writes nothing keeps.
LEMMA StoreFrame ==
    ASSUME GenInv, UNCHANGED <<keying, artifact, page, projection, evidence, genChanges, projected>>
    PROVE  /\ Adopted' /\ RowForKey' /\ OneRevisionPerChange'
           /\ keying' = "transition" => LeftoversFit'
           /\ \A id, structure : OperationOn(id, structure)' = OperationOn(id, structure)
           /\ \A key, status, operation :
                HasRow(key, status, operation)' <=> HasRow(key, status, operation)
           /\ \A key : HasPublished(key)' <=> HasPublished(key)
<1>1. Adopted' /\ RowForKey' /\ OneRevisionPerChange'
  BY DEF GenInv, Adopted, RowForKey, OneRevisionPerChange
<1>2. \A id, structure : OperationOn(id, structure)' = OperationOn(id, structure)
  BY DEF OperationOn
<1>3. keying' = "transition" => LeftoversFit'
  BY DEF GenInv, LeftoversFit, Unpublished, OperationOn, LastGenerated
<1>4. \A key, status, operation :
         HasRow(key, status, operation)' <=> HasRow(key, status, operation)
  BY DEF HasRow
<1>5. \A key : HasPublished(key)' <=> HasPublished(key)
  BY DEF HasPublished
<1> QED
  BY <1>1, <1>2, <1>3, <1>4, <1>5

\* A run ends.
LEMMA EndStep ==
    ASSUME GenInv, genRun'.stage = "idle",
           UNCHANGED <<keying, source, sourceChanges, artifact, page, projection, evidence,
                       genChanges, projected, drawn>>
    PROVE  GenInv'
<1>1. GeneratorsTyped'
  BY DEF GenInv, GeneratorsTyped
<1>2. RunFits' /\ TransitionFits'
  BY DEF RunFits, TransitionFits, EarlyStages
<1> QED
  BY <1>1, <1>2, StoreFrame DEF GenInv

\* A run goes on to a stage that has what it stands for.
LEMMA OnwardStep ==
    ASSUME GenInv, genRun.stage # "idle", NEW t \in RunStages,
           genRun' = [genRun EXCEPT !.stage = t], t # "declare", artifact # None,
           UNCHANGED <<keying, source, sourceChanges, artifact, page, projection, evidence,
                       genChanges, projected, drawn>>,
           t \in EarlyStages => genRun.stage \in EarlyStages,
           t = "publish" => HasRow(genRun.key, "DRAFT", genRun.operation),
           t \in {"link", "project", "observe"} =>
              page.content = genRun.structure /\ HasPublished(genRun.key),
           t \in {"project", "observe"} => catalogued' = page.id,
           keying = "transition" =>
              /\ t = "observe" => projection = genRun.structure
              /\ t \in {"linkRepair", "repair"} =>
                    genRun.structure = LastGenerated /\ projection # genRun.structure
    PROVE  GenInv'
<1>1. /\ genRun' \in GeneratorRuns /\ genRun'.stage = t /\ genRun'.key = genRun.key
      /\ genRun'.structure = genRun.structure /\ genRun'.operation = genRun.operation
  BY RunFields, Restaged DEF GenInv
<1>2. GeneratorsTyped'
  BY <1>1 DEF GenInv, GeneratorsTyped
<1>3. t # "idle"
  BY DEF RunStages, EarlyStages
<1>4. RunFits'
  <2>1. t \in EarlyStages =>
           genRun.operation = OperationOn(genRun.operation.id, genRun.structure)'
    BY StoreFrame DEF GenInv, RunFits
  <2> QED
    BY <1>1, <1>3, <2>1, StoreFrame DEF RunFits
<1>5. keying = "transition" => TransitionFits'
  <2> SUFFICES ASSUME keying = "transition" PROVE TransitionFits'
    OBVIOUS
  <2>1. TransitionFits
    BY DEF GenInv
  <2>2. t \in EarlyStages => genRun.operation = OperationOn(genRun.key, genRun.structure)'
    BY <2>1, StoreFrame DEF TransitionFits
  <2>3. LastGenerated' = LastGenerated
    BY DEF LastGenerated
  <2> QED
    BY <1>1, <2>1, <2>2, <2>3 DEF TransitionFits
<1> QED
  BY <1>2, <1>4, <1>5, StoreFrame DEF GenInv

\* A run starts, with the operation on the page as it is.
LEMMA StartStep ==
    ASSUME GenInv, NEW k \in TransitionKeys, NEW id \in PageIds,
           NEW t \in {"declare", "plan", "linkUnchanged", "linkRepair"},
           genRun' = RunFor(k, id, t), drawn' \in 0..MaxDrawn,
           UNCHANGED <<keying, source, sourceChanges, artifact, page, projection, evidence,
                       genChanges, projected>>,
           artifact = None <=> t = "declare",
           keying = "transition" =>
              /\ k[2] = Len(evidence) /\ k[3] = source /\ id = k
              /\ t = "linkRepair" => source = LastGenerated /\ projection # source
    PROVE  GenInv'
<1>1. PICK operation : operation = OperationOn(id, source)
  OBVIOUS
<1>2. genRun' = [stage |-> t, key |-> k, structure |-> source, operation |-> operation]
  BY <1>1 DEF RunFor, PageOperation, OperationOn
<1>3. /\ operation \in Operations
      /\ operation = OperationOn(operation.id, source)
  BY <1>1, OperationFields DEF GenInv, GeneratorsTyped
<1>4. genRun' \in GeneratorRuns
  BY <1>2, <1>3 DEF GenInv, GeneratorsTyped, GeneratorRuns, RunStages, EarlyStages
<1>5. GeneratorsTyped'
  BY <1>4 DEF GenInv, GeneratorsTyped
<1>6. /\ genRun'.stage = t /\ genRun'.key = k /\ genRun'.structure = source
      /\ genRun'.operation = operation
  BY <1>2
<1>7. operation = OperationOn(operation.id, source)' /\ operation = OperationOn(id, source)'
  BY <1>1, <1>3, StoreFrame
<1>8. RunFits'
  BY <1>6, <1>7 DEF RunFits, EarlyStages
<1>9. keying = "transition" => TransitionFits'
  <2>1. LastGenerated' = LastGenerated
    BY DEF LastGenerated
  <2> QED
    BY <1>6, <1>7, <2>1 DEF TransitionFits, EarlyStages
<1> QED
  BY <1>5, <1>8, <1>9, StoreFrame DEF GenInv

\* The two ways to start a run.
LEMMA StartsKeep ==
    ASSUME GenInv, StartTransitionRun \/ StartTargetRun
    PROVE  GenInv'
<1>1. /\ source \in Structures /\ evidence \in Seq(Structures) /\ drawn \in 0..MaxDrawn
      /\ MaxDrawn \in Nat
  BY GeneratorBounds DEF GenInv, GeneratorsTyped
<1>2. Len(evidence) \in Nat /\ (artifact # None) \in BOOLEAN
  BY <1>1
<1>3. CASE StartTransitionRun
  <2>1. PICK t : t = IF ~NeedsReconciliation /\ LastGenerated = source /\ projection # None
                     THEN IF projection = source THEN "linkUnchanged" ELSE "linkRepair"
                     ELSE IF artifact = None THEN "declare" ELSE "plan"
    OBVIOUS
  <2>2. /\ t \in {"declare", "plan", "linkUnchanged", "linkRepair"}
        /\ artifact = None <=> t = "declare"
        /\ t = "linkRepair" => source = LastGenerated /\ projection # source
    BY <2>1 DEF NeedsReconciliation
  <2>3. PICK k : k = TransitionKey
    OBVIOUS
  <2>4. k \in TransitionKeys /\ k \in PageIds /\ k[2] = Len(evidence) /\ k[3] = source
    BY <1>1, <1>2, <2>3 DEF TransitionKey, TransitionKeys, PageIds
  <2>5. /\ genRun' = RunFor(k, k, t) /\ drawn' = drawn
        /\ UNCHANGED <<keying, source, sourceChanges, artifact, page, projection, evidence,
                       genChanges, projected>>
    BY <1>3, <2>1, <2>3 DEF StartTransitionRun
  <2> QED
    BY <1>1, <2>2, <2>4, <2>5, StartStep
<1>4. CASE StartTargetRun
  <2>1. PICK t : t = IF ~NeedsReconciliation /\ LastGenerated = source
                     THEN "linkUnchanged"
                     ELSE IF artifact = None THEN "declare" ELSE "plan"
    OBVIOUS
  <2>2. /\ t \in {"declare", "plan", "linkUnchanged", "linkRepair"}
        /\ artifact = None <=> t = "declare"
    BY <2>1 DEF NeedsReconciliation
  <2>3. PICK k : k = TargetKey
    OBVIOUS
  <2>4. k \in TransitionKeys
    BY <1>1, <2>3 DEF TargetKey, TransitionKeys
  <2>5. drawn' \in 0..MaxDrawn /\ drawn' \in PageIds
    BY <1>1, <1>4 DEF StartTargetRun, PageIds
  <2>6. /\ genRun' = RunFor(k, drawn', t) /\ keying = "target"
        /\ UNCHANGED <<keying, source, sourceChanges, artifact, page, projection, evidence,
                       genChanges, projected>>
    BY <1>4, <2>1, <2>3 DEF StartTargetRun
  <2> QED
    BY <2>2, <2>4, <2>5, <2>6, StartStep
<1> QED
  BY <1>3, <1>4

\* The artifact is declared: there is nothing yet that would know it.
LEMMA DeclareKeeps ==
    ASSUME GenInv, DeclareEmpty
    PROVE  GenInv'
<1>1. /\ genRun.stage = "declare" /\ genRun' = [genRun EXCEPT !.stage = "plan"]
      /\ artifact' = [version |-> 1, adopted |-> FALSE]
      /\ UNCHANGED <<keying, source, sourceChanges, page, projection, evidence, genChanges,
                     projected, drawn>>
  BY DEF DeclareEmpty
<1>2. /\ artifact = None /\ page = None /\ genChanges = {}
  BY <1>1 DEF GenInv, RunFits, Adopted
<1>3. /\ genRun' \in GeneratorRuns /\ genRun'.stage = "plan" /\ genRun'.key = genRun.key
      /\ genRun'.structure = genRun.structure /\ genRun'.operation = genRun.operation
  BY <1>1, RunFields, Restaged DEF GenInv, RunStages, EarlyStages
<1>4. artifact' # None /\ ~artifact'.adopted
  <2>1. artifact' \in [version : 1..2, adopted : BOOLEAN]
    BY <1>1
  <2> QED
    BY <1>1, <2>1, NoneIsNoArtifact
<1>5. GeneratorsTyped'
  BY <1>1, <1>3 DEF GenInv, GeneratorsTyped
<1>6. Adopted' /\ RowForKey' /\ OneRevisionPerChange'
  BY <1>1, <1>2, <1>4 DEF GenInv, Adopted, RowForKey, OneRevisionPerChange
<1>7. \A id, structure : OperationOn(id, structure)' = OperationOn(id, structure)
  BY <1>1 DEF OperationOn
<1>8. RunFits'
  BY <1>1, <1>3, <1>4, <1>7 DEF GenInv, RunFits, EarlyStages
<1>9. keying = "transition" => TransitionFits'
  BY <1>1, <1>3, <1>7 DEF GenInv, TransitionFits, EarlyStages, LastGenerated
<1>10. keying = "transition" => LeftoversFit'
  BY <1>1, <1>2 DEF GenInv, LeftoversFit, Unpublished, LastGenerated
<1> QED
  BY <1>1, <1>5, <1>6, <1>8, <1>9, <1>10 DEF GenInv

\* A run that plans again what was left is answered; what it adds is what it would
\* plan again.
LEMMA CreateKeeps ==
    ASSUME GenInv, CreateChange
    PROVE  /\ GenInv'
           /\ keying = "transition" /\ genRun' = Ended("refused") =>
                \E c \in genChanges : c.status = "PUBLISHED" /\ c.key[2] = genRun.key[2]
<1>1. /\ genRun.stage = "plan" /\ genRun.stage # "idle" /\ GeneratorsTyped
      /\ UNCHANGED <<keying, source, sourceChanges, artifact, page, projection, evidence,
                     projected, drawn>>
  BY DEF CreateChange, GenInv
<1>2. /\ artifact # None
      /\ genRun.operation = OperationOn(genRun.operation.id, genRun.structure)
      /\ genRun.key \in TransitionKeys /\ genRun.operation \in Operations
  BY <1>1, RunFields DEF GenInv, RunFits, EarlyStages
<1>3. OwnershipPlan \in [version : 1..2, target : PageIds]
  BY <1>1, <1>2 DEF OwnershipPlan, Operations, GeneratorsTyped
<1>4. PICK row : row = [key |-> genRun.key, plan |-> OwnershipPlan, operation |-> None,
                        status |-> "DRAFT"]
  OBVIOUS
<1>5. row \in GeneratorChange
  BY <1>2, <1>3, <1>4 DEF GeneratorChange
<1>6. CASE RowsOf(genRun.key) = {}
  <2>1. /\ genChanges' = genChanges \cup {row}
        /\ genRun' = [genRun EXCEPT !.stage = "operate"]
    BY <1>4, <1>6 DEF CreateChange
  <2>2. /\ genRun' \in GeneratorRuns /\ genRun'.stage = "operate" /\ genRun'.key = genRun.key
        /\ genRun'.structure = genRun.structure /\ genRun'.operation = genRun.operation
    BY <1>1, <2>1, RunFields, Restaged DEF RunStages, EarlyStages
  <2>3. genRun' # Ended("refused")
    BY <2>2 DEF Ended
  <2>4. \A c \in genChanges : c.key # row.key
    BY <1>4, <1>6 DEF RowsOf
  <2>5. GeneratorsTyped'
    <3>1. genChanges' \in SUBSET GeneratorChange /\ IsFiniteSet(genChanges')
      BY <1>1, <1>5, <2>1, FS_AddElement DEF GeneratorsTyped
    <3> QED
      BY <1>1, <2>2, <3>1 DEF GeneratorsTyped
  <2>6. Adopted' /\ RowForKey'
    BY <1>1, <1>2, <2>1, <2>4 DEF GenInv, Adopted, RowForKey
  <2>7. OneRevisionPerChange'
    <3>1. row.status # "PUBLISHED"
      BY <1>4
    <3>2. {c \in genChanges' : c.status = "PUBLISHED"} = {c \in genChanges : c.status = "PUBLISHED"}
      BY <2>1, <3>1
    <3> QED
      BY <1>1, <3>2 DEF GenInv, OneRevisionPerChange
  <2>8. \A id, structure : OperationOn(id, structure)' = OperationOn(id, structure)
    BY <1>1 DEF OperationOn
  <2>9. RunFits'
    BY <1>1, <1>2, <2>2, <2>8 DEF RunFits, EarlyStages
  <2>10. ASSUME keying = "transition" PROVE TransitionFits' /\ LeftoversFit'
    <3>1. /\ TransitionFits /\ LeftoversFit /\ LastGenerated' = LastGenerated
      BY <1>1, <2>10 DEF GenInv, LastGenerated
    <3>2. /\ genRun.key[2] = Len(evidence) /\ genRun.key[3] = genRun.structure
          /\ genRun.operation = OperationOn(genRun.key, genRun.structure)
      BY <1>1, <3>1 DEF TransitionFits, EarlyStages
    <3>3. TransitionFits'
      BY <1>1, <2>2, <2>8, <3>2 DEF TransitionFits
    <3>4. Len(evidence) \in Nat
      BY <1>1 DEF GeneratorsTyped
    <3>5. /\ row.key[2] = Len(evidence) /\ row.operation = None /\ row.status = "DRAFT"
          /\ row.plan = [version |-> artifact.version,
                         target |-> OperationOn(row.key, row.key[3]).id]
      BY <1>4, <3>2 DEF OwnershipPlan
    <3>6. Unpublished' => Unpublished
      BY <1>1, <2>1 DEF Unpublished
    <3>7. \A c \in genChanges' : c.key[2] <= Len(evidence)
      BY <2>1, <3>1, <3>4, <3>5 DEF LeftoversFit
    <3>8. ASSUME Unpublished', NEW c \in genChanges', c.key[2] = Len(evidence)
          PROVE  /\ c.plan = [version |-> artifact.version,
                              target |-> OperationOn(c.key, c.key[3]).id]
                 /\ c.operation \in {None, OperationOn(c.key, c.key[3])}
      <4>1. CASE c = row
        BY <3>5, <4>1
      <4>2. CASE c \in genChanges
        BY <3>1, <3>6, <3>8, <4>2 DEF LeftoversFit
      <4> QED
        BY <2>1, <4>1, <4>2
    <3>9. LeftoversFit'
      BY <1>1, <2>8, <3>1, <3>6, <3>7, <3>8 DEF LeftoversFit
    <3> QED
      BY <3>3, <3>9
  <2> QED
    BY <1>1, <2>3, <2>5, <2>6, <2>7, <2>9, <2>10 DEF GenInv
<1>7. CASE RowsOf(genRun.key) # {} /\ \A c \in RowsOf(genRun.key) : c.plan = OwnershipPlan
  <2>1. genChanges' = genChanges /\ genRun' = [genRun EXCEPT !.stage = "operate"]
    BY <1>7 DEF CreateChange
  <2>2. "operate" \in RunStages /\ "operate" \in EarlyStages /\ genRun.stage \in EarlyStages
    BY <1>1 DEF RunStages, EarlyStages
  <2>3. GenInv'
    BY <1>1, <1>2, <2>1, <2>2, OnwardStep
  <2>4. genRun'.stage # "idle"
    BY <1>1, <2>1, <2>2, RunFields, Restaged
  <2> QED
    BY <2>3, <2>4 DEF Ended
<1>8. CASE \E c \in RowsOf(genRun.key) : c.plan # OwnershipPlan
  <2>1. genChanges' = genChanges /\ genRun' = Ended("refused")
    BY <1>8 DEF CreateChange
  <2>2. GenInv'
    BY <1>1, <2>1, EndStep DEF Ended
  <2>3. ASSUME keying = "transition"
        PROVE  \E c \in genChanges : c.status = "PUBLISHED" /\ c.key[2] = genRun.key[2]
    <3>1. TransitionFits /\ LeftoversFit
      BY <2>3 DEF GenInv
    <3>2. /\ genRun.key[2] = Len(evidence) /\ genRun.key[3] = genRun.structure
          /\ genRun.operation = OperationOn(genRun.key, genRun.structure)
      BY <1>1, <3>1 DEF TransitionFits, EarlyStages
    <3>3. PICK c \in genChanges : c.key = genRun.key /\ c.plan # OwnershipPlan
      BY <1>8 DEF RowsOf
    <3>4. c.plan # [version |-> artifact.version, target |-> OperationOn(c.key, c.key[3]).id]
      BY <3>2, <3>3 DEF OwnershipPlan
    <3>5. ~Unpublished
      BY <3>1, <3>2, <3>3, <3>4 DEF LeftoversFit
    <3> QED
      BY <3>2, <3>5 DEF Unpublished
  <2> QED
    BY <2>2, <2>3
<1> QED
  BY <1>6, <1>7, <1>8

\* One row is replaced by one of the same key.
LEMMA RowReplaced ==
    ASSUME GeneratorsTyped, RowForKey, NEW c \in genChanges, NEW d \in GeneratorChange,
           d.key = c.key, genChanges' = (genChanges \ {c}) \cup {d}
    PROVE  /\ genChanges' \in SUBSET GeneratorChange /\ IsFiniteSet(genChanges')
           /\ RowForKey'
<1>1. genChanges \in SUBSET GeneratorChange /\ IsFiniteSet(genChanges)
  BY DEF GeneratorsTyped
<1>2. IsFiniteSet(genChanges \ {c})
  BY <1>1, FS_Subset
<1>3. IsFiniteSet(genChanges')
  BY <1>2, FS_AddElement
<1>4. RowForKey'
  BY DEF RowForKey
<1> QED
  BY <1>1, <1>3, <1>4

\* The operation is added to the draft, or is there already.
LEMMA AddKeeps ==
    ASSUME GenInv, AddPageOperation
    PROVE  /\ GenInv'
           /\ keying = "transition" /\ genRun' = Ended("refused") =>
                \E c \in genChanges : c.status = "PUBLISHED" /\ c.key[2] = genRun.key[2]
<1>1. /\ genRun.stage = "operate" /\ genRun.stage # "idle" /\ GeneratorsTyped /\ RowForKey
      /\ UNCHANGED <<keying, source, sourceChanges, artifact, page, projection, evidence,
                     projected, drawn>>
  BY DEF AddPageOperation, GenInv
<1>2. /\ artifact # None
      /\ genRun.operation = OperationOn(genRun.operation.id, genRun.structure)
      /\ genRun.key \in TransitionKeys /\ genRun.operation \in Operations
  BY <1>1, RunFields DEF GenInv, RunFits, EarlyStages
<1>3. PICK c \in genChanges :
         /\ c.key = genRun.key
         /\ IF c.status = "DRAFT" /\ c.operation \in {None, genRun.operation}
            THEN /\ genChanges' = (genChanges \ {c}) \cup
                       {[c EXCEPT !.operation = genRun.operation]}
                 /\ genRun' = [genRun EXCEPT !.stage = "publish"]
            ELSE /\ genRun' = Ended("refused")
                 /\ UNCHANGED genChanges
  BY DEF AddPageOperation, RowsOf
<1>4. CASE c.status = "DRAFT" /\ c.operation \in {None, genRun.operation}
  <2>1. PICK d : d = [c EXCEPT !.operation = genRun.operation]
    OBVIOUS
  <2>2. genChanges' = (genChanges \ {c}) \cup {d} /\ genRun' = [genRun EXCEPT !.stage = "publish"]
    BY <1>3, <1>4, <2>1
  <2>3. /\ d \in GeneratorChange /\ d.key = c.key /\ d.plan = c.plan /\ d.status = "DRAFT"
        /\ d.operation = genRun.operation
    <3>1. c \in GeneratorChange
      BY <1>1 DEF GeneratorsTyped
    <3>2. d = [key |-> c.key, plan |-> c.plan, operation |-> genRun.operation, status |-> c.status]
      BY <2>1, <3>1 DEF GeneratorChange
    <3> QED
      BY <1>2, <1>4, <3>1, <3>2 DEF GeneratorChange
  <2>4. /\ genRun' \in GeneratorRuns /\ genRun'.stage = "publish" /\ genRun'.key = genRun.key
        /\ genRun'.structure = genRun.structure /\ genRun'.operation = genRun.operation
    BY <1>1, <2>2, RunFields, Restaged DEF RunStages, EarlyStages
  <2>5. genRun' # Ended("refused")
    BY <2>4 DEF Ended
  <2>6. /\ genChanges' \in SUBSET GeneratorChange /\ IsFiniteSet(genChanges')
        /\ RowForKey'
    BY <1>1, <2>2, <2>3, RowReplaced
  <2>7. GeneratorsTyped'
    BY <1>1, <2>4, <2>6 DEF GeneratorsTyped
  <2>8. Adopted'
    BY <1>1, <1>2 DEF GenInv, Adopted
  <2>9. OneRevisionPerChange'
    <3>1. {e \in genChanges' : e.status = "PUBLISHED"} = {e \in genChanges : e.status = "PUBLISHED"}
      BY <1>4, <2>2, <2>3
    <3> QED
      BY <1>1, <3>1 DEF GenInv, OneRevisionPerChange
  <2>10. \A id, structure : OperationOn(id, structure)' = OperationOn(id, structure)
    BY <1>1 DEF OperationOn
  <2>11. RunFits'
    <3>1. HasRow(genRun.key, "DRAFT", genRun.operation)'
      BY <1>3, <2>2, <2>3, <2>4 DEF HasRow
    <3> QED
      BY <1>1, <1>2, <2>4, <2>10, <3>1 DEF RunFits, EarlyStages
  <2>12. ASSUME keying = "transition" PROVE TransitionFits' /\ LeftoversFit'
    <3>1. /\ TransitionFits /\ LeftoversFit /\ LastGenerated' = LastGenerated
      BY <1>1, <2>12 DEF GenInv, LastGenerated
    <3>2. /\ genRun.key[2] = Len(evidence) /\ genRun.key[3] = genRun.structure
          /\ genRun.operation = OperationOn(genRun.key, genRun.structure)
      BY <1>1, <3>1 DEF TransitionFits, EarlyStages
    <3>3. TransitionFits'
      BY <1>1, <2>4, <2>10, <3>2 DEF TransitionFits
    <3>4. Unpublished' => Unpublished
      BY <1>1, <1>4, <2>2 DEF Unpublished
    <3>5. \A e \in genChanges' : e.key[2] <= Len(evidence)
      BY <2>2, <2>3, <3>1 DEF LeftoversFit
    <3>6. ASSUME Unpublished', NEW e \in genChanges', e.key[2] = Len(evidence)
          PROVE  /\ e.plan = [version |-> artifact.version,
                              target |-> OperationOn(e.key, e.key[3]).id]
                 /\ e.operation \in {None, OperationOn(e.key, e.key[3])}
      <4>1. CASE e = d
        <5>1. c.key[2] = Len(evidence)
          BY <1>3, <3>2
        <5>2. c.plan = [version |-> artifact.version, target |-> OperationOn(c.key, c.key[3]).id]
          BY <3>1, <3>4, <3>6, <5>1 DEF LeftoversFit
        <5> QED
          BY <1>3, <2>3, <3>2, <4>1, <5>2
      <4>2. CASE e \in genChanges
        BY <3>1, <3>4, <3>6, <4>2 DEF LeftoversFit
      <4> QED
        BY <2>2, <4>1, <4>2
    <3>7. LeftoversFit'
      BY <1>1, <2>10, <3>1, <3>4, <3>5, <3>6 DEF LeftoversFit
    <3> QED
      BY <3>3, <3>7
  <2> QED
    BY <1>1, <2>5, <2>6, <2>7, <2>8, <2>9, <2>11, <2>12 DEF GenInv
<1>5. CASE ~(c.status = "DRAFT" /\ c.operation \in {None, genRun.operation})
  <2>1. genChanges' = genChanges /\ genRun' = Ended("refused")
    BY <1>3, <1>5
  <2>2. GenInv'
    BY <1>1, <2>1, EndStep DEF Ended
  <2>3. ASSUME keying = "transition"
        PROVE  \E e \in genChanges : e.status = "PUBLISHED" /\ e.key[2] = genRun.key[2]
    <3>1. TransitionFits /\ LeftoversFit
      BY <2>3 DEF GenInv
    <3>2. /\ genRun.key[2] = Len(evidence) /\ genRun.key[3] = genRun.structure
          /\ genRun.operation = OperationOn(genRun.key, genRun.structure)
      BY <1>1, <3>1 DEF TransitionFits, EarlyStages
    <3>3. c.status \in {"DRAFT", "PUBLISHED"}
      <4>1. c \in GeneratorChange
        BY <1>1 DEF GeneratorsTyped
      <4> QED
        BY <4>1 DEF GeneratorChange
    <3>4. CASE c.status = "PUBLISHED"
      BY <1>3, <3>4
    <3>5. CASE c.status = "DRAFT"
      <4>1. c.operation \notin {None, OperationOn(c.key, c.key[3])}
        BY <1>3, <1>5, <3>2, <3>5
      <4>2. ~Unpublished
        BY <1>3, <3>1, <3>2, <4>1 DEF LeftoversFit
      <4> QED
        BY <3>2, <4>2 DEF Unpublished
    <3> QED
      BY <3>3, <3>4, <3>5
  <2> QED
    BY <2>2, <2>3
<1> QED
  BY <1>4, <1>5

\* The page and the mark of the change are written together.
LEMMA PublishesPageKeep ==
    ASSUME GenInv, PublishPages
    PROVE  GenInv'
<1>1. /\ genRun.stage = "publish" /\ genRun.stage # "idle" /\ GeneratorsTyped /\ RowForKey
      /\ UNCHANGED <<keying, source, sourceChanges, projection, evidence, projected, drawn>>
  BY DEF PublishPages, GenInv
<1>2. PICK c \in genChanges :
         /\ c.key = genRun.key
         /\ page' = [id |-> c.operation.id, content |-> c.operation.content,
                     revision |-> c.operation.revision + 1]
         /\ artifact' = IF artifact.adopted THEN artifact
                        ELSE [version |-> artifact.version + 1, adopted |-> TRUE]
         /\ genChanges' = (genChanges \ {c}) \cup {[c EXCEPT !.status = "PUBLISHED"]}
         /\ genRun' = [genRun EXCEPT !.stage = "link"]
  BY DEF PublishPages, RowsOf
<1>3. /\ artifact # None
      /\ genRun.operation = OperationOn(genRun.operation.id, genRun.structure)
      /\ genRun.key \in TransitionKeys /\ genRun.operation \in Operations
      /\ genRun.structure \in Structures
  BY <1>1, RunFields DEF GenInv, RunFits, EarlyStages
<1>4. c.status = "DRAFT" /\ c.operation = genRun.operation
  <2>1. PICK d \in genChanges : d.key = genRun.key /\ d.status = "DRAFT" /\ d.operation = genRun.operation
    BY <1>1 DEF GenInv, RunFits, HasRow
  <2>2. c = d
    BY <1>1, <1>2, <2>1 DEF RowForKey
  <2> QED
    BY <2>1, <2>2
<1>5. PICK n : n = genRun.operation.revision
  OBVIOUS
<1>6. /\ n \in Nat /\ genRun.operation.content = genRun.structure
      /\ n = IF page = None THEN 0 ELSE page.revision
  <2>1. genRun.operation.id \in PageIds /\ n \in Nat
    BY <1>3, <1>5 DEF Operations
  <2> QED
    BY <1>1, <1>3, <1>5, <2>1, OperationFields
<1>7. /\ page' \in CataloguePages /\ page' # None /\ page'.content = genRun.structure
      /\ page'.revision = n + 1
  <2>1. page' = [id |-> genRun.operation.id, content |-> genRun.structure, revision |-> n + 1]
    BY <1>2, <1>4, <1>5, <1>6
  <2>2. page' \in CataloguePages
    BY <1>3, <1>6, <2>1 DEF CataloguePages, Operations
  <2>3. None \notin CataloguePages
    BY NoneIsNoCataloguePage DEF CataloguePages, PageIds, TransitionKeys
  <2> QED
    BY <2>1, <2>2, <2>3
<1>8. /\ artifact' = [version |-> 2, adopted |-> TRUE]
      /\ artifact' # None
  <2>1. artifact' = [version |-> 2, adopted |-> TRUE]
    <3>1. CASE artifact = [version |-> 1, adopted |-> FALSE]
      <4>1. ~artifact.adopted /\ artifact.version + 1 = 2
        BY <3>1
      <4> QED
        BY <1>2, <4>1
    <3>2. CASE artifact = [version |-> 2, adopted |-> TRUE]
      BY <1>2, <3>2
    <3> QED
      BY <1>1, <1>3, <3>1, <3>2 DEF GeneratorsTyped
  <2>2. artifact' \in [version : 1..2, adopted : BOOLEAN]
    BY <2>1
  <2> QED
    BY <2>1, <2>2, NoneIsNoArtifact
<1>9. PICK d : d = [c EXCEPT !.status = "PUBLISHED"]
  OBVIOUS
<1>10. genChanges' = (genChanges \ {c}) \cup {d}
  BY <1>2, <1>9
<1>11. /\ d \in GeneratorChange /\ d.key = c.key /\ d.status = "PUBLISHED"
  <2>1. c \in GeneratorChange
    BY <1>1 DEF GeneratorsTyped
  <2>2. d = [key |-> c.key, plan |-> c.plan, operation |-> c.operation, status |-> "PUBLISHED"]
    BY <1>9, <2>1 DEF GeneratorChange
  <2> QED
    BY <2>1, <2>2 DEF GeneratorChange
<1>12. /\ genRun' \in GeneratorRuns /\ genRun'.stage = "link" /\ genRun'.key = genRun.key
       /\ genRun'.structure = genRun.structure /\ genRun'.operation = genRun.operation
  BY <1>1, <1>2, RunFields, Restaged DEF RunStages
<1>13. /\ genChanges' \in SUBSET GeneratorChange /\ IsFiniteSet(genChanges')
       /\ RowForKey'
  BY <1>1, <1>10, <1>11, RowReplaced
<1>14. GeneratorsTyped'
  BY <1>1, <1>7, <1>8, <1>12, <1>13 DEF GeneratorsTyped
<1>15. Adopted'
  BY <1>7, <1>8 DEF Adopted
<1>16. OneRevisionPerChange'
  <2> DEFINE old == {e \in genChanges : e.status = "PUBLISHED"}
             now == {e \in genChanges' : e.status = "PUBLISHED"}
  <2>1. now = old \cup {d} /\ d \notin old
    <3>1. now = old \cup {d}
      BY <1>4, <1>10, <1>11
    <3>2. d \in genChanges => d = c
      BY <1>1, <1>11 DEF RowForKey
    <3> QED
      BY <1>4, <1>11, <3>1, <3>2
  <2>2. IsFiniteSet(old)
    BY <1>1, FS_Subset DEF GeneratorsTyped
  <2>3. Cardinality(old) = n
    BY <1>6 DEF GenInv, OneRevisionPerChange
  <2>4. Cardinality(now) = n + 1
    <3> HIDE DEF old, now
    <3> QED
      BY <2>1, <2>2, <2>3, FS_AddElement
  <2> QED
    BY <1>7, <2>4 DEF OneRevisionPerChange
<1>17. HasPublished(genRun.key)'
  BY <1>2, <1>10, <1>11, <1>12 DEF HasPublished
<1>18. RunFits'
  BY <1>7, <1>8, <1>12, <1>17 DEF RunFits, EarlyStages
<1>19. ASSUME keying = "transition" PROVE TransitionFits' /\ LeftoversFit'
  <2>1. TransitionFits /\ LeftoversFit
    BY <1>19 DEF GenInv
  <2>2. genRun.key[2] = Len(evidence) /\ genRun.key[3] = genRun.structure
    BY <1>1, <2>1 DEF TransitionFits
  <2>3. TransitionFits'
    BY <1>1, <1>12, <2>2 DEF TransitionFits, EarlyStages
  <2>4. ~Unpublished'
    BY <1>1, <1>2, <1>10, <1>11, <2>2 DEF Unpublished
  <2>5. \A e \in genChanges' : e.key[2] <= Len(evidence)
    BY <1>10, <1>11, <2>1 DEF LeftoversFit
  <2>6. LeftoversFit'
    BY <1>1, <2>1, <2>4, <2>5 DEF LeftoversFit
  <2> QED
    BY <2>3, <2>6
<1> QED
  BY <1>1, <1>13, <1>14, <1>15, <1>16, <1>18, <1>19 DEF GenInv

\* The page is linked as it is.
LEMMA LinksPageKeep ==
    ASSUME GenInv, LinkCatalogue
    PROVE  GenInv'
<1>1. /\ genRun.stage \in {"link", "linkUnchanged", "linkRepair"} /\ genRun.stage # "idle"
      /\ GeneratorsTyped /\ catalogued' = page.id
      /\ UNCHANGED <<keying, source, sourceChanges, artifact, page, projection, evidence,
                     genChanges, projected, drawn>>
  BY DEF LinkCatalogue, GenInv
<1>2. artifact # None /\ (genRun.stage = "link" => page.content = genRun.structure
                                                 /\ HasPublished(genRun.key))
  BY <1>1 DEF GenInv, RunFits
<1>3. CASE genRun.stage = "linkUnchanged"
  BY <1>1, <1>3, EndStep DEF LinkCatalogue, Ended
<1>4. CASE genRun.stage = "linkRepair"
  <2>1. genRun' = [genRun EXCEPT !.stage = "repair"]
    BY <1>4 DEF LinkCatalogue
  <2>2. keying = "transition" => genRun.structure = LastGenerated /\ projection # genRun.structure
    BY <1>4 DEF GenInv, TransitionFits
  <2>3. "repair" \in RunStages /\ "repair" \notin EarlyStages
    BY DEF RunStages, EarlyStages
  <2> QED
    BY <1>1, <1>2, <2>1, <2>2, <2>3, OnwardStep
<1>5. CASE genRun.stage = "link" /\ keying = "transition"
  <2>1. genRun' = [genRun EXCEPT !.stage = "project"]
    BY <1>5 DEF LinkCatalogue
  <2>2. "project" \in RunStages /\ "project" \notin EarlyStages
    BY DEF RunStages, EarlyStages
  <2> QED
    BY <1>1, <1>2, <1>5, <2>1, <2>2, OnwardStep
<1>6. CASE genRun.stage = "link" /\ keying # "transition"
  <2>1. genRun' = [genRun EXCEPT !.stage = "observe"]
    BY <1>6 DEF LinkCatalogue
  <2>2. "observe" \in RunStages /\ "observe" \notin EarlyStages
    BY DEF RunStages, EarlyStages
  <2> QED
    BY <1>1, <1>2, <1>6, <2>1, <2>2, OnwardStep
<1> QED
  BY <1>1, <1>3, <1>4, <1>5, <1>6

\* The projection is that of the structure of the run.
LEMMA ProjectKeeps ==
    ASSUME GenInv, PublishProjection
    PROVE  /\ GenInv'
           /\ keying = "transition" /\ genRun' = Ended("refused") =>
                \E c \in genChanges : c.status = "PUBLISHED" /\ c.key[2] = genRun.key[2]
<1>1. /\ genRun.stage \in {"project", "repair"} /\ genRun.stage # "idle" /\ GeneratorsTyped
      /\ UNCHANGED <<keying, source, sourceChanges, artifact, page, catalogued, evidence,
                     genChanges, drawn>>
  BY DEF PublishProjection, GenInv
<1>2. artifact # None /\ genRun.key \in TransitionKeys /\ genRun.structure \in Structures
  BY <1>1, RunFields DEF GenInv, RunFits
<1>3. genRun.stage = "project" =>
         /\ page.content = genRun.structure /\ HasPublished(genRun.key) /\ catalogued = page.id
  BY DEF GenInv, RunFits
<1>4. CASE genRun.key \in projected
  <2>1. genRun' = Ended("refused") /\ UNCHANGED <<projection, projected>>
    BY <1>4 DEF PublishProjection
  <2>2. GenInv'
    BY <1>1, <2>1, EndStep DEF Ended
  <2>3. ASSUME keying = "transition"
        PROVE  \E c \in genChanges : c.status = "PUBLISHED" /\ c.key[2] = genRun.key[2]
    <3>1. TransitionFits /\ LeftoversFit
      BY <2>3 DEF GenInv
    <3>2. genRun.key[2] = Len(evidence)
      BY <1>1, <3>1 DEF TransitionFits
    <3>3. CASE genRun.stage = "project"
      BY <1>3, <3>3 DEF HasPublished
    <3>4. CASE genRun.stage = "repair"
      <4>1. projection # LastGenerated
        BY <3>1, <3>4 DEF TransitionFits
      <4>2. ~Unpublished
        BY <1>4, <3>1, <3>2, <4>1 DEF LeftoversFit
      <4> QED
        BY <3>2, <4>2 DEF Unpublished
    <3> QED
      BY <1>1, <3>3, <3>4
  <2> QED
    BY <2>2, <2>3
<1>5. CASE genRun.key \notin projected
  <2>1. /\ projection' = genRun.structure /\ projected' = projected \cup {genRun.key}
        /\ genRun' = IF genRun.stage = "repair" THEN Ended("unchanged")
                     ELSE [genRun EXCEPT !.stage = "observe"]
    BY <1>5 DEF PublishProjection
  <2>2. genRun.stage = "project" =>
           /\ genRun' \in GeneratorRuns /\ genRun'.stage = "observe" /\ genRun'.key = genRun.key
           /\ genRun'.structure = genRun.structure /\ genRun'.operation = genRun.operation
    BY <1>1, <2>1, RunFields, Restaged DEF RunStages
  <2>3. genRun.stage = "repair" => genRun'.stage = "idle" /\ genRun' # Ended("refused")
    BY <2>1 DEF Ended
  <2>4. genRun' # Ended("refused") /\ genRun'.stage \in {"idle", "observe"}
    BY <1>1, <2>2, <2>3 DEF Ended
  <2>5. GeneratorsTyped'
    BY <1>1, <1>2, <2>1, <2>2, <2>3 DEF GeneratorsTyped
  <2>6. Adopted' /\ RowForKey' /\ OneRevisionPerChange'
    BY <1>1 DEF GenInv, Adopted, RowForKey, OneRevisionPerChange
  <2>7. RunFits'
    <3>1. genRun.stage = "project" => HasPublished(genRun.key)'
      BY <1>1, <1>3, <2>2 DEF HasPublished
    <3>2. CASE genRun.stage = "project"
      <4>1. page'.content = genRun'.structure /\ HasPublished(genRun.key)' /\ catalogued' = page'.id
            /\ artifact' # None /\ genRun'.stage = "observe"
        BY <1>1, <1>2, <1>3, <2>2, <3>1, <3>2 DEF HasPublished
      <4> QED
        BY <4>1 DEF RunFits, EarlyStages
    <3>3. CASE genRun.stage = "repair"
      BY <2>3, <3>3 DEF RunFits, EarlyStages
    <3> QED
      BY <1>1, <3>2, <3>3
  <2>8. ASSUME keying = "transition" PROVE TransitionFits' /\ LeftoversFit'
    <3>1. TransitionFits /\ LeftoversFit /\ LastGenerated' = LastGenerated
      BY <1>1, <2>8 DEF GenInv, LastGenerated
    <3>2. genRun.key[2] = Len(evidence) /\ genRun.key[3] = genRun.structure
      BY <1>1, <3>1 DEF TransitionFits
    <3>3. TransitionFits'
      <4>1. CASE genRun.stage = "project"
        BY <1>1, <2>1, <2>2, <3>2, <4>1 DEF TransitionFits, EarlyStages
      <4>2. CASE genRun.stage = "repair"
        BY <2>3, <4>2 DEF TransitionFits, EarlyStages
      <4> QED
        BY <1>1, <4>1, <4>2
    <3>4. Len(evidence) \in Nat
      BY <1>1 DEF GeneratorsTyped
    <3>5. \A k \in projected' : k[2] <= Len(evidence)
      BY <2>1, <3>1, <3>2, <3>4 DEF LeftoversFit
    <3>6. /\ Unpublished' <=> Unpublished
          /\ \A id, structure : OperationOn(id, structure)' = OperationOn(id, structure)
      BY <1>1 DEF Unpublished, OperationOn
    <3>7. Unpublished => projection' = LastGenerated
      <4>1. CASE genRun.stage = "project"
        <5>1. ~Unpublished
          BY <1>3, <3>2, <4>1 DEF HasPublished, Unpublished
        <5> QED
          BY <5>1
      <4>2. CASE genRun.stage = "repair"
        BY <2>1, <3>1, <4>2 DEF TransitionFits
      <4> QED
        BY <1>1, <4>1, <4>2
    <3>8. LeftoversFit'
      BY <1>1, <3>1, <3>5, <3>6, <3>7 DEF LeftoversFit
    <3> QED
      BY <3>3, <3>8
  <2> QED
    BY <1>1, <2>4, <2>5, <2>6, <2>7, <2>8 DEF GenInv
<1> QED
  BY <1>4, <1>5

\* The evidence is recorded: it is of what is there, and what was left before it is
\* of an earlier transition.
LEMMA EmitKeeps ==
    ASSUME GenInv, EmitGeneration
    PROVE  /\ GenInv'
           /\ evidence' # evidence =>
                /\ evidence'[Len(evidence')] = genRun.structure
                /\ page.content = genRun.structure /\ catalogued = page.id
                /\ keying = "transition" => projection = genRun.structure
<1>1. /\ genRun.stage = "observe" /\ genRun.stage # "idle" /\ GeneratorsTyped
      /\ genRun' = Ended("published") /\ genRun'.stage = "idle"
      /\ UNCHANGED <<keying, source, sourceChanges, artifact, page, catalogued, projection,
                     genChanges, projected, drawn>>
      /\ evidence' = IF Replayed(genRun.structure) THEN evidence
                     ELSE Append(evidence, genRun.structure)
  BY DEF EmitGeneration, GenInv, Ended
<1>2. genRun.structure \in Structures /\ evidence \in Seq(Structures)
  BY <1>1, RunFields DEF GeneratorsTyped
<1>3. /\ page.content = genRun.structure /\ catalogued = page.id
      /\ keying = "transition" => projection = genRun.structure
  BY <1>1 DEF GenInv, RunFits, TransitionFits
<1>4. CASE evidence' = evidence
  BY <1>1, <1>4, EndStep
<1>5. CASE evidence' # evidence
  <2>1. evidence' = Append(evidence, genRun.structure)
    BY <1>1, <1>5
  <2>2. /\ evidence' \in Seq(Structures) /\ Len(evidence') = Len(evidence) + 1
        /\ Len(evidence) \in Nat /\ evidence'[Len(evidence')] = genRun.structure
    BY <1>2, <2>1
  <2>3. GeneratorsTyped'
    BY <1>1, <2>2 DEF GeneratorsTyped
  <2>4. Adopted' /\ RowForKey' /\ OneRevisionPerChange'
    BY <1>1 DEF GenInv, Adopted, RowForKey, OneRevisionPerChange
  <2>5. RunFits' /\ TransitionFits'
    BY <1>1 DEF RunFits, TransitionFits, EarlyStages
  <2>6. ASSUME keying = "transition" PROVE LeftoversFit'
    <3>1. /\ \A c \in genChanges : c.key[2] <= Len(evidence) /\ c.key[2] \in Nat
          /\ \A k \in projected : k[2] <= Len(evidence) /\ k[2] \in Nat
      <4>1. \A c \in genChanges : c.key \in TransitionKeys
        BY <1>1 DEF GeneratorsTyped, GeneratorChange
      <4>2. \A k \in projected : k \in TransitionKeys
        BY <1>1 DEF GeneratorsTyped
      <4> QED
        BY <2>6, <4>1, <4>2, KeyParts DEF GenInv, LeftoversFit
    <3>2. /\ \A c \in genChanges' : c.key[2] <= Len(evidence') /\ c.key[2] # Len(evidence')
          /\ \A k \in projected' : k[2] <= Len(evidence') /\ k[2] # Len(evidence')
      BY <1>1, <2>2, <3>1
    <3> QED
      BY <3>2 DEF LeftoversFit
  <2>7. GenInv'
    BY <1>1, <2>3, <2>4, <2>5, <2>6 DEF GenInv
  <2> QED
    BY <1>3, <2>2, <2>7
<1> QED
  BY <1>4, <1>5

\* The source changes under whatever is going on.
LEMMA SourceKeeps ==
    ASSUME GenInv, ChangeSource
    PROVE  GenInv'
<1>1. /\ sourceChanges' = sourceChanges + 1 /\ sourceChanges < MaxSourceChanges
      /\ source' \in Structures
      /\ UNCHANGED <<keying, artifact, page, catalogued, projection, evidence, genChanges,
                     projected, drawn, genRun>>
  BY DEF ChangeSource
<1>2. GeneratorsTyped'
  <2>1. sourceChanges' \in 0..MaxSourceChanges
    BY <1>1, GeneratorBounds DEF GenInv, GeneratorsTyped
  <2> QED
    BY <1>1, <2>1 DEF GenInv, GeneratorsTyped
<1>3. RunFits'
  BY <1>1 DEF GenInv, RunFits, OperationOn, HasRow, HasPublished
<1>4. keying = "transition" => TransitionFits'
  BY <1>1 DEF GenInv, TransitionFits, OperationOn, LastGenerated
<1> QED
  BY <1>1, <1>2, <1>3, <1>4, StoreFrame DEF GenInv

-----------------------------------------------------------------------------
\* The two action properties, of one step.
EvidenceTold ==
    evidence' # evidence =>
        LET structure == evidence'[Len(evidence')]
        IN  /\ page.content = structure /\ catalogued = page.id
            /\ keying = "transition" => projection = structure
RefusedAfterPublication ==
    keying = "transition" /\ genRun' = Ended("refused") /\ genRun' # genRun =>
        \E c \in genChanges : c.status = "PUBLISHED" /\ c.key[2] = genRun.key[2]

\* Every step of a generator, and of the database under it, keeps the invariant; evidence is told
\* before it is relied on and a refusal comes only after a publication.
LEMMA GeneratorsStep ==
    ASSUME GenInv, [GeneratorsNext]_generatorVars
    PROVE  GenInv' /\ EvidenceTold /\ RefusedAfterPublication
<1>1. CASE UNCHANGED generatorVars
  <2>1. /\ UNCHANGED <<keying, source, sourceChanges, artifact, page, catalogued, projection,
                       evidence, genChanges, projected, drawn, genRun>>
    BY <1>1 DEF generatorVars
  <2>2. GeneratorsTyped' /\ RunFits' /\ (keying = "transition" => TransitionFits')
    BY <2>1 DEF GenInv, GeneratorsTyped, RunFits, TransitionFits, OperationOn, HasRow,
       HasPublished, LastGenerated
  <2>3. GenInv'
    BY <2>1, <2>2, StoreFrame DEF GenInv
  <2> QED
    BY <2>1, <2>3 DEF EvidenceTold, RefusedAfterPublication
<1>2. CASE ChangeSource
  <2>1. evidence' = evidence /\ genRun' = genRun
    BY <1>2 DEF ChangeSource
  <2> QED
    BY <1>2, <2>1, SourceKeeps DEF EvidenceTold, RefusedAfterPublication
<1>3. CASE StartTransitionRun \/ StartTargetRun
  <2>1. evidence' = evidence
    BY <1>3 DEF StartTransitionRun, StartTargetRun
  <2>2. genRun' # Ended("refused")
    <3>1. \E k, id : \E t \in {"declare", "plan", "linkUnchanged", "linkRepair"} :
             genRun' = RunFor(k, id, t)
      BY <1>3 DEF StartTransitionRun, StartTargetRun
    <3>2. genRun'.stage # "idle"
      BY <3>1 DEF RunFor
    <3> QED
      BY <3>2 DEF Ended
  <2> QED
    BY <1>3, <2>1, <2>2, StartsKeep DEF EvidenceTold, RefusedAfterPublication
<1>4. CASE DeclareEmpty
  <2>1. evidence' = evidence
    BY <1>4 DEF DeclareEmpty
  <2>2. genRun'.stage = "plan"
    BY <1>4, RunFields, Restaged DEF DeclareEmpty, GenInv, RunStages, EarlyStages
  <2>3. genRun' # Ended("refused")
    BY <2>2 DEF Ended
  <2> QED
    BY <1>4, <2>1, <2>3, DeclareKeeps DEF EvidenceTold, RefusedAfterPublication
<1>5. CASE CreateChange
  <2>1. evidence' = evidence
    BY <1>5 DEF CreateChange
  <2> QED
    BY <1>5, <2>1, CreateKeeps DEF EvidenceTold, RefusedAfterPublication
<1>6. CASE AddPageOperation
  <2>1. evidence' = evidence
    BY <1>6 DEF AddPageOperation
  <2> QED
    BY <1>6, <2>1, AddKeeps DEF EvidenceTold, RefusedAfterPublication
<1>7. CASE PublishPages
  <2>1. evidence' = evidence
    BY <1>7 DEF PublishPages
  <2>2. genRun' = [genRun EXCEPT !.stage = "link"] /\ genRun.stage = "publish"
    BY <1>7 DEF PublishPages
  <2>3. genRun'.stage = "link"
    BY <2>2, RunFields, Restaged DEF GenInv, RunStages
  <2>4. genRun' # Ended("refused")
    BY <2>3 DEF Ended
  <2> QED
    BY <1>7, <2>1, <2>4, PublishesPageKeep DEF EvidenceTold, RefusedAfterPublication
<1>8. CASE LinkCatalogue
  <2>1. evidence' = evidence
    BY <1>8 DEF LinkCatalogue
  <2>2. genRun' # Ended("refused")
    <3>1. /\ genRun.stage # "idle"
          /\ \/ genRun' = Ended("unchanged")
             \/ \E t \in {"repair", "project", "observe"} : genRun' = [genRun EXCEPT !.stage = t]
      BY <1>8 DEF LinkCatalogue
    <3>2. CASE genRun' = Ended("unchanged")
      BY <3>2 DEF Ended
    <3>3. CASE \E t \in {"repair", "project", "observe"} : genRun' = [genRun EXCEPT !.stage = t]
      <4>1. genRun'.stage # "idle"
        BY <3>1, <3>3, RunFields, Restaged DEF GenInv, RunStages
      <4> QED
        BY <4>1 DEF Ended
    <3> QED
      BY <3>1, <3>2, <3>3
  <2> QED
    BY <1>8, <2>1, <2>2, LinksPageKeep DEF EvidenceTold, RefusedAfterPublication
<1>9. CASE PublishProjection
  <2>1. evidence' = evidence
    BY <1>9 DEF PublishProjection
  <2> QED
    BY <1>9, <2>1, ProjectKeeps DEF EvidenceTold, RefusedAfterPublication
<1>10. CASE EmitGeneration
  <2>1. genRun' # Ended("refused")
    BY <1>10 DEF EmitGeneration, Ended
  <2> QED
    BY <1>10, <2>1, EmitKeeps DEF EvidenceTold, RefusedAfterPublication
<1>11. CASE StopRun
  <2>1. /\ genRun' = Ended("stopped")
        /\ UNCHANGED <<keying, source, sourceChanges, artifact, page, projection, evidence,
                       genChanges, projected, drawn>>
    BY <1>11 DEF StopRun
  <2>2. genRun'.stage = "idle" /\ genRun' # Ended("refused")
    BY <2>1 DEF Ended
  <2> QED
    BY <2>1, <2>2, EndStep DEF EvidenceTold, RefusedAfterPublication
<1> QED
  BY <1>1, <1>2, <1>3, <1>4, <1>5, <1>6, <1>7, <1>8, <1>9, <1>10, <1>11 DEF GeneratorsNext

\* However often a generator's runs are repeated and wherever they end, each change is
\* published once, evidence is recorded of what is there, and with keys of transitions
\* nothing is refused for what was left before a publication (scripts/schema_catalogue.py).
THEOREM GeneratorsAreSafe == GeneratorsSpec => GeneratorsSafe
<1>1. GeneratorsInit => GenInv
  <2>1. SUFFICES ASSUME GeneratorsInit PROVE GenInv
    OBVIOUS
  <2>2. genRun.stage = "idle" /\ evidence = <<>> /\ genChanges = {} /\ projected = {}
        /\ artifact = None /\ page = None
    BY <2>1 DEF GeneratorsInit, Ended
  <2>3. GeneratorsTyped
    <3>1. IsFiniteSet(genChanges)
      BY <2>2, FS_EmptySet
    <3>2. evidence \in Seq(Structures) /\ 0 \in 0..MaxSourceChanges /\ 0 \in 0..MaxDrawn
      BY <2>2, GeneratorBounds
    <3> QED
      BY <2>1, <2>2, <3>1, <3>2 DEF GeneratorsInit, GeneratorsTyped
  <2>4. OneRevisionPerChange
    <3>1. {c \in genChanges : c.status = "PUBLISHED"} = {}
      BY <2>2
    <3> QED
      BY <2>2, <3>1, FS_EmptySet DEF OneRevisionPerChange
  <2>5. Adopted /\ RowForKey /\ RunFits /\ TransitionFits /\ LeftoversFit
    BY <2>2 DEF Adopted, RowForKey, RunFits, TransitionFits, LeftoversFit, EarlyStages
  <2> QED
    BY <2>3, <2>4, <2>5 DEF GenInv
<1>2. GenInv /\ [GeneratorsNext]_generatorVars => GenInv' /\ EvidenceTold /\ RefusedAfterPublication
  BY GeneratorsStep
<1>3. GenInv => GeneratorsTypeOK /\ OneRevisionPerChange
  <2>1. SUFFICES ASSUME GenInv PROVE GeneratorsTypeOK /\ OneRevisionPerChange
    OBVIOUS
  <2>2. artifact # None => artifact \in [version : 1..2, adopted : BOOLEAN]
    <3>1. /\ [version |-> 1, adopted |-> FALSE] \in [version : 1..2, adopted : BOOLEAN]
          /\ [version |-> 2, adopted |-> TRUE] \in [version : 1..2, adopted : BOOLEAN]
      OBVIOUS
    <3> QED
      BY <2>1, <3>1 DEF GenInv, GeneratorsTyped
  <2>3. page # None => page.content \in Structures /\ page.revision \in Nat \ {0}
    BY <2>1 DEF GenInv, GeneratorsTyped, CataloguePages
  <2>4. \A c \in genChanges : c.status \in {"DRAFT", "PUBLISHED"}
    <3>1. \A c \in genChanges : c \in GeneratorChange
      BY <2>1 DEF GenInv, GeneratorsTyped
    <3> QED
      BY <3>1 DEF GeneratorChange
  <2> QED
    BY <2>1, <2>2, <2>3, <2>4 DEF GenInv, GeneratorsTyped, GeneratorsTypeOK
<1> QED
  BY <1>1, <1>2, <1>3, PTL DEF GeneratorsSpec, GeneratorsSafe, EvidenceIsTrue,
     RetryBeforePublication, EvidenceTold, RefusedAfterPublication

-----------------------------------------------------------------------------
(***************************************************************************)
(* The metered rule set: retired, created, updated and wired rule by rule, by*)
(* runs that start again after any failure.                                *)
(***************************************************************************)
MeterRuns ==
    [stage : {"retire", "create", "update", "reactivate", "wire"}, set : RuleSets,
     rule : RuleKeys \cup {None}, wired : SUBSET Services, left : SUBSET RuleKeys]
Running == meterRun.stage # "idle"

MeterTyped ==
    /\ ruleSet \in RuleSets /\ earlierSets \in SUBSET RuleSets
    /\ ruleChanges \in 0..MaxRuleSetChanges
    /\ rules \in [RuleKeys -> {None} \cup RuleRow]
    /\ watches \in [RuleKeys -> SUBSET Services]
    /\ returned \in BOOLEAN /\ unrecorded \in BOOLEAN
    /\ Running => meterRun \in MeterRuns

\* A rule, and its edges, are as a rule set has them.
RuleIs(R, k) == Active(k) /\ rules[k].text = R[k].text
EdgesOf(R, k) == {R[k].service} \ {None}

\* What a run has reached: what it is to leave is retired, and the rules it is through
\* with are right.
RunReached ==
    /\ \A k \in meterRun.left : meterRun.set[k] # None
    /\ meterRun.stage = "retire" =>
          \A k \in RuleKeys : meterRun.set[k] # None => k \in meterRun.left
    /\ meterRun.stage # "retire" =>
        /\ meterRun.rule \in RuleKeys /\ meterRun.set[meterRun.rule] # None
        /\ \A k \in RuleKeys : meterRun.set[k] = None => ~Active(k)
        /\ \A k \in RuleKeys :
              meterRun.set[k] # None /\ k \notin meterRun.left /\ k # meterRun.rule =>
                  RuleIs(meterRun.set, k)
    /\ meterRun.stage = "create" => rules[meterRun.rule] = None
    /\ meterRun.stage = "reactivate" => rules[meterRun.rule] # None /\ ~Active(meterRun.rule)
    /\ meterRun.stage = "update" => Active(meterRun.rule)
    /\ meterRun.stage = "wire" => RuleIs(meterRun.set, meterRun.rule)

\* The keys of a rule set that have been used say what is there.
KeyFits(R, k) ==
    /\ <<R, "retire", k>> \in ruleEvents => R[k] = None /\ ~Active(k)
    /\ <<R, "reactivate", k>> \in ruleEvents => R[k] # None /\ Active(k)
    /\ (\E r \in ruleReceipts : r.key = <<R, "update", k>>) =>
          R[k] # None /\ rules[k] # None /\ rules[k].text = R[k].text
    /\ \A s \in Services :
        /\ [key |-> <<R, "link", k, s>>, version |-> 0] \in ruleReceipts =>
              R[k] # None /\ s \in EdgesOf(R, k) /\ s \in watches[k]
        /\ [key |-> <<R, "unlink", k, s>>, version |-> 0] \in ruleReceipts =>
              R[k] # None /\ s \notin EdgesOf(R, k) /\ s \notin watches[k]
KeysFit(R) == \A k \in RuleKeys : KeyFits(R, k)

NoKeys(R) ==
    \A k \in RuleKeys :
        /\ <<R, "retire", k>> \notin ruleEvents /\ <<R, "reactivate", k>> \notin ruleEvents
        /\ \A r \in ruleReceipts : r.key # <<R, "update", k>>
        /\ \A s \in Services :
            /\ [key |-> <<R, "link", k, s>>, version |-> 0] \notin ruleReceipts
            /\ [key |-> <<R, "unlink", k, s>>, version |-> 0] \notin ruleReceipts

\* While the files have not said the same thing twice, the keys of what they say now are
\* those of the run for it, or there are none.
KeysAreFresh ==
    /\ ruleSet \notin earlierSets
    /\ \A R \in RuleSets : R \notin earlierSets /\ R # ruleSet => NoKeys(R)
    /\ KeysFit(ruleSet)
    /\ Running =>
        /\ KeysFit(meterRun.set)
        /\ meterRun.set # ruleSet => meterRun.set \in earlierSets /\ NoKeys(ruleSet)

\* And a run knows the edges.
EdgesAreKnown ==
    Running =>
        /\ meterRun.stage = "wire" => meterRun.wired = watches[meterRun.rule]
        /\ \A k \in RuleKeys :
              meterRun.set[k] # None /\ k \notin meterRun.left /\ k # meterRun.rule =>
                  watches[k] = EdgesOf(meterRun.set, k)

MeterInv ==
    /\ MeterTyped
    /\ \A k \in RuleKeys : rules[k] = None => watches[k] = {}
    /\ Running => RunReached
    /\ ~returned => KeysAreFresh /\ EdgesAreKnown /\ FreshKeysSuffice

-----------------------------------------------------------------------------
\* The fields of a run that is under way.
LEMMA MeterFields ==
    ASSUME MeterTyped, Running
    PROVE  /\ meterRun \in MeterRuns
           /\ meterRun = [stage |-> meterRun.stage, set |-> meterRun.set,
                          rule |-> meterRun.rule, wired |-> meterRun.wired,
                          left |-> meterRun.left]
           /\ meterRun.stage \in {"retire", "create", "update", "reactivate", "wire"}
           /\ meterRun.set \in RuleSets /\ meterRun.rule \in RuleKeys \cup {None}
           /\ meterRun.wired \in SUBSET Services /\ meterRun.left \in SUBSET RuleKeys
<1>1. meterRun \in MeterRuns
  BY DEF MeterTyped
<1> QED
  BY <1>1 DEF MeterRuns

\* What a rule set says of a rule.
LEMMA RuleSetParts ==
    ASSUME NEW R \in RuleSets, NEW k \in RuleKeys, R[k] # None
    PROVE  R[k].text \in RuleTexts /\ EdgesOf(R, k) \in SUBSET Services
<1>1. R[k].text \in RuleTexts
  BY DEF RuleTexts
<1>2. EdgesOf(R, k) \in SUBSET Services
  BY RuleSetsAreRuleSets DEF EdgesOf
<1> QED
  BY <1>1, <1>2

\* A rule's row, replaced.
LEMMA RowPut ==
    ASSUME MeterTyped, NEW k \in RuleKeys, NEW row \in RuleRow,
           rules' = [rules EXCEPT ![k] = row]
    PROVE  /\ rules' \in [RuleKeys -> {None} \cup RuleRow]
           /\ \A j \in RuleKeys : rules'[j] = IF j = k THEN row ELSE rules[j]
           /\ rules'[k] # None
           /\ Active(k)' <=> row.status = "ACTIVE"
           /\ \A j \in RuleKeys : j # k => (Active(j)' <=> Active(j))
<1>1. /\ rules' \in [RuleKeys -> {None} \cup RuleRow]
      /\ \A j \in RuleKeys : rules'[j] = IF j = k THEN row ELSE rules[j]
  BY DEF MeterTyped
<1>2. rules'[k] # None
  BY <1>1, NoneIsNoRule
<1> QED
  BY <1>1, <1>2 DEF Active

\* Putting a status leaves the text of the rule as it is.
LEMMA StatusPut ==
    ASSUME MeterTyped, NEW k \in RuleKeys, rules[k] # None, NEW verb,
           NEW status \in {"ACTIVE", "RETIRED"}, SetStatus(k, verb, status)
    PROVE  \E row \in RuleRow : /\ rules' = [rules EXCEPT ![k] = row]
                                /\ row.status = status /\ row.text = rules[k].text
<1>1. PICK old : old = rules[k]
  OBVIOUS
<1>2. /\ old = [status |-> old.status, version |-> old.version, text |-> old.text]
      /\ old.version \in Nat /\ old.text \in RuleTexts
  BY <1>1 DEF MeterTyped, RuleRow
<1>3. PICK q : q = [old EXCEPT !.status = status]
  OBVIOUS
<1>4. PICK row : row = [q EXCEPT !.version = @ + 1]
  OBVIOUS
<1>5. q = [status |-> status, version |-> old.version, text |-> old.text]
  BY <1>2, <1>3
<1>6. row = [status |-> status, version |-> old.version + 1, text |-> old.text]
  BY <1>4, <1>5
<1>7. rules' = [rules EXCEPT ![k] = row]
  <2>1. PICK f : f = [rules EXCEPT ![k].status = status]
    OBVIOUS
  <2>2. f = [rules EXCEPT ![k] = q] /\ k \in DOMAIN rules
    BY <1>1, <1>3, <2>1 DEF MeterTyped
  <2>3. rules' = [f EXCEPT ![k].version = @ + 1]
    BY <2>1 DEF SetStatus
  <2>4. f[k] = q
    BY <2>2
  <2>5. rules' = [f EXCEPT ![k] = row]
    BY <1>4, <2>3, <2>4
  <2> QED
    BY <2>2, <2>5
<1>8. row \in RuleRow
  BY <1>2, <1>6 DEF RuleRow
<1> QED
  BY <1>1, <1>6, <1>7, <1>8

\* Keys and rows that are not touched say what they said.
LEMMA MeterFrame ==
    ASSUME UNCHANGED <<rules, watches, ruleReceipts, ruleEvents>>
    PROVE  /\ \A R : KeysFit(R)' <=> KeysFit(R)
           /\ \A R : NoKeys(R)' <=> NoKeys(R)
           /\ \A R, k : RuleIs(R, k)' <=> RuleIs(R, k)
           /\ \A k : Active(k)' <=> Active(k)
<1>1. \A R : KeysFit(R)' <=> KeysFit(R)
  BY DEF KeysFit, KeyFits, Active, EdgesOf
<1>2. \A R : NoKeys(R)' <=> NoKeys(R)
  BY DEF NoKeys
<1>3. \A R, k : RuleIs(R, k)' <=> RuleIs(R, k)
  BY DEF RuleIs, Active
<1>4. \A k : Active(k)' <=> Active(k)
  BY DEF Active
<1> QED
  BY <1>1, <1>2, <1>3, <1>4

\* A rule set without keys has none that would not fit.
LEMMA NoKeysFit ==
    ASSUME NEW R, NoKeys(R)
    PROVE  KeysFit(R)
BY DEF NoKeys, KeysFit, KeyFits

\* Under a run, the keys that are added are those of its rule set.
LEMMA KeysStep ==
    ASSUME MeterTyped, KeysAreFresh, Running, NEW R, R = meterRun.set,
           UNCHANGED <<ruleSet, earlierSets, returned>>, KeysFit(R)',
           meterRun'.stage # "idle" => meterRun'.set = R,
           \A k \in RuleKeys, verb \in {"retire", "reactivate"}, Q \in RuleSets :
              Q # R /\ <<Q, verb, k>> \in ruleEvents' => <<Q, verb, k>> \in ruleEvents,
           \A r \in ruleReceipts' : r \in ruleReceipts \/ r.key[1] = R
    PROVE  KeysAreFresh'
<1>1. R \in RuleSets /\ ruleSet \in RuleSets /\ (R # ruleSet => R \in earlierSets /\ NoKeys(ruleSet))
  BY MeterFields DEF KeysAreFresh, MeterTyped
<1>2. ASSUME NEW Q \in RuleSets, Q # R, NoKeys(Q)
      PROVE  NoKeys(Q)'
  <2> SUFFICES ASSUME NEW k \in RuleKeys
               PROVE  /\ <<Q, "retire", k>> \notin ruleEvents'
                      /\ <<Q, "reactivate", k>> \notin ruleEvents'
                      /\ \A r \in ruleReceipts' : r.key # <<Q, "update", k>>
                      /\ \A s \in Services :
                          /\ [key |-> <<Q, "link", k, s>>, version |-> 0] \notin ruleReceipts'
                          /\ [key |-> <<Q, "unlink", k, s>>, version |-> 0] \notin ruleReceipts'
    BY DEF NoKeys
  <2>1. <<Q, "retire", k>> \notin ruleEvents' /\ <<Q, "reactivate", k>> \notin ruleEvents'
    BY <1>2 DEF NoKeys
  <2>2. ASSUME NEW r \in ruleReceipts', r.key = <<Q, "update", k>>
        PROVE  FALSE
    <3>1. r.key[1] = Q
      BY <2>2
    <3> QED
      BY <1>2, <2>2, <3>1 DEF NoKeys
  <2>3. ASSUME NEW s \in Services, NEW verb \in {"link", "unlink"},
               [key |-> <<Q, verb, k, s>>, version |-> 0] \in ruleReceipts'
        PROVE  FALSE
    <3>1. PICK r \in ruleReceipts' : r = [key |-> <<Q, verb, k, s>>, version |-> 0]
      BY <2>3
    <3>2. r.key = <<Q, verb, k, s>>
      BY <3>1
    <3>3. r.key[1] = Q
      BY <3>2
    <3>4. r \in ruleReceipts
      BY <1>2, <3>3
    <3> QED
      BY <1>2, <3>1, <3>4 DEF NoKeys
  <2> QED
    BY <2>1, <2>2, <2>3
<1>3. \A Q \in RuleSets : Q \notin earlierSets /\ Q # ruleSet => NoKeys(Q)'
  BY <1>1, <1>2 DEF KeysAreFresh
<1>4. R # ruleSet => NoKeys(ruleSet)'
  <2>1. R # ruleSet => NoKeys(ruleSet)
    BY <1>1
  <2>2. PICK Q : Q = ruleSet
    OBVIOUS
  <2>3. R # Q => NoKeys(Q)'
    BY <1>1, <1>2, <2>1, <2>2
  <2>4. Q = ruleSet'
    BY <2>2
  <2> QED
    BY <2>2, <2>3, <2>4 DEF NoKeys
<1>5. KeysFit(ruleSet)'
  <2>1. CASE R = ruleSet
    BY <2>1 DEF KeysFit, KeyFits, EdgesOf
  <2>2. CASE R # ruleSet
    <3>1. NoKeys(ruleSet)'
      BY <1>4, <2>2
    <3> QED
      BY <3>1 DEF NoKeys, KeysFit, KeyFits
  <2> QED
    BY <2>1, <2>2
<1>6. meterRun'.stage # "idle" =>
        /\ KeysFit(meterRun.set)'
        /\ meterRun'.set # ruleSet' => meterRun'.set \in earlierSets' /\ NoKeys(ruleSet)'
  BY <1>1, <1>4 DEF KeysFit, KeyFits, EdgesOf
<1> QED
  BY <1>3, <1>5, <1>6 DEF KeysAreFresh, Running

\* The files change under a run, or between two.
LEMMA FilesChange ==
    ASSUME MeterInv, ChangeRuleSet
    PROVE  MeterInv'
<1>1. /\ ruleChanges < MaxRuleSetChanges /\ ruleChanges' = ruleChanges + 1
      /\ ruleSet' \in RuleSets \ {ruleSet} /\ earlierSets' = earlierSets \cup {ruleSet}
      /\ returned' = (returned \/ ruleSet' \in earlierSets)
      /\ UNCHANGED <<rules, watches, ruleReceipts, ruleEvents, unrecorded, meterRun>>
      /\ MeterTyped
  BY DEF ChangeRuleSet, MeterInv
<1>2. MeterTyped'
  <2>1. ruleChanges' \in 0..MaxRuleSetChanges
    BY <1>1, RuleBounds DEF MeterTyped
  <2>2. returned' \in BOOLEAN
    BY <1>1
  <2> QED
    BY <1>1, <2>1, <2>2 DEF MeterTyped, Running
<1>3. Running' => RunReached'
  BY <1>1, MeterFrame DEF MeterInv, RunReached, Running
<1>4. ASSUME ~returned'
      PROVE  KeysAreFresh' /\ EdgesAreKnown' /\ FreshKeysSuffice'
  <2>1. ~returned /\ ruleSet' \notin earlierSets
    BY <1>1, <1>4
  <2>2. KeysAreFresh /\ EdgesAreKnown /\ FreshKeysSuffice
    BY <2>1 DEF MeterInv
  <2>3. PICK R : R = ruleSet'
    OBVIOUS
  <2>4. R \in RuleSets /\ R \notin earlierSets /\ R # ruleSet /\ NoKeys(R)
    BY <1>1, <2>1, <2>2, <2>3 DEF KeysAreFresh
  <2>5. NoKeys(R)' /\ KeysFit(R)'
    BY <1>1, <2>4, NoKeysFit, MeterFrame
  <2>6. NoKeys(ruleSet)' /\ KeysFit(ruleSet)'
    BY <2>3, <2>5 DEF NoKeys, KeysFit, KeyFits, EdgesOf
  <2>7. ruleSet' \notin earlierSets'
    BY <1>1, <2>1
  <2>8. \A Q \in RuleSets : Q \notin earlierSets' /\ Q # ruleSet' => NoKeys(Q)'
    BY <1>1, <2>2, MeterFrame DEF KeysAreFresh
  <2>9. Running => KeysFit(meterRun.set)' /\ meterRun.set \in earlierSets'
    <3>1. PICK Q : Q = meterRun.set
      OBVIOUS
    <3>2. Running => KeysFit(Q)' /\ Q \in earlierSets'
      BY <1>1, <2>2, <3>1, MeterFrame DEF KeysAreFresh
    <3>3. Q = meterRun'.set
      BY <1>1, <3>1
    <3> QED
      BY <3>1, <3>2, <3>3 DEF KeysFit, KeyFits, EdgesOf
  <2>10. KeysAreFresh'
    BY <1>1, <2>6, <2>7, <2>8, <2>9 DEF KeysAreFresh, Running
  <2>11. EdgesAreKnown' /\ FreshKeysSuffice'
    BY <1>1, <2>1, <2>2 DEF EdgesAreKnown, Running, FreshKeysSuffice
  <2> QED
    BY <2>10, <2>11
<1> QED
  BY <1>1, <1>2, <1>3, <1>4 DEF MeterInv

\* A step of the run that writes nothing.
LEMMA RunOnly ==
    ASSUME MeterInv,
           UNCHANGED <<unchangedFiles, rules, watches, ruleReceipts, ruleEvents, unrecorded>>,
           meterRun'.stage # "idle" =>
               /\ meterRun' \in MeterRuns /\ RunReached'
               /\ meterRun'.set = ruleSet \/ (Running /\ meterRun'.set = meterRun.set)
               /\ ~returned => EdgesAreKnown',
           ~returned => meterRun' # MeterEnded("refused")
    PROVE  MeterInv'
<1>1. UNCHANGED <<ruleSet, earlierSets, returned, ruleChanges, rules, watches, ruleReceipts,
                  ruleEvents, unrecorded>>
  BY DEF unchangedFiles
<1>2. MeterTyped'
  BY <1>1 DEF MeterInv, MeterTyped, Running
<1>3. ASSUME ~returned
      PROVE  KeysAreFresh' /\ EdgesAreKnown' /\ FreshKeysSuffice'
  <2>1. KeysAreFresh /\ FreshKeysSuffice
    BY <1>3 DEF MeterInv
  <2>2. EdgesAreKnown'
    BY <1>3 DEF EdgesAreKnown, Running
  <2>3. FreshKeysSuffice'
    BY <1>1, <1>3, <2>1 DEF FreshKeysSuffice
  <2>4. KeysFit(ruleSet)' /\ (NoKeys(ruleSet)' <=> NoKeys(ruleSet))
    <3>1. PICK R : R = ruleSet
      OBVIOUS
    <3>2. KeysFit(R)' /\ (NoKeys(R)' <=> NoKeys(R)) /\ R = ruleSet'
      BY <1>1, <2>1, <3>1, MeterFrame DEF KeysAreFresh
    <3> QED
      BY <3>1, <3>2 DEF KeysFit, KeyFits, NoKeys, EdgesOf
  <2>5. meterRun'.stage # "idle" =>
           /\ KeysFit(meterRun.set)'
           /\ meterRun'.set # ruleSet => meterRun'.set \in earlierSets /\ NoKeys(ruleSet)'
    <3> SUFFICES ASSUME meterRun'.stage # "idle"
                 PROVE  /\ KeysFit(meterRun.set)'
                        /\ meterRun'.set # ruleSet =>
                              meterRun'.set \in earlierSets /\ NoKeys(ruleSet)'
      OBVIOUS
    <3>1. PICK Q : Q = meterRun'.set
      OBVIOUS
    <3>2. Q = ruleSet \/ (Running /\ Q = meterRun.set)
      BY <3>1
    <3>3. KeysFit(Q) /\ (Q # ruleSet => Q \in earlierSets /\ NoKeys(ruleSet))
      BY <2>1, <3>2 DEF KeysAreFresh
    <3>4. KeysFit(Q)'
      BY <1>1, <3>3, MeterFrame
    <3> QED
      BY <2>4, <3>1, <3>3, <3>4 DEF KeysFit, KeyFits, EdgesOf
  <2>6. \A R \in RuleSets : R \notin earlierSets /\ R # ruleSet => NoKeys(R)'
    BY <1>1, <2>1, MeterFrame DEF KeysAreFresh
  <2>7. KeysAreFresh'
    BY <1>1, <2>1, <2>4, <2>5, <2>6 DEF KeysAreFresh, Running
  <2> QED
    BY <2>2, <2>3, <2>7
<1> QED
  BY <1>1, <1>2, <1>3 DEF MeterInv, Running

\* A run starts at the rules to retire.
LEMMA StartsRun ==
    ASSUME MeterInv, StartMeterRun
    PROVE  MeterInv'
<1>1. PICK run : run = [stage |-> "retire", set |-> ruleSet, rule |-> None, wired |-> {},
                        left |-> {k \in RuleKeys : ruleSet[k] # None}]
  OBVIOUS
<1>2. /\ meterRun' = MeterEnded("bounded") \/ meterRun' = run
      /\ UNCHANGED <<unchangedFiles, rules, watches, ruleReceipts, ruleEvents, unrecorded>>
  BY <1>1 DEF StartMeterRun
<1>3. /\ run.stage = "retire" /\ run.set = ruleSet /\ run.rule = None
      /\ run.left = {k \in RuleKeys : ruleSet[k] # None}
  BY <1>1
<1>4. run \in MeterRuns
  BY <1>1 DEF MeterRuns, MeterInv, MeterTyped
<1>5. CASE meterRun' = MeterEnded("bounded")
  BY <1>2, <1>5, RunOnly DEF MeterEnded
<1>6. CASE meterRun' = run
  <2>1. RunReached'
    BY <1>3, <1>6 DEF RunReached
  <2>2. EdgesAreKnown'
    BY <1>3, <1>6 DEF EdgesAreKnown
  <2>3. meterRun' # MeterEnded("refused")
    BY <1>3, <1>6 DEF MeterEnded
  <2>4. meterRun'.set = ruleSet /\ meterRun' \in MeterRuns
    BY <1>3, <1>4, <1>6
  <2>5. UNCHANGED <<unchangedFiles, rules, watches, ruleReceipts, ruleEvents, unrecorded>>
    BY <1>2
  <2> HIDE <1>1, <1>2, <1>6
  <2> QED
    BY <2>1, <2>2, <2>3, <2>4, <2>5, RunOnly
<1> QED
  BY <1>2, <1>5, <1>6

\* A run that is stopped.
LEMMA StopsRun ==
    ASSUME MeterInv, StopMeterRun
    PROVE  MeterInv'
<1>1. /\ meterRun' = MeterEnded("stopped")
      /\ UNCHANGED <<unchangedFiles, rules, watches, ruleReceipts, ruleEvents, unrecorded>>
  BY DEF StopMeterRun
<1>2. meterRun'.stage = "idle" /\ meterRun' # MeterEnded("refused")
  BY <1>1 DEF MeterEnded
<1> QED
  BY <1>1, <1>2, RunOnly

\* A run that is through with a rule has it right, and its edges where it knows them.
LEMMA RuleIsDone ==
    ASSUME MeterInv, Running, RuleDone, NEW k \in RuleKeys, meterRun.set[k] # None,
           k \notin meterRun.left
    PROVE  RuleIs(meterRun.set, k) /\ (~returned => watches[k] = EdgesOf(meterRun.set, k))
<1>1. RunReached /\ (~returned => EdgesAreKnown) /\ (meterRun.stage \in {"retire", "wire"})
  BY DEF MeterInv, RuleDone
<1>2. meterRun.stage = "wire"
  BY <1>1 DEF RunReached
<1>3. CASE k = meterRun.rule
  <2>1. RuleIs(meterRun.set, k)
    BY <1>1, <1>2, <1>3 DEF RunReached
  <2>2. meterRun.wired = WantedServices
    BY <1>2 DEF RuleDone
  <2>3. ~returned => watches[k] = meterRun.wired
    BY <1>1, <1>2, <1>3 DEF EdgesAreKnown
  <2> QED
    BY <1>3, <2>1, <2>2, <2>3 DEF WantedServices, Wanted, EdgesOf
<1>4. CASE k # meterRun.rule
  <2>1. RuleIs(meterRun.set, k)
    BY <1>1, <1>2, <1>4 DEF RunReached
  <2>2. ~returned => watches[k] = EdgesOf(meterRun.set, k)
    BY <1>1, <1>4 DEF EdgesAreKnown
  <2> QED
    BY <2>1, <2>2
<1> QED
  BY <1>3, <1>4

\* The next rule is picked.
LEMMA PicksRule ==
    ASSUME MeterInv, PickRule
    PROVE  /\ MeterInv'
           /\ meterRun' = MeterEnded("converged") =>
                \A k \in RuleKeys :
                   IF meterRun.set[k] = None THEN ~Active(k)
                   ELSE /\ RuleIs(meterRun.set, k)
                        /\ ~returned => watches[k] = EdgesOf(meterRun.set, k)
<1>1. /\ RuleDone /\ Running /\ RunReached /\ MeterTyped
      /\ UNCHANGED <<unchangedFiles, rules, watches, ruleReceipts, ruleEvents, unrecorded>>
  BY DEF PickRule, RuleDone, Running, MeterInv
<1>2. \A k \in RuleKeys : meterRun.set[k] = None => ~Active(k)
  BY <1>1 DEF RuleDone, RunReached, ToRetire
<1>3. CASE meterRun.left = {}
  <2>1. meterRun' = MeterEnded("converged")
    BY <1>3 DEF PickRule
  <2>2. meterRun'.stage = "idle" /\ meterRun' # MeterEnded("refused")
    BY <2>1 DEF MeterEnded
  <2>3. MeterInv'
    BY <1>1, <2>2, RunOnly
  <2> QED
    BY <1>1, <1>2, <1>3, <2>3, RuleIsDone
<1>4. CASE meterRun.left # {}
  <2>1. PICK k \in meterRun.left :
            meterRun' = [meterRun EXCEPT
                !.rule = k, !.left = @ \ {k},
                !.stage = IF rules[k] = None THEN "create"
                          ELSE IF Active(k) THEN "update" ELSE "reactivate"]
    BY <1>4 DEF PickRule
  <2>2. PICK t : t = IF rules[k] = None THEN "create"
                     ELSE IF Active(k) THEN "update" ELSE "reactivate"
    OBVIOUS
  <2>3. PICK old : old = meterRun
    OBVIOUS
  <2>4. /\ old = [stage |-> old.stage, set |-> old.set, rule |-> old.rule,
                  wired |-> old.wired, left |-> old.left]
        /\ old.set \in RuleSets /\ old.wired \in SUBSET Services /\ old.left \in SUBSET RuleKeys
    BY <1>1, <2>3, MeterFields
  <2>5. meterRun' = [stage |-> t, set |-> old.set, rule |-> k, wired |-> old.wired,
                     left |-> old.left \ {k}]
    <3>1. PICK a : a = [old EXCEPT !.rule = k]
      OBVIOUS
    <3>2. a = [stage |-> old.stage, set |-> old.set, rule |-> k, wired |-> old.wired,
               left |-> old.left]
      BY <2>4, <3>1
    <3>3. PICK b : b = [a EXCEPT !.left = @ \ {k}]
      OBVIOUS
    <3>4. b = [stage |-> old.stage, set |-> old.set, rule |-> k, wired |-> old.wired,
               left |-> old.left \ {k}]
      BY <3>2, <3>3
    <3>5. meterRun' = [b EXCEPT !.stage = t]
      BY <2>1, <2>2, <2>3, <3>1, <3>3
    <3> QED
      BY <3>4, <3>5
  <2>6. k \in RuleKeys /\ t \in {"create", "update", "reactivate"}
    BY <2>2, <2>3, <2>4
  <2>7. /\ meterRun'.stage = t /\ meterRun'.set = meterRun.set /\ meterRun'.rule = k
        /\ meterRun'.left = meterRun.left \ {k} /\ meterRun' \in MeterRuns
    BY <2>3, <2>4, <2>5, <2>6 DEF MeterRuns
  <2>8. rules' = rules /\ watches' = watches /\ returned' = returned
        /\ \A j : Active(j)' <=> Active(j)
    BY <1>1 DEF unchangedFiles, Active
  <2>9. RunReached'
    <3>1. \A j \in meterRun'.left : meterRun'.set[j] # None
      BY <1>1, <2>7 DEF RunReached
    <3>2. meterRun'.set[k] # None
      BY <1>1, <2>7 DEF RunReached
    <3>3. ASSUME NEW j \in RuleKeys, meterRun.set[j] # None, j \notin meterRun.left \ {k}, j # k
          PROVE  RuleIs(meterRun.set, j)
      BY <1>1, <3>3, RuleIsDone
    <3>4. \A j \in RuleKeys :
              meterRun'.set[j] # None /\ j \notin meterRun'.left /\ j # meterRun'.rule =>
                  RuleIs(meterRun.set, j)'
      BY <2>7, <2>8, <3>3 DEF RuleIs
    <3>5. \A j \in RuleKeys : meterRun'.set[j] = None => ~Active(j)'
      BY <1>2, <2>7, <2>8
    <3>6. /\ t = "create" => rules'[k] = None
          /\ t = "reactivate" => rules'[k] # None /\ ~Active(k)'
          /\ t = "update" => Active(k)'
      BY <2>2, <2>8
    <3> QED
      BY <2>6, <2>7, <3>1, <3>2, <3>4, <3>5, <3>6 DEF RunReached, Active, RuleIs
  <2>10. ~returned => EdgesAreKnown'
    <3>1. ASSUME ~returned, NEW j \in RuleKeys, meterRun.set[j] # None,
                 j \notin meterRun.left \ {k}, j # k
          PROVE  watches[j] = EdgesOf(meterRun.set, j)
      BY <1>1, <3>1, RuleIsDone
    <3> QED
      BY <2>6, <2>7, <2>8, <3>1 DEF EdgesAreKnown, EdgesOf
  <2>11. meterRun' # MeterEnded("refused") /\ meterRun' # MeterEnded("converged")
    BY <2>6, <2>7 DEF MeterEnded
  <2>12. MeterInv'
    BY <1>1, <2>7, <2>9, <2>10, <2>11, RunOnly
  <2> QED
    BY <2>11, <2>12
<1> QED
  BY <1>3, <1>4

-----------------------------------------------------------------------------
\* A step of the run that writes.
LEMMA StoreStep ==
    ASSUME MeterInv, Running, NEW R, R = meterRun.set, UNCHANGED unchangedFiles,
           MeterTyped', \A k \in RuleKeys : rules'[k] = None => watches'[k] = {},
           Running', meterRun'.set = R, RunReached',
           ~returned => KeysFit(R)' /\ EdgesAreKnown' /\ ~unrecorded',
           \A k \in RuleKeys, verb \in {"retire", "reactivate"}, Q \in RuleSets :
              Q # R /\ <<Q, verb, k>> \in ruleEvents' => <<Q, verb, k>> \in ruleEvents,
           \A r \in ruleReceipts' : r \in ruleReceipts \/ r.key[1] = R
    PROVE  MeterInv'
<1>1. UNCHANGED <<ruleSet, earlierSets, returned>> /\ MeterTyped
  BY DEF unchangedFiles, MeterInv
<1>2. meterRun' # MeterEnded("refused")
  BY DEF Running, MeterEnded
<1>3. ASSUME ~returned PROVE KeysAreFresh' /\ EdgesAreKnown' /\ FreshKeysSuffice'
  <2>1. KeysAreFresh
    BY <1>3 DEF MeterInv
  <2>2. KeysAreFresh'
    BY <1>1, <1>3, <2>1, KeysStep
  <2>3. FreshKeysSuffice'
    BY <1>2, <1>3 DEF FreshKeysSuffice
  <2> QED
    BY <1>3, <2>2, <2>3
<1> QED
  BY <1>1, <1>3 DEF MeterInv

\* A run that moves between updating a rule and wiring it keeps its set and its rule.
LEMMA RunStaged ==
    ASSUME MeterTyped, Running, NEW t \in {"update", "wire"}, NEW w \in SUBSET Services,
           \/ meterRun' = [meterRun EXCEPT !.stage = t, !.wired = w]
           \/ meterRun' = [meterRun EXCEPT !.stage = t] /\ w = meterRun.wired
           \/ meterRun' = [meterRun EXCEPT !.wired = w] /\ t = meterRun.stage
    PROVE  /\ meterRun' \in MeterRuns /\ Running' /\ meterRun'.stage = t
           /\ meterRun'.set = meterRun.set /\ meterRun'.rule = meterRun.rule
           /\ meterRun'.wired = w /\ meterRun'.left = meterRun.left
<1>1. PICK old : old = meterRun
  OBVIOUS
<1>2. /\ old = [stage |-> old.stage, set |-> old.set, rule |-> old.rule,
                wired |-> old.wired, left |-> old.left]
      /\ old.set \in RuleSets /\ old.rule \in RuleKeys \cup {None}
      /\ old.left \in SUBSET RuleKeys
  BY <1>1, MeterFields
<1>3. meterRun' = [stage |-> t, set |-> old.set, rule |-> old.rule, wired |-> w,
                   left |-> old.left]
  <2>1. CASE meterRun' = [meterRun EXCEPT !.stage = t, !.wired = w]
    <3>1. PICK a : a = [old EXCEPT !.stage = t]
      OBVIOUS
    <3>2. a = [stage |-> t, set |-> old.set, rule |-> old.rule, wired |-> old.wired,
               left |-> old.left]
      BY <1>2, <3>1
    <3>3. meterRun' = [a EXCEPT !.wired = w]
      BY <1>1, <2>1, <3>1
    <3> QED
      BY <3>2, <3>3
  <2>2. CASE meterRun' = [meterRun EXCEPT !.stage = t] /\ w = meterRun.wired
    BY <1>1, <1>2, <2>2
  <2>3. CASE meterRun' = [meterRun EXCEPT !.wired = w] /\ t = meterRun.stage
    BY <1>1, <1>2, <2>3
  <2> QED
    BY <2>1, <2>2, <2>3
<1>4. meterRun' \in MeterRuns
  BY <1>2, <1>3 DEF MeterRuns
<1> QED
  BY <1>1, <1>3, <1>4 DEF Running

\* Rules that are not in the files any more are retired, one by one.
LEMMA Retires ==
    ASSUME MeterInv, RetireRule
    PROVE  MeterInv'
<1>1. /\ meterRun.stage = "retire" /\ Running /\ RunReached /\ MeterTyped
      /\ UNCHANGED <<unchangedFiles, meterRun>>
  BY DEF RetireRule, Running, MeterInv
<1>2. PICK R : R = meterRun.set
  OBVIOUS
<1>3. PICK k \in RuleKeys : R[k] = None /\ Active(k) /\ SetStatus(k, "retire", "RETIRED")
  BY <1>2 DEF RetireRule, ToRetire
<1>4. rules[k] # None
  BY <1>3 DEF Active
<1>5. PICK row \in RuleRow : /\ rules' = [rules EXCEPT ![k] = row]
                             /\ row.status = "RETIRED" /\ row.text = rules[k].text
  BY <1>1, <1>3, <1>4, StatusPut
<1>6. /\ ruleEvents' = ruleEvents \cup {<<R, "retire", k>>}
      /\ unrecorded' = (unrecorded \/ <<R, "retire", k>> \in ruleEvents)
      /\ UNCHANGED <<watches, ruleReceipts>>
  BY <1>2, <1>3 DEF SetStatus, KeyFor
<1>7. /\ rules' \in [RuleKeys -> {None} \cup RuleRow]
      /\ \A j \in RuleKeys : rules'[j] = IF j = k THEN row ELSE rules[j]
      /\ rules'[k] # None /\ ~Active(k)'
      /\ \A j \in RuleKeys : j # k => (Active(j)' <=> Active(j))
  BY <1>1, <1>5, RowPut
<1>8. MeterTyped'
  <2>1. unrecorded' \in BOOLEAN
    BY <1>6
  <2> QED
    BY <1>1, <1>6, <1>7, <2>1 DEF MeterTyped, Running, unchangedFiles
<1>9. \A j \in RuleKeys : rules'[j] = None => watches'[j] = {}
  BY <1>6, <1>7 DEF MeterInv
<1>10. RunReached'
  BY <1>1 DEF RunReached
<1>11. ASSUME ~returned PROVE KeysFit(R)' /\ EdgesAreKnown' /\ ~unrecorded'
  <2>1. KeysFit(R) /\ EdgesAreKnown /\ ~unrecorded
    BY <1>1, <1>2, <1>11 DEF MeterInv, KeysAreFresh, FreshKeysSuffice
  <2>2. ~unrecorded'
    BY <1>3, <1>6, <2>1 DEF KeysFit, KeyFits
  <2>3. EdgesAreKnown'
    BY <1>1, <1>6, <2>1 DEF EdgesAreKnown, Running, EdgesOf
  <2>4. ASSUME NEW j \in RuleKeys PROVE KeyFits(R, j)'
    <3>1. KeyFits(R, j)
      BY <2>1 DEF KeysFit
    <3>2. <<R, "reactivate", j>> \in ruleEvents' => <<R, "reactivate", j>> \in ruleEvents
      BY <1>6
    <3>3. CASE j = k
      BY <1>3, <1>5, <1>6, <1>7, <3>1, <3>2, <3>3 DEF KeyFits
    <3>4. CASE j # k
      <4>1. <<R, "retire", j>> \in ruleEvents' => <<R, "retire", j>> \in ruleEvents
        BY <1>6, <3>4
      <4> QED
        BY <1>6, <1>7, <3>1, <3>2, <3>4, <4>1 DEF KeyFits
    <3> QED
      BY <3>3, <3>4
  <2> QED
    BY <2>2, <2>3, <2>4 DEF KeysFit
<1>12. \A j \in RuleKeys, verb \in {"retire", "reactivate"}, Q \in RuleSets :
          Q # R /\ <<Q, verb, j>> \in ruleEvents' => <<Q, verb, j>> \in ruleEvents
  BY <1>6
<1>13. Running' /\ meterRun'.set = R
  BY <1>1, <1>2 DEF Running
<1> QED
  BY <1>1, <1>2, <1>6, <1>8, <1>9, <1>10, <1>11, <1>12, <1>13, StoreStep

\* A rule that is back in the files is reactivated.
LEMMA Reactivates ==
    ASSUME MeterInv, ReactivateRule
    PROVE  MeterInv'
<1>1. /\ meterRun.stage = "reactivate" /\ Running /\ RunReached /\ MeterTyped
      /\ UNCHANGED unchangedFiles /\ meterRun' = [meterRun EXCEPT !.stage = "update"]
  BY DEF ReactivateRule, Running, MeterInv
<1>2. PICK R, k : R = meterRun.set /\ k = meterRun.rule
  OBVIOUS
<1>3. /\ k \in RuleKeys /\ R[k] # None /\ rules[k] # None /\ ~Active(k)
      /\ SetStatus(k, "reactivate", "ACTIVE")
  BY <1>1, <1>2 DEF RunReached, ReactivateRule
<1>4. PICK row \in RuleRow : /\ rules' = [rules EXCEPT ![k] = row]
                             /\ row.status = "ACTIVE" /\ row.text = rules[k].text
  BY <1>1, <1>3, StatusPut
<1>5. /\ ruleEvents' = ruleEvents \cup {<<R, "reactivate", k>>}
      /\ unrecorded' = (unrecorded \/ <<R, "reactivate", k>> \in ruleEvents)
      /\ UNCHANGED <<watches, ruleReceipts>>
  BY <1>2, <1>3 DEF SetStatus, KeyFor
<1>6. /\ rules' \in [RuleKeys -> {None} \cup RuleRow]
      /\ \A j \in RuleKeys : rules'[j] = IF j = k THEN row ELSE rules[j]
      /\ rules'[k] # None /\ Active(k)'
      /\ \A j \in RuleKeys : j # k => (Active(j)' <=> Active(j))
  BY <1>1, <1>3, <1>4, RowPut
<1>7. /\ meterRun' \in MeterRuns /\ Running' /\ meterRun'.stage = "update"
      /\ meterRun'.set = R /\ meterRun'.rule = k
      /\ meterRun'.wired = meterRun.wired /\ meterRun'.left = meterRun.left
  BY <1>1, <1>2, RunStaged, MeterFields
<1>8. MeterTyped'
  <2>1. unrecorded' \in BOOLEAN
    BY <1>5
  <2> QED
    BY <1>1, <1>5, <1>6, <1>7, <2>1 DEF MeterTyped, unchangedFiles
<1>9. \A j \in RuleKeys : rules'[j] = None => watches'[j] = {}
  BY <1>5, <1>6 DEF MeterInv
<1>10. RunReached'
  <2>1. \A j \in RuleKeys : j # k => (RuleIs(R, j)' <=> RuleIs(R, j))
    BY <1>6 DEF RuleIs
  <2>2. \A j \in RuleKeys : R[j] # None /\ j \notin meterRun.left /\ j # k => RuleIs(R, j)'
    BY <1>1, <1>2, <2>1 DEF RunReached
  <2>3. \A j \in RuleKeys : R[j] = None => ~Active(j)'
    BY <1>1, <1>2, <1>3, <1>6 DEF RunReached
  <2> QED
    BY <1>1, <1>2, <1>3, <1>6, <1>7, <2>2, <2>3 DEF RunReached, RuleIs, Active
<1>11. ASSUME ~returned PROVE KeysFit(R)' /\ EdgesAreKnown' /\ ~unrecorded'
  <2>1. KeysFit(R) /\ EdgesAreKnown /\ ~unrecorded
    BY <1>1, <1>2, <1>11 DEF MeterInv, KeysAreFresh, FreshKeysSuffice
  <2>2. ~unrecorded'
    BY <1>3, <1>5, <2>1 DEF KeysFit, KeyFits
  <2>3. EdgesAreKnown'
    BY <1>1, <1>2, <1>5, <1>7, <2>1 DEF EdgesAreKnown, EdgesOf
  <2>4. ASSUME NEW j \in RuleKeys PROVE KeyFits(R, j)'
    <3>1. KeyFits(R, j)
      BY <2>1 DEF KeysFit
    <3>2. <<R, "retire", j>> \in ruleEvents' => <<R, "retire", j>> \in ruleEvents
      BY <1>5
    <3>3. CASE j = k
      BY <1>3, <1>4, <1>5, <1>6, <3>1, <3>2, <3>3 DEF KeyFits
    <3>4. CASE j # k
      <4>1. <<R, "reactivate", j>> \in ruleEvents' => <<R, "reactivate", j>> \in ruleEvents
        BY <1>5, <3>4
      <4> QED
        BY <1>5, <1>6, <3>1, <3>2, <3>4, <4>1 DEF KeyFits
    <3> QED
      BY <3>3, <3>4
  <2> QED
    BY <2>2, <2>3, <2>4 DEF KeysFit
<1>12. \A j \in RuleKeys, verb \in {"retire", "reactivate"}, Q \in RuleSets :
          Q # R /\ <<Q, verb, j>> \in ruleEvents' => <<Q, verb, j>> \in ruleEvents
  BY <1>5
<1> QED
  BY <1>1, <1>2, <1>5, <1>7, <1>8, <1>9, <1>10, <1>11, <1>12, StoreStep

\* A receipt that is added is of its own verb.
LEMMA OtherKeys ==
    ASSUME NEW new, ruleReceipts' = ruleReceipts \cup {new}
    PROVE  /\ \A R, j : new.key[2] # "update"
                        /\ (\E r \in ruleReceipts' : r.key = <<R, "update", j>>) =>
                 \E r \in ruleReceipts : r.key = <<R, "update", j>>
           /\ \A R, j, s : \A verb \in {"link", "unlink"} :
                 new.key[2] # verb
                 /\ [key |-> <<R, verb, j, s>>, version |-> 0] \in ruleReceipts' =>
                     [key |-> <<R, verb, j, s>>, version |-> 0] \in ruleReceipts
<1>1. ASSUME NEW R, NEW j, new.key[2] # "update",
             NEW r \in ruleReceipts', r.key = <<R, "update", j>>
      PROVE  r \in ruleReceipts
  <2>1. r.key[2] = "update"
    BY <1>1
  <2> QED
    BY <1>1, <2>1
<1>2. ASSUME NEW R, NEW j, NEW s, NEW verb \in {"link", "unlink"}, new.key[2] # verb,
             [key |-> <<R, verb, j, s>>, version |-> 0] \in ruleReceipts'
      PROVE  [key |-> <<R, verb, j, s>>, version |-> 0] \in ruleReceipts
  <2>1. PICK r : r = [key |-> <<R, verb, j, s>>, version |-> 0]
    OBVIOUS
  <2>2. r.key = <<R, verb, j, s>>
    BY <2>1
  <2>3. r.key[2] = verb
    BY <2>2
  <2> QED
    BY <1>2, <2>1, <2>3
<1> QED
  BY <1>1, <1>2

\* A rule that is not there is created, and is what its file says.
LEMMA Creates ==
    ASSUME MeterInv, CreateRule
    PROVE  MeterInv'
<1>1. /\ meterRun.stage = "create" /\ Running /\ RunReached /\ MeterTyped
      /\ UNCHANGED <<unchangedFiles, watches, ruleEvents, unrecorded>>
      /\ meterRun' = [meterRun EXCEPT !.stage = "wire", !.wired = {}]
  BY DEF CreateRule, Running, MeterInv
<1>2. PICK R, k : R = meterRun.set /\ k = meterRun.rule
  OBVIOUS
<1>3. /\ R \in RuleSets /\ k \in RuleKeys /\ R[k] # None /\ rules[k] = None /\ ~Active(k)
  BY <1>1, <1>2, MeterFields DEF RunReached, Active
<1>4. PICK row : row = [status |-> "ACTIVE", version |-> 1, text |-> R[k].text]
  OBVIOUS
<1>5. row \in RuleRow /\ row.status = "ACTIVE" /\ row.text = R[k].text
  BY <1>3, <1>4, RuleSetParts DEF RuleRow
<1>6. rules' = [rules EXCEPT ![k] = row]
  BY <1>2, <1>4 DEF CreateRule, Wanted
<1>7. PICK new : new = [key |-> <<R, "entity", k>>, version |-> 0]
  OBVIOUS
<1>8. ruleReceipts' = ruleReceipts \cup {new} /\ new.key[1] = R /\ new.key[2] = "entity"
  BY <1>2, <1>7 DEF CreateRule, KeyFor
<1>9. /\ rules' \in [RuleKeys -> {None} \cup RuleRow]
      /\ \A j \in RuleKeys : rules'[j] = IF j = k THEN row ELSE rules[j]
      /\ rules'[k] # None /\ Active(k)'
      /\ \A j \in RuleKeys : j # k => (Active(j)' <=> Active(j))
  BY <1>1, <1>3, <1>5, <1>6, RowPut
<1>10. /\ meterRun' \in MeterRuns /\ Running' /\ meterRun'.stage = "wire"
       /\ meterRun'.set = R /\ meterRun'.rule = k
       /\ meterRun'.wired = {} /\ meterRun'.left = meterRun.left
  <2>1. PICK w \in SUBSET Services : w = {}
    OBVIOUS
  <2>2. meterRun' = [meterRun EXCEPT !.stage = "wire", !.wired = w]
    BY <1>1, <2>1
  <2> QED
    BY <1>1, <1>2, <2>1, <2>2, RunStaged
<1>11. MeterTyped'
  BY <1>1, <1>9, <1>10 DEF MeterTyped, unchangedFiles
<1>12. \A j \in RuleKeys : rules'[j] = None => watches'[j] = {}
  BY <1>1, <1>9 DEF MeterInv
<1>13. RunReached'
  <2>1. \A j \in RuleKeys : j # k => (RuleIs(R, j)' <=> RuleIs(R, j))
    BY <1>9 DEF RuleIs
  <2>2. \A j \in RuleKeys : R[j] # None /\ j \notin meterRun.left /\ j # k => RuleIs(R, j)'
    BY <1>1, <1>2, <2>1 DEF RunReached
  <2>3. \A j \in RuleKeys : R[j] = None => ~Active(j)'
    BY <1>1, <1>2, <1>3, <1>9 DEF RunReached
  <2>4. RuleIs(R, k)'
    BY <1>3, <1>5, <1>9 DEF RuleIs
  <2> QED
    BY <1>1, <1>2, <1>3, <1>10, <2>2, <2>3, <2>4 DEF RunReached, RuleIs, Active
<1>14. ASSUME ~returned PROVE KeysFit(R)' /\ EdgesAreKnown' /\ ~unrecorded'
  <2>1. KeysFit(R) /\ EdgesAreKnown /\ ~unrecorded
    BY <1>1, <1>2, <1>14 DEF MeterInv, KeysAreFresh, FreshKeysSuffice
  <2>2. watches[k] = {}
    BY <1>3 DEF MeterInv
  <2>3. EdgesAreKnown'
    BY <1>1, <1>2, <1>10, <2>1, <2>2 DEF EdgesAreKnown, EdgesOf
  <2>4. ASSUME NEW j \in RuleKeys PROVE KeyFits(R, j)'
    <3>1. KeyFits(R, j) /\ KeyFits(R, k)
      BY <1>3, <2>1 DEF KeysFit
    <3>2. /\ (\E r \in ruleReceipts' : r.key = <<R, "update", j>>) =>
                 \E r \in ruleReceipts : r.key = <<R, "update", j>>
          /\ \A s : /\ [key |-> <<R, "link", j, s>>, version |-> 0] \in ruleReceipts' =>
                          [key |-> <<R, "link", j, s>>, version |-> 0] \in ruleReceipts
                    /\ [key |-> <<R, "unlink", j, s>>, version |-> 0] \in ruleReceipts' =>
                          [key |-> <<R, "unlink", j, s>>, version |-> 0] \in ruleReceipts
      BY <1>8, OtherKeys
    <3>3. CASE j = k
      BY <1>1, <1>3, <1>5, <1>9, <3>1, <3>2, <3>3 DEF KeyFits, EdgesOf
    <3>4. CASE j # k
      BY <1>1, <1>9, <3>1, <3>2, <3>4 DEF KeyFits, EdgesOf
    <3> QED
      BY <3>3, <3>4
  <2> QED
    BY <1>1, <2>1, <2>3, <2>4 DEF KeysFit
<1>15. \A r \in ruleReceipts' : r \in ruleReceipts \/ r.key[1] = R
  BY <1>8
<1> QED
  BY <1>1, <1>2, <1>10, <1>11, <1>12, <1>13, <1>14, <1>15, StoreStep

\* A rule that reads otherwise is updated; its edges are read.
LEMMA Updates ==
    ASSUME MeterInv, UpdateRule
    PROVE  MeterInv' /\ meterRun' # MeterEnded("converged")
<1>1. /\ meterRun.stage = "update" /\ Running /\ RunReached /\ MeterTyped
      /\ UNCHANGED <<unchangedFiles, ruleEvents, unrecorded, watches>>
  BY DEF UpdateRule, Running, MeterInv, Refuse
<1>2. PICK R, k : R = meterRun.set /\ k = meterRun.rule
  OBVIOUS
<1>3. /\ R \in RuleSets /\ k \in RuleKeys /\ R[k] # None /\ rules[k] # None /\ Active(k)
      /\ R[k].text \in RuleTexts /\ watches[k] \in SUBSET Services
  BY <1>1, <1>2, MeterFields, RuleSetParts DEF RunReached, Active, MeterTyped
<1>4. PICK old : old = rules[k]
  OBVIOUS
<1>5. /\ old = [status |-> "ACTIVE", version |-> old.version, text |-> old.text]
      /\ old.version \in Nat /\ old.text \in RuleTexts
  BY <1>1, <1>3, <1>4 DEF MeterTyped, RuleRow, Active
<1>6. CASE R[k].text # old.text /\ Reused(<<R, "update", k>>, old.version)
  <2>1. meterRun' = MeterEnded("refused") /\ UNCHANGED <<rules, watches, ruleReceipts>>
    BY <1>2, <1>4, <1>6 DEF UpdateRule, Wanted, KeyFor, Refuse
  <2>2. returned
    <3>1. \E r \in ruleReceipts : r.key = <<R, "update", k>>
      BY <1>6 DEF Reused
    <3>2. ~KeyFits(R, k)
      BY <1>4, <1>6, <3>1 DEF KeyFits
    <3> QED
      BY <1>1, <1>2, <1>3, <3>2 DEF MeterInv, KeysAreFresh, KeysFit
  <2>3. meterRun'.stage = "idle" /\ meterRun' # MeterEnded("converged")
    BY <2>1 DEF MeterEnded
  <2>4. MeterInv'
    BY <1>1, <2>1, <2>2, <2>3, RunOnly
  <2> QED
    BY <2>3, <2>4
<1>7. CASE ~(R[k].text # old.text /\ Reused(<<R, "update", k>>, old.version))
  <2>1. meterRun' = [meterRun EXCEPT !.stage = "wire", !.wired = watches[k]]
    BY <1>2, <1>4, <1>7 DEF UpdateRule, Wanted, KeyFor
  <2>2. /\ meterRun' \in MeterRuns /\ Running' /\ meterRun'.stage = "wire"
        /\ meterRun'.set = R /\ meterRun'.rule = k
        /\ meterRun'.wired = watches[k] /\ meterRun'.left = meterRun.left
    BY <1>1, <1>2, <1>3, <2>1, RunStaged
  <2>3. PICK row : row = [status |-> "ACTIVE", text |-> R[k].text,
                          version |-> IF R[k].text = old.text THEN old.version
                                      ELSE old.version + 1]
    OBVIOUS
  <2>4. row \in RuleRow /\ row.status = "ACTIVE" /\ row.text = R[k].text
    BY <1>3, <1>5, <2>3 DEF RuleRow
  <2>5. rules' = [rules EXCEPT ![k] = row]
    <3>1. CASE R[k].text = old.text
      <4>1. rules' = rules
        BY <1>2, <1>4, <3>1 DEF UpdateRule, Wanted, KeyFor
      <4>2. row = old
        BY <1>5, <2>3, <3>1
      <4> QED
        BY <1>1, <1>3, <1>4, <4>1, <4>2 DEF MeterTyped
    <3>2. CASE R[k].text # old.text
      <4>1. rules' = [rules EXCEPT ![k].text = R[k].text, ![k].version = @ + 1]
        BY <1>2, <1>4, <1>7, <3>2 DEF UpdateRule, Wanted, KeyFor
      <4>2. PICK a : a = [old EXCEPT !.text = R[k].text]
        OBVIOUS
      <4>3. a = [status |-> "ACTIVE", version |-> old.version, text |-> R[k].text]
        BY <1>5, <4>2
      <4>4. row = [a EXCEPT !.version = @ + 1]
        BY <2>3, <3>2, <4>3
      <4>5. PICK f : f = [rules EXCEPT ![k].text = R[k].text]
        OBVIOUS
      <4>6. f = [rules EXCEPT ![k] = a] /\ k \in DOMAIN rules
        BY <1>1, <1>3, <1>4, <4>2, <4>5 DEF MeterTyped
      <4>7. rules' = [f EXCEPT ![k].version = @ + 1]
        BY <4>1, <4>5
      <4>8. f[k] = a
        BY <4>6
      <4>9. rules' = [f EXCEPT ![k] = row]
        BY <4>4, <4>7, <4>8
      <4> QED
        BY <4>6, <4>9
    <3> QED
      BY <3>1, <3>2
  <2>6. /\ rules' \in [RuleKeys -> {None} \cup RuleRow]
        /\ \A j \in RuleKeys : rules'[j] = IF j = k THEN row ELSE rules[j]
        /\ rules'[k] # None /\ Active(k)'
        /\ \A j \in RuleKeys : j # k => (Active(j)' <=> Active(j))
    BY <1>1, <1>3, <2>4, <2>5, RowPut
  <2>7. MeterTyped'
    BY <1>1, <2>2, <2>6 DEF MeterTyped, unchangedFiles
  <2>8. \A j \in RuleKeys : rules'[j] = None => watches'[j] = {}
    BY <1>1, <2>6 DEF MeterInv
  <2>9. RunReached'
    <3>1. \A j \in RuleKeys : j # k => (RuleIs(R, j)' <=> RuleIs(R, j))
      BY <2>6 DEF RuleIs
    <3>2. \A j \in RuleKeys : R[j] # None /\ j \notin meterRun.left /\ j # k => RuleIs(R, j)'
      BY <1>1, <1>2, <3>1 DEF RunReached
    <3>3. \A j \in RuleKeys : R[j] = None => ~Active(j)'
      BY <1>1, <1>2, <1>3, <2>6 DEF RunReached
    <3>4. RuleIs(R, k)'
      BY <1>3, <2>4, <2>6 DEF RuleIs
    <3> QED
      BY <1>1, <1>2, <1>3, <2>2, <3>2, <3>3, <3>4 DEF RunReached, RuleIs, Active
  <2>10. PICK new : new = [key |-> <<R, "update", k>>, version |-> old.version]
    OBVIOUS
  <2>11. /\ new.key[1] = R /\ new.key[2] = "update" /\ new.key = <<R, "update", k>>
         /\ \/ ruleReceipts' = ruleReceipts
            \/ ruleReceipts' = ruleReceipts \cup {new}
    BY <1>2, <1>4, <1>7, <2>10 DEF UpdateRule, Wanted, KeyFor
  <2>12. ASSUME ~returned PROVE KeysFit(R)' /\ EdgesAreKnown' /\ ~unrecorded'
    <3>1. KeysFit(R) /\ EdgesAreKnown /\ ~unrecorded
      BY <1>1, <1>2, <2>12 DEF MeterInv, KeysAreFresh, FreshKeysSuffice
    <3>2. EdgesAreKnown'
      BY <1>1, <1>2, <2>2, <3>1 DEF EdgesAreKnown, EdgesOf
    <3>3. ASSUME NEW j \in RuleKeys PROVE KeyFits(R, j)'
      <4>1. KeyFits(R, j)
        BY <3>1 DEF KeysFit
      <4>2. \A s : /\ [key |-> <<R, "link", j, s>>, version |-> 0] \in ruleReceipts' =>
                          [key |-> <<R, "link", j, s>>, version |-> 0] \in ruleReceipts
                   /\ [key |-> <<R, "unlink", j, s>>, version |-> 0] \in ruleReceipts' =>
                          [key |-> <<R, "unlink", j, s>>, version |-> 0] \in ruleReceipts
        BY <2>11, OtherKeys
      <4>3. CASE j = k
        BY <1>1, <1>3, <2>4, <2>6, <4>1, <4>2, <4>3 DEF KeyFits, EdgesOf
      <4>4. CASE j # k
        <5>1. (\E r \in ruleReceipts' : r.key = <<R, "update", j>>) =>
                  \E r \in ruleReceipts : r.key = <<R, "update", j>>
          BY <2>11, <4>4
        <5> QED
          BY <1>1, <2>6, <4>1, <4>2, <4>4, <5>1 DEF KeyFits, EdgesOf
      <4> QED
        BY <4>3, <4>4
    <3> QED
      BY <1>1, <3>1, <3>2, <3>3 DEF KeysFit
  <2>13. \A r \in ruleReceipts' : r \in ruleReceipts \/ r.key[1] = R
    BY <2>11
  <2>14. MeterInv'
    BY <1>1, <1>2, <2>2, <2>7, <2>8, <2>9, <2>12, <2>13, StoreStep
  <2> QED
    BY <2>2, <2>14 DEF MeterEnded
<1> QED
  BY <1>6, <1>7

\* An edge is written, or its request answered from its receipt; where keys are fresh it
\* is written.
LEMMA Wires ==
    ASSUME MeterInv, NEW verb \in {"link", "unlink"}, NEW s \in Services,
           NEW services \in SUBSET Services, NEW w \in SUBSET Services,
           meterRun.stage = "wire", Wire(verb, s, services),
           meterRun' = [meterRun EXCEPT !.wired = w],
           services = IF verb = "link" THEN watches[meterRun.rule] \cup {s}
                      ELSE watches[meterRun.rule] \ {s},
           w = IF verb = "link" THEN meterRun.wired \cup {s} ELSE meterRun.wired \ {s},
           verb = "link" <=> s \in EdgesOf(meterRun.set, meterRun.rule),
           verb = "link" <=> s \notin meterRun.wired
    PROVE  MeterInv'
<1>1. /\ Running /\ RunReached /\ MeterTyped
      /\ UNCHANGED <<unchangedFiles, rules, ruleEvents, unrecorded>>
  BY DEF Wire, Running, MeterInv
<1>2. PICK R, k : R = meterRun.set /\ k = meterRun.rule
  OBVIOUS
<1>3. /\ R \in RuleSets /\ k \in RuleKeys /\ R[k] # None /\ rules[k] # None /\ Active(k)
      /\ RuleIs(R, k)
  BY <1>1, <1>2, MeterFields DEF RunReached, Active, RuleIs
<1>4. PICK new : new = [key |-> <<R, verb, k, s>>, version |-> 0]
  OBVIOUS
<1>5. /\ ruleReceipts' = ruleReceipts \cup {new}
      /\ watches' = IF new \in ruleReceipts THEN watches
                    ELSE [watches EXCEPT ![k] = services]
  BY <1>2, <1>4 DEF Wire
<1>6. new.key = <<R, verb, k, s>> /\ new.key[1] = R /\ new.key[2] = verb
  <2>1. new.key = <<R, verb, k, s>>
    BY <1>4
  <2> QED
    BY <2>1
<1>7. /\ watches' \in [RuleKeys -> SUBSET Services]
      /\ \A j \in RuleKeys : j # k => watches'[j] = watches[j]
      /\ watches'[k] = IF new \in ruleReceipts THEN watches[k] ELSE services
  BY <1>1, <1>3, <1>5 DEF MeterTyped
<1>8. /\ meterRun' \in MeterRuns /\ Running' /\ meterRun'.stage = "wire"
      /\ meterRun'.set = R /\ meterRun'.rule = k
      /\ meterRun'.wired = w /\ meterRun'.left = meterRun.left
  <2>1. PICK t \in {"update", "wire"} : t = meterRun.stage
    OBVIOUS
  <2>2. meterRun' = [meterRun EXCEPT !.wired = w] /\ MeterTyped /\ Running
    BY <1>1
  <2>3. /\ meterRun' \in MeterRuns /\ Running' /\ meterRun'.stage = t
        /\ meterRun'.set = meterRun.set /\ meterRun'.rule = meterRun.rule
        /\ meterRun'.wired = w /\ meterRun'.left = meterRun.left
    BY <2>1, <2>2, RunStaged
  <2> QED
    BY <1>2, <2>1, <2>3
<1>9. MeterTyped'
  BY <1>1, <1>7, <1>8 DEF MeterTyped, unchangedFiles
<1>10. \A j \in RuleKeys : rules'[j] = None => watches'[j] = {}
  BY <1>1, <1>3, <1>7 DEF MeterInv
<1>11. RunReached'
  BY <1>1, <1>2, <1>3, <1>8 DEF RunReached, RuleIs, Active
<1>12. ASSUME ~returned PROVE KeysFit(R)' /\ EdgesAreKnown' /\ ~unrecorded'
  <2>1. KeysFit(R) /\ EdgesAreKnown /\ ~unrecorded
    BY <1>1, <1>2, <1>12 DEF MeterInv, KeysAreFresh, FreshKeysSuffice
  <2>2. meterRun.wired = watches[k] /\ KeyFits(R, k)
    BY <1>1, <1>2, <1>3, <2>1 DEF EdgesAreKnown, KeysFit
  <2>3. new \notin ruleReceipts
    BY <1>2, <1>4, <2>2 DEF KeyFits
  <2>4. watches'[k] = services /\ services = w
    BY <1>2, <1>7, <2>2, <2>3
  <2>5. EdgesAreKnown'
    <3>1. meterRun'.wired = watches'[meterRun'.rule]
      BY <1>8, <2>4
    <3>2. ASSUME NEW j \in RuleKeys, R[j] # None, j \notin meterRun.left, j # k
          PROVE  watches'[j] = EdgesOf(R, j)
      BY <1>1, <1>2, <1>7, <2>1, <3>2 DEF EdgesAreKnown
    <3>3. \A j \in RuleKeys :
             meterRun'.set[j] # None /\ j \notin meterRun'.left /\ j # meterRun'.rule =>
                 watches'[j] = EdgesOf(R, j)
      BY <1>8, <3>2
    <3> QED
      BY <1>8, <3>1, <3>3 DEF EdgesAreKnown, EdgesOf
  <2>6. ASSUME NEW j \in RuleKeys PROVE KeyFits(R, j)'
    <3>1. KeyFits(R, j)
      BY <2>1 DEF KeysFit
    <3>2. (\E r \in ruleReceipts' : r.key = <<R, "update", j>>) =>
              \E r \in ruleReceipts : r.key = <<R, "update", j>>
      BY <1>5, <1>6, OtherKeys
    <3>3. ASSUME NEW t \in Services, NEW v \in {"link", "unlink"},
                 [key |-> <<R, v, j, t>>, version |-> 0] \in ruleReceipts'
          PROVE  R[j] # None /\ (v = "link" <=> t \in EdgesOf(R, j))
                 /\ (v = "link" <=> t \in watches'[j])
      <4>1. CASE [key |-> <<R, v, j, t>>, version |-> 0] \in ruleReceipts
        <5>1. /\ R[j] # None /\ (v = "link" <=> t \in EdgesOf(R, j))
              /\ (v = "link" <=> t \in watches[j])
          BY <3>1, <4>1 DEF KeyFits
        <5>2. CASE j = k /\ t = s
          <6>1. v = verb
            BY <1>2, <5>1, <5>2
          <6> QED
            BY <1>4, <2>3, <4>1, <5>2, <6>1
        <5>3. CASE j = k /\ t # s
          BY <1>2, <2>4, <5>1, <5>3
        <5>4. CASE j # k
          BY <1>7, <5>1, <5>4
        <5> QED
          BY <5>1, <5>2, <5>3, <5>4
      <4>2. CASE [key |-> <<R, v, j, t>>, version |-> 0] \notin ruleReceipts
        <5>1. PICK r : r = [key |-> <<R, v, j, t>>, version |-> 0]
          OBVIOUS
        <5>2. r = new /\ r.key = <<R, v, j, t>>
          BY <1>5, <3>3, <4>2, <5>1
        <5>3. v = verb /\ j = k /\ t = s
          BY <1>6, <5>2
        <5>4. v = "link" <=> t \in services
          BY <5>3
        <5> QED
          BY <1>2, <1>3, <2>4, <5>3, <5>4
      <4> QED
        BY <4>1, <4>2
    <3>4. /\ <<R, "retire", j>> \in ruleEvents' => R[j] = None /\ ~Active(j)'
          /\ <<R, "reactivate", j>> \in ruleEvents' => R[j] # None /\ Active(j)'
      BY <1>1, <3>1 DEF KeyFits, Active
    <3>5. (\E r \in ruleReceipts' : r.key = <<R, "update", j>>) =>
              R[j] # None /\ rules'[j] # None /\ rules'[j].text = R[j].text
      BY <1>1, <3>1, <3>2 DEF KeyFits
    <3>6. \A t \in Services :
             /\ [key |-> <<R, "link", j, t>>, version |-> 0] \in ruleReceipts' =>
                   R[j] # None /\ t \in EdgesOf(R, j) /\ t \in watches'[j]
             /\ [key |-> <<R, "unlink", j, t>>, version |-> 0] \in ruleReceipts' =>
                   R[j] # None /\ t \notin EdgesOf(R, j) /\ t \notin watches'[j]
      <4> TAKE t \in Services
      <4>1. "link" \in {"link", "unlink"} /\ "unlink" \in {"link", "unlink"} /\ "unlink" # "link"
        OBVIOUS
      <4> QED
        BY <3>3, <4>1
    <3> QED
      BY <3>4, <3>5, <3>6 DEF KeyFits, EdgesOf
  <2> QED
    BY <1>1, <2>1, <2>5, <2>6 DEF KeysFit
<1>13. \A r \in ruleReceipts' : r \in ruleReceipts \/ r.key[1] = R
  BY <1>5, <1>6
<1> QED
  BY <1>1, <1>2, <1>8, <1>9, <1>10, <1>11, <1>12, <1>13, StoreStep

\* Linking or unlinking a service, one at a time, does not end the run.
LEMMA LinksService ==
    ASSUME MeterInv, LinkService \/ UnlinkService
    PROVE  MeterInv' /\ meterRun' # MeterEnded("converged")
<1>1. /\ meterRun.stage = "wire" /\ Running /\ RunReached /\ MeterTyped
  BY DEF LinkService, UnlinkService, Running, MeterInv
<1>2. /\ meterRun.wired \in SUBSET Services /\ meterRun.rule \in RuleKeys
      /\ watches[meterRun.rule] \in SUBSET Services
      /\ WantedServices = EdgesOf(meterRun.set, meterRun.rule)
      /\ EdgesOf(meterRun.set, meterRun.rule) \in SUBSET Services
  <2>1. meterRun.rule \in RuleKeys /\ meterRun.set[meterRun.rule] # None
    BY <1>1 DEF RunReached
  <2> QED
    BY <1>1, <2>1, MeterFields, RuleSetParts DEF MeterTyped, WantedServices, Wanted, EdgesOf
<1>3. CASE LinkService
  <2>1. PICK s \in WantedServices \ meterRun.wired :
           /\ Wire("link", s, watches[meterRun.rule] \cup {s})
           /\ meterRun' = [meterRun EXCEPT !.wired = @ \cup {s}]
    BY <1>3 DEF LinkService
  <2>2. PICK services, w : /\ services = watches[meterRun.rule] \cup {s}
                           /\ w = meterRun.wired \cup {s}
    OBVIOUS
  <2>3. /\ s \in Services /\ services \in SUBSET Services /\ w \in SUBSET Services
        /\ s \in EdgesOf(meterRun.set, meterRun.rule) /\ s \notin meterRun.wired
    BY <1>2, <2>1, <2>2
  <2>4. Wire("link", s, services) /\ meterRun' = [meterRun EXCEPT !.wired = w]
    BY <2>1, <2>2
  <2>5. MeterInv'
    BY <1>1, <2>2, <2>3, <2>4, Wires
  <2>6. meterRun'.stage = "wire"
    BY <1>1, <2>3, <2>4, RunStaged
  <2> QED
    BY <2>5, <2>6 DEF MeterEnded
<1>4. CASE UnlinkService
  <2>1. PICK s \in meterRun.wired \ WantedServices :
           /\ Wire("unlink", s, watches[meterRun.rule] \ {s})
           /\ meterRun' = [meterRun EXCEPT !.wired = @ \ {s}]
    BY <1>4 DEF UnlinkService
  <2>2. PICK services, w : /\ services = watches[meterRun.rule] \ {s}
                           /\ w = meterRun.wired \ {s}
    OBVIOUS
  <2>3. /\ s \in Services /\ services \in SUBSET Services /\ w \in SUBSET Services
        /\ s \notin EdgesOf(meterRun.set, meterRun.rule) /\ s \in meterRun.wired
    BY <1>2, <2>1, <2>2
  <2>4. Wire("unlink", s, services) /\ meterRun' = [meterRun EXCEPT !.wired = w]
    BY <2>1, <2>2
  <2>5. MeterInv'
    BY <1>1, <2>2, <2>3, <2>4, Wires
  <2>6. meterRun'.stage = "wire"
    BY <1>1, <2>3, <2>4, RunStaged
  <2> QED
    BY <2>5, <2>6 DEF MeterEnded
<1> QED
  BY <1>3, <1>4

-----------------------------------------------------------------------------
\* The two action properties, of one step.
CompletesRight ==
    meterRun' = MeterEnded("converged") /\ meterRun' # meterRun =>
        \A k \in RuleKeys :
            IF meterRun.set[k] = None THEN ~Active(k)
            ELSE Active(k) /\ rules[k].text = meterRun.set[k].text
CompletesWired ==
    meterRun' = MeterEnded("converged") /\ meterRun' # meterRun /\ ~returned =>
        \A k \in RuleKeys : meterRun.set[k] # None =>
            watches[k] = {meterRun.set[k].service} \ {None}

\* Every step of a run and of the rule set under it keeps the invariant; a run completes only
\* with every rule, and every edge, as its set has them.
LEMMA MeterStep ==
    ASSUME MeterInv, [MeterNext]_meterVars
    PROVE  MeterInv' /\ CompletesRight /\ CompletesWired
<1>1. CASE PickRule
  BY <1>1, PicksRule DEF CompletesRight, CompletesWired, RuleIs, EdgesOf
<1>2. CASE ChangeRuleSet \/ UNCHANGED meterVars
  <2>1. meterRun' = meterRun
    BY <1>2 DEF ChangeRuleSet, meterVars
  <2>2. CASE UNCHANGED meterVars
    <3>1. UNCHANGED <<ruleSet, earlierSets, returned, ruleChanges, rules, watches, ruleReceipts,
                      ruleEvents, unrecorded, meterRun>>
      BY <2>2 DEF meterVars
    <3>2. UNCHANGED <<unchangedFiles, rules, watches, ruleReceipts, ruleEvents, unrecorded>>
      BY <3>1 DEF unchangedFiles
    <3>3. meterRun'.stage # "idle" =>
             /\ meterRun' \in MeterRuns /\ Running /\ meterRun'.set = meterRun.set
      BY <3>1 DEF MeterInv, MeterTyped, Running
    <3>4. Running => RunReached'
      BY <3>1 DEF MeterInv, RunReached, RuleIs, Active
    <3>5. ~returned => EdgesAreKnown' /\ meterRun' # MeterEnded("refused")
      BY <3>1 DEF MeterInv, EdgesAreKnown, Running, EdgesOf, FreshKeysSuffice
    <3> QED
      BY <2>1, <3>2, <3>3, <3>4, <3>5, RunOnly DEF CompletesRight, CompletesWired
  <2> QED
    BY <1>2, <2>1, <2>2, FilesChange DEF CompletesRight, CompletesWired
<1>3. CASE StartMeterRun
  <2>1. meterRun' # MeterEnded("converged")
    BY <1>3 DEF StartMeterRun, MeterEnded
  <2> QED
    BY <1>3, <2>1, StartsRun DEF CompletesRight, CompletesWired
<1>4. CASE RetireRule
  <2>1. meterRun' = meterRun
    BY <1>4 DEF RetireRule
  <2> QED
    BY <1>4, <2>1, Retires DEF CompletesRight, CompletesWired
<1>5. CASE ReactivateRule
  <2>1. /\ meterRun' = [meterRun EXCEPT !.stage = "update"] /\ Running /\ MeterTyped
    BY <1>5 DEF ReactivateRule, Running, MeterInv
  <2>2. meterRun'.stage = "update"
    BY <2>1, RunStaged, MeterFields
  <2> QED
    BY <1>5, <2>2, Reactivates DEF CompletesRight, CompletesWired, MeterEnded
<1>6. CASE CreateRule
  <2>1. /\ meterRun' = [meterRun EXCEPT !.stage = "wire", !.wired = {}] /\ Running /\ MeterTyped
    BY <1>6 DEF CreateRule, Running, MeterInv
  <2>2. PICK w \in SUBSET Services : w = {}
    OBVIOUS
  <2>3. meterRun' = [meterRun EXCEPT !.stage = "wire", !.wired = w]
    BY <2>1, <2>2
  <2>4. meterRun'.stage = "wire"
    BY <2>1, <2>3, RunStaged
  <2> QED
    BY <1>6, <2>4, Creates DEF CompletesRight, CompletesWired, MeterEnded
<1>7. CASE UpdateRule
  BY <1>7, Updates DEF CompletesRight, CompletesWired
<1>8. CASE LinkService \/ UnlinkService
  BY <1>8, LinksService DEF CompletesRight, CompletesWired
<1>9. CASE StopMeterRun
  <2>1. meterRun' # MeterEnded("converged")
    BY <1>9 DEF StopMeterRun, MeterEnded
  <2> QED
    BY <1>9, <2>1, StopsRun DEF CompletesRight, CompletesWired
<1> QED
  BY <1>1, <1>2, <1>3, <1>4, <1>5, <1>6, <1>7, <1>8, <1>9 DEF MeterNext

\* A run that completes leaves the rules as its files have them, and, while the files have
\* never said the same thing twice, their services too, with nothing refused and nothing
\* unrecorded (scripts/meter_list.py).
THEOREM MeterIsSafe == MeterSpec => MeterSafe
<1>1. MeterInit => MeterInv
  <2>1. SUFFICES ASSUME MeterInit PROVE MeterInv
    OBVIOUS
  <2>2. /\ meterRun.stage = "idle" /\ meterRun # MeterEnded("refused") /\ ~unrecorded
        /\ ruleReceipts = {} /\ ruleEvents = {} /\ earlierSets = {}
    BY <2>1 DEF MeterInit, MeterEnded
  <2>3. MeterTyped
    <3>1. ruleSet \in RuleSets /\ returned = FALSE /\ unrecorded = FALSE /\ ruleChanges = 0
      BY <2>1 DEF MeterInit
    <3>2. /\ rules \in [RuleKeys -> {None} \cup RuleRow]
          /\ watches \in [RuleKeys -> SUBSET Services]
      BY <2>1 DEF MeterInit
    <3>3. 0 \in 0..MaxRuleSetChanges
      BY RuleBounds
    <3> QED
      BY <2>2, <3>1, <3>2, <3>3 DEF MeterTyped, Running
  <2>4. \A R : NoKeys(R)
    BY <2>2 DEF NoKeys
  <2>5. KeysAreFresh /\ EdgesAreKnown /\ FreshKeysSuffice
    BY <2>2, <2>4, NoKeysFit DEF KeysAreFresh, EdgesAreKnown, FreshKeysSuffice, Running
  <2>6. \A k \in RuleKeys : watches[k] = {}
    BY <2>1 DEF MeterInit
  <2> QED
    BY <2>2, <2>3, <2>5, <2>6 DEF MeterInv, Running
<1>2. MeterInv /\ [MeterNext]_meterVars => MeterInv' /\ CompletesRight /\ CompletesWired
  BY MeterStep
<1>3. MeterInv => MeterTypeOK /\ FreshKeysSuffice
  <2>1. SUFFICES ASSUME MeterInv PROVE MeterTypeOK /\ FreshKeysSuffice
    OBVIOUS
  <2>2. FreshKeysSuffice
    BY <2>1 DEF MeterInv, FreshKeysSuffice
  <2>3. \A k \in RuleKeys : rules[k] = None \/ rules[k].status \in {"ACTIVE", "RETIRED"}
    BY <2>1 DEF MeterInv, MeterTyped, RuleRow
  <2> QED
    BY <2>1, <2>2, <2>3 DEF MeterInv, MeterTyped, MeterTypeOK
<1> QED
  BY <1>1, <1>2, <1>3, PTL DEF MeterSpec, MeterSafe, CompletedRunMatches, CompletedRunIsWired,
     CompletesRight, CompletesWired
=============================================================================

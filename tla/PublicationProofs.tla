------------------------- MODULE PublicationProofs -------------------------
(***************************************************************************)
(* Proofs about Publication, for every value of its constants.             *)
(***************************************************************************)
EXTENDS PublicationRefinement, WellFoundedInduction, FiniteSetTheorems, TLAPS

-----------------------------------------------------------------------------
(***************************************************************************)
(* What the operators of Corpus return.                                    *)
(***************************************************************************)

\* An evaluation starts well-typed.
LEMMA StartType ==
    ASSUME NEW c \in CorpusState, NEW base
    PROVE  StartEvaluation(c, base) \in Evaluation
BY DEF StartEvaluation, Evaluation, NoMoves, Redirects, CorpusState

\* A page is absent exactly when it is not a row.
LEMMA RowOrAbsent ==
    ASSUME NEW p \in Page
    PROVE  /\ p.status # "absent" <=> p \in Row
           /\ p.revision \in Nat
           /\ p.status \in {"absent", "active", "archived"}
           /\ p.path \in Paths \cup {None}
           /\ p.nav \in Navs \cup {None}
           /\ p.links \in SUBSET Paths
BY DEF Page, Row, AbsentPage

\* The identity of a corpus is an identity.
LEMMA IdentityType ==
    ASSUME NEW c \in CorpusState
    PROVE  StateIdentity(c) \in Identities
BY RowOrAbsent DEF CorpusState, StateIdentity, Identities

\* An edit of a row is a row.
LEMMA EditedType ==
    ASSUME NEW p \in Row, NEW o \in PageOps
    PROVE  Edited(p, o) \in Row
BY DEF Edited, Row, PageOps

\* The operation sets are told apart by their types.
LEMMA OpKinds ==
    ASSUME NEW o \in Ops
    PROVE  /\ o.type \in PageOpTypes <=> o \in PageOps
           /\ o.type = "CREATE_PAGE" <=> o \in CreateOps
           /\ o.type \in RouteOpTypes <=> o \in RouteOps
           /\ o.type \in AllOpTypes
BY DEF Ops, PageOps, CreateOps, RouteOps, PageOpTypes, RouteOpTypes,
       AllOpTypes

LEMMA ApplyPageOpType ==
    ASSUME NEW e \in Evaluation, NEW o \in PageOps,
           e.cand.pages[o.page].status # "absent"
    PROVE  ApplyPageOp(e, o) \in Evaluation
<1> DEFINE old == e.cand.pages[o.page]
           edited == [e EXCEPT !.cand.pages[o.page] = Edited(old, o),
                               !.touched = @ \cup {o.page}]
<1>1. o.page \in PageIds /\ old \in Row
  BY RowOrAbsent DEF Evaluation, CorpusState, PageOps
<1>2. Edited(old, o) \in Page
  BY <1>1, EditedType DEF Page
<1> HIDE DEF old
<1>3. edited \in Evaluation
  BY <1>1, <1>2 DEF Evaluation, CorpusState
<1>4. CASE o.type # "MOVE_PAGE"
  BY <1>3, <1>4 DEF ApplyPageOp, old
<1>5. CASE o.type = "MOVE_PAGE"
  <2>1. o.to \in Paths /\ o.redirect \in BOOLEAN
    BY <1>5 DEF PageOps
  <2> DEFINE moves == [edited.moves EXCEPT ![old.path] = o.to]
             redirects == [edited.cand.redirects EXCEPT ![old.path] =
                             IF o.redirect THEN o.to ELSE @]
             cand == [edited.cand EXCEPT !.redirects = redirects]
  <2>2. ApplyPageOp(e, o) =
          [edited EXCEPT !.moves = moves, !.cand = cand]
    BY <1>5 DEF ApplyPageOp, old
  <2> HIDE DEF edited
  <2>3. moves \in Redirects /\ redirects \in Redirects
    BY <1>3, <2>1 DEF Evaluation, CorpusState, Redirects
  <2> HIDE DEF moves, redirects
  <2>4. cand \in CorpusState
    BY <1>3, <2>3 DEF Evaluation, CorpusState
  <2> HIDE DEF cand
  <2> QED BY <1>3, <2>2, <2>3, <2>4 DEF Evaluation
<1> QED BY <1>4, <1>5

LEMMA ApplyCreateType ==
    ASSUME NEW e \in Evaluation, NEW o \in CreateOps
    PROVE  ApplyCreate(e, o) \in Evaluation
<1> DEFINE row == [path |-> o.path, nav |-> o.nav, body |-> o.body,
                   links |-> o.links, revision |-> 0, status |-> "active"]
           entry == [id |-> o.id, page |-> e.cand.pages[o.id]]
           shadow == IF e.cand.pages[o.id].status = "absent" THEN e.shadow
                     ELSE e.shadow \cup {entry}
<1>1. row \in Page /\ o.id \in PageIds
  BY DEF CreateOps, Row, Page
<1>2. shadow \in SUBSET [id : PageIds, page : Row]
  BY <1>1, RowOrAbsent DEF Evaluation, CorpusState
<1> DEFINE cand == [e.cand EXCEPT !.pages[o.id] = row]
<1>3. ApplyCreate(e, o) =
        [e EXCEPT !.shadow = shadow, !.cand = cand,
                  !.touched = @ \cup {o.id}, !.created = @ \cup {o.id}]
  BY DEF ApplyCreate
<1> HIDE DEF row, shadow
<1>4. cand \in CorpusState
  BY <1>1 DEF Evaluation, CorpusState
<1> DEFINE touched == e.touched \cup {o.id}
           created == e.created \cup {o.id}
<1>5. touched \in SUBSET PageIds /\ created \in SUBSET PageIds
  BY <1>1 DEF Evaluation
<1> HIDE DEF cand
<1>6. ApplyCreate(e, o) =
        [e EXCEPT !.shadow = shadow, !.cand = cand,
                  !.touched = touched, !.created = created]
  BY <1>3
<1> HIDE DEF touched, created
<1> QED BY <1>2, <1>4, <1>5, <1>6 DEF Evaluation

LEMMA ApplyRouteOpType ==
    ASSUME NEW e \in Evaluation, NEW o \in RouteOps
    PROVE  ApplyRouteOp(e, o) \in Evaluation
BY DEF ApplyRouteOp, RouteOps, Evaluation, CorpusState, Redirects

\* Evaluating an operation of any kind keeps the working copy well-typed.
LEMMA EvaluateType ==
    ASSUME NEW e \in Evaluation, NEW o \in Ops
    PROVE  Evaluate(e, o) \in Evaluation
<1>1. CASE ~Accepts(e, o)
  BY <1>1 DEF Evaluate, Evaluation
<1>2. CASE Accepts(e, o) /\ o.type \in PageOpTypes
  BY <1>2, OpKinds, ApplyPageOpType DEF Evaluate, Accepts, Current
<1>3. CASE Accepts(e, o) /\ o.type = "CREATE_PAGE"
  BY <1>3, OpKinds, ApplyCreateType DEF Evaluate, PageOpTypes
<1>4. CASE Accepts(e, o) /\ o.type \in RouteOpTypes
  BY <1>4, OpKinds, ApplyRouteOpType DEF Evaluate, PageOpTypes, RouteOpTypes
<1> QED BY <1>1, <1>2, <1>3, <1>4, OpKinds DEF AllOpTypes

\* Evaluating an operation does not touch the origin.
LEMMA EvaluateOrigin ==
    ASSUME NEW e \in Evaluation, NEW o
    PROVE  Evaluate(e, o).origin = e.origin
BY DEF Evaluate, ApplyPageOp, ApplyCreate, ApplyRouteOp, Evaluation

\* Retargeting links yields links.
LEMMA RetargetType ==
    ASSUME NEW moves \in Redirects, NEW links \in SUBSET Paths
    PROVE  Retarget(links, moves) \in SUBSET Paths
BY DEF Retarget, Redirects

LEMMA RepairType ==
    ASSUME NEW e \in Evaluation
    PROVE  RepairLinks(e) \in Evaluation
<1> DEFINE changed == {i \in Repairable(e) :
                         Retarget(e.cand.pages[i].links, e.moves)
                           # e.cand.pages[i].links}
           pages == [i \in PageIds |->
                       IF i \in changed
                       THEN [e.cand.pages[i] EXCEPT !.links =
                               Retarget(e.cand.pages[i].links, e.moves)]
                       ELSE e.cand.pages[i]]
<1>1. changed \subseteq PageIds
  BY DEF Repairable, Active
<1>2. pages \in [PageIds -> Page]
  <2> SUFFICES ASSUME NEW i \in PageIds PROVE pages[i] \in Page
    OBVIOUS
  <2>1. e.cand.pages[i] \in Page /\ e.moves \in Redirects
    BY DEF Evaluation, CorpusState
  <2>2. CASE i \in changed
    <3>1. e.cand.pages[i] \in Row
      BY <2>1, <2>2, RowOrAbsent DEF Repairable, Active
    <3>2. Retarget(e.cand.pages[i].links, e.moves) \in SUBSET Paths
      BY <2>1, <3>1, RetargetType DEF Row
    <3> QED BY <2>2, <3>1, <3>2 DEF Row, Page
  <2>3. CASE i \notin changed
    BY <2>1, <2>3
  <2> QED BY <2>2, <2>3
<1> DEFINE cand == [e.cand EXCEPT !.pages = pages]
<1>3. RepairLinks(e) = e \/
      RepairLinks(e) = [e EXCEPT !.cand = cand, !.touched = @ \cup changed]
  BY DEF RepairLinks
<1> HIDE DEF changed, pages
<1>4. cand \in CorpusState
  BY <1>2 DEF Evaluation, CorpusState
<1> HIDE DEF cand
<1> QED BY <1>1, <1>3, <1>4 DEF Evaluation

\* Repairing links keeps how the working copy relates to its origin.
LEMMA RepairKeeps ==
    ASSUME NEW e \in Evaluation, CandidateKept(e)
    PROVE  /\ CandidateKept(RepairLinks(e))
           /\ RepairLinks(e).origin = e.origin
           /\ RepairLinks(e).created = e.created
           /\ RepairLinks(e).shadow = e.shadow
           /\ RepairLinks(e).ok = e.ok
<1> DEFINE changed == {i \in Repairable(e) :
                         Retarget(e.cand.pages[i].links, e.moves)
                           # e.cand.pages[i].links}
           pages == [i \in PageIds |->
                       IF i \in changed
                       THEN [e.cand.pages[i] EXCEPT !.links =
                               Retarget(e.cand.pages[i].links, e.moves)]
                       ELSE e.cand.pages[i]]
           r == [e EXCEPT !.cand.pages = pages, !.touched = @ \cup changed]
<1>1. RepairLinks(e) = e \/ RepairLinks(e) = r
  BY DEF RepairLinks
<1>2. /\ r.origin = e.origin /\ r.created = e.created
      /\ r.shadow = e.shadow /\ r.ok = e.ok
      /\ r.touched = e.touched \cup changed
      /\ r.cand.pages = pages
  BY DEF Evaluation, CorpusState
<1>3. \A i \in changed :
         /\ i \in PageIds
         /\ e.cand.pages[i].status = "active"
         /\ e.origin.pages[i].status # "absent"
  BY DEF Repairable, Active
<1>4. \A i \in PageIds :
         /\ pages[i].status = e.cand.pages[i].status
         /\ pages[i].revision = e.cand.pages[i].revision
         /\ i \notin changed => pages[i] = e.cand.pages[i]
  <2> TAKE i \in PageIds
  <2>1. e.cand.pages[i] \in Page
    BY DEF Evaluation, CorpusState
  <2> QED BY <1>3, <2>1, RowOrAbsent DEF Row
<1> HIDE DEF changed, pages, r
<1>5. CandidateKept(r)
  BY <1>2, <1>3, <1>4 DEF CandidateKept, Evaluation
<1> QED BY <1>1, <1>2, <1>5

\* What a publication writes is a corpus.
LEMMA WrittenType ==
    ASSUME NEW e \in Evaluation,
           \A i \in e.touched : e.cand.pages[i].status # "absent"
    PROVE  Written(e) \in CorpusState
<1> DEFINE pages == [i \in PageIds |->
              IF i \in e.touched
              THEN [e.cand.pages[i] EXCEPT !.revision =
                      IF i \in e.created THEN 1
                      ELSE e.origin.pages[i].revision + 1]
              ELSE e.origin.pages[i]]
<1>1. pages \in [PageIds -> Page]
  <2> SUFFICES ASSUME NEW i \in PageIds PROVE pages[i] \in Page
    OBVIOUS
  <2>1. e.cand.pages[i] \in Page /\ e.origin.pages[i] \in Page
    BY DEF Evaluation, CorpusState
  <2>2. e.origin.pages[i].revision \in Nat
    BY <2>1, RowOrAbsent
  <2>3. i \in e.touched => e.cand.pages[i] \in Row
    BY <2>1, RowOrAbsent
  <2> QED BY <2>1, <2>2, <2>3 DEF Row, Page
<1>2. Written(e) = [e.cand EXCEPT !.pages = pages]
  BY DEF Written
<1> HIDE DEF pages
<1> QED BY <1>1, <1>2 DEF Evaluation, CorpusState

-----------------------------------------------------------------------------
(***************************************************************************)
(* Type correctness.                                                       *)
(***************************************************************************)

\* Ending a request leaves a well-typed, idle worker.
LEMMA FinishOK ==
    ASSUME WorkersOK, NEW w \in Workers, Finish(w)
    PROVE  WorkersOK'
BY DEF WorkersOK, Finish, Busy, Places

\* What a client submits is an operation.
LEMMA SubmittedType ==
    ASSUME TypeOK, Numbered
    PROVE  Submitted \subseteq Ops
<1> SUFFICES ASSUME NEW o \in Submitted PROVE o \in Ops
  OBVIOUS
<1>1. \A i \in Existing(corpus.pages) :
         /\ i \in PageIds
         /\ corpus.pages[i].revision \in Nat \ {0}
         /\ corpus.pages[i].body \in Bodies
  <2> TAKE i \in Existing(corpus.pages)
  <2>1. i \in PageIds /\ corpus.pages[i] \in Page
    BY DEF Existing, TypeOK, TablesOK, CorpusState
  <2>2. corpus.pages[i] \in Row
    BY <2>1, RowOrAbsent DEF Existing
  <2> QED BY <2>1, <2>2 DEF Numbered, Row
<1>2. \A l \in LinkSets : l \in SUBSET Paths
  BY LinkSetsAssumption
<1>3. o \in PageOps \/ o \in CreateOps \/ o \in RouteOps
  BY <1>1, <1>2 DEF Submitted, PageOps, CreateOps, RouteOps
<1> QED BY <1>3 DEF Ops

THEOREM InitType == Init => TypeOK
<1> SUFFICES ASSUME Init PROVE TypeOK
  OBVIOUS
<1>1. corpus \in CorpusState
  BY StartAssumption DEF Init, Imported
<1>2. versions \in [PageIds -> SUBSET Row]
  BY DEF Init
<1>3. changes \in [Changes -> Change]
  BY DEF Init, NoChange, Change, ChangeStatuses
<1>4. WorkersOK
  BY DEF Init, WorkersOK, Places, Busy
<1> QED BY <1>1, <1>2, <1>3, <1>4 DEF TypeOK, TablesOK

LEMMA StepType ==
    ASSUME Inductive, [Next]_vars
    PROVE  TypeOK'
<1> USE DEF Inductive, TypeOK
<1>1. CASE UNCHANGED vars
  BY <1>1 DEF vars, TablesOK, WorkersOK, Busy
<1>2. ASSUME NEW c \in Changes, NEW base \in {None, StateIdentity(corpus)},
             CreateChange(c, base)
      PROVE  TypeOK'
  <2>1. base \in Identities \cup {None}
    BY <1>2, IdentityType DEF TablesOK
  <2>4. NewChange(base, <<>>) \in Change
    BY <2>1 DEF NewChange, Change, ChangeStatuses
  <2>2. TablesOK'
    BY <1>2, <2>4 DEF CreateChange, TablesOK
  <2>3. WorkersOK'
    BY <1>2 DEF CreateChange, WorkersOK, Busy
  <2> QED BY <2>2, <2>3
<1>3. ASSUME NEW c \in Changes, AbandonChange(c)
      PROVE  TypeOK'
  <2>1. TablesOK'
    BY ZenonT(60), <1>3 DEF AbandonChange, TablesOK, Change, ChangeStatuses
  <2>2. WorkersOK'
    BY <1>3 DEF AbandonChange, WorkersOK, Busy
  <2> QED BY <2>1, <2>2
<1>4. ASSUME NEW w \in Workers, NEW c \in Changes, BeginAdd(w, c)
      PROVE  TypeOK'
  <2>1. TablesOK'
    BY <1>4 DEF BeginAdd, TablesOK
  <2>2. Len(changes[c].ops) \in Nat
    BY <1>4 DEF TablesOK, Change
  <2>3. WorkersOK'
    BY <1>4, <2>2 DEF BeginAdd, WorkersOK, Busy, Places
  <2> QED BY <2>1, <2>3
<1>5. ASSUME NEW w \in Workers, NEW c \in Changes, BeginValidate(w, c)
      PROVE  TypeOK'
  <2>1. TablesOK'
    BY <1>5 DEF BeginValidate, TablesOK
  <2>2. StartEvaluation(corpus, None) \in Evaluation
    BY StartType DEF TablesOK
  <2>3. WorkersOK'
    BY <1>5, <2>2 DEF BeginValidate, WorkersOK, Busy, Places
  <2> QED BY <2>1, <2>3
<1>6. ASSUME NEW w \in Workers, NEW c \in Changes, RequestPublish(w, c)
      PROVE  TypeOK'
  <2>1. TablesOK'
    BY <1>6 DEF RequestPublish, TablesOK
  <2>2. WorkersOK'
    BY <1>6 DEF RequestPublish, Reach, WorkersOK, Busy, Places
  <2> QED BY <2>1, <2>2
<1>7. ASSUME NEW w \in Workers, NEW c \in Changes, NEW i \in PageIds,
             NEW v \in versions[i], RollbackPage(w, c, i, v)
      PROVE  TypeOK'
  <2> DEFINE o == [type |-> "REPLACE_DOCUMENT", page |-> i,
                   rev |-> corpus.pages[i].revision, body |-> v.body,
                   links |-> v.links, nav |-> v.nav]
  <2>1. v \in Row /\ corpus.pages[i] \in Page
    BY <1>7 DEF TablesOK, CorpusState
  <2>2. o \in Ops
    <3>1. corpus.pages[i].revision \in Nat \ {0}
      <4>1. v.revision \in 1..(corpus.pages[i].revision - 1)
        BY <1>7 DEF HistoryComplete
      <4> QED BY <2>1, <4>1, RowOrAbsent
    <3> QED BY <2>1, <3>1 DEF Ops, PageOps, Row
  <2>3. changes' = [changes EXCEPT ![c] = NewChange(None, <<o>>)]
    BY <1>7 DEF RollbackPage
  <2> HIDE DEF o
  <2>4. NewChange(None, <<o>>) \in Change
    BY <2>2 DEF NewChange, Change, ChangeStatuses
  <2>5. TablesOK'
    BY <1>7, <2>3, <2>4 DEF RollbackPage, TablesOK
  <2>6. WorkersOK'
    BY <1>7 DEF RollbackPage, Reach, WorkersOK, Busy, Places
  <2> QED BY <2>5, <2>6
<1>8. ASSUME NEW w \in Workers, NEW o \in Submitted, InsertOperation(w, o)
      PROVE  TypeOK'
  <2>1. o \in Ops /\ job[w] \in Changes
    BY <1>8, SubmittedType DEF InsertOperation, WorkersOK
  <2>2. Append(changes[job[w]].ops, o) \in Seq(Ops)
    BY <2>1 DEF TablesOK, Change
  <2>3. TablesOK'
    <3>1. \/ changes' = changes
          \/ changes' = [changes EXCEPT
                           ![job[w]].status = "DRAFT",
                           ![job[w]].ops = Append(changes[job[w]].ops, o),
                           ![job[w]].summary = None]
      BY <1>8 DEF InsertOperation
    <3>2. changes' \in [Changes -> Change]
      BY SMTT(30), <2>1, <2>2, <3>1 DEF TablesOK, Change, ChangeStatuses
    <3> QED BY <1>8, <3>2 DEF InsertOperation, TablesOK
  <2>4. WorkersOK'
    BY <1>8, FinishOK DEF InsertOperation
  <2> QED BY <2>3, <2>4
<1>9. ASSUME NEW w \in Workers, LoadRoutes(w)
      PROVE  TypeOK'
  <2>1. TablesOK'
    BY <1>9 DEF LoadRoutes, TablesOK
  <2>2. [corpus EXCEPT !.pages = ev[w].origin.pages] \in CorpusState
    BY <1>9 DEF LoadRoutes, Busy, TablesOK, WorkersOK, Evaluation, CorpusState
  <2>3. WorkersOK'
    BY <1>9, <2>2, StartType DEF LoadRoutes, WorkersOK, Busy, Places
  <2> QED BY <2>1, <2>3
<1>10. ASSUME NEW w \in Workers, EvaluateNext(w)
       PROVE  TypeOK'
  <2>1. TablesOK'
    BY <1>10 DEF EvaluateNext, TablesOK
  <2>2. /\ ev[w] \in Evaluation /\ job[w] \in Changes
        /\ next[w] \in 1..Len(changes[job[w]].ops)
    BY <1>10 DEF EvaluateNext, WorkersOK, Busy, TablesOK, Change
  <2>3. changes[job[w]].ops[next[w]] \in Ops
    BY <2>2 DEF TablesOK, Change
  <2>4. Evaluate(ev[w], changes[job[w]].ops[next[w]]) \in Evaluation
    BY <2>2, <2>3, EvaluateType
  <2>5. WorkersOK'
    BY <1>10, <2>4 DEF EvaluateNext, WorkersOK, Busy
  <2> QED BY <2>1, <2>5
<1>11. ASSUME NEW w \in Workers, FinishValidate(w)
       PROVE  TypeOK'
  <2>1. ev[w] \in Evaluation /\ job[w] \in Changes
    BY <1>11 DEF FinishValidate, WorkersOK, Busy
  <2>2. StateIdentity(ev[w].origin) \in Identities
    BY <2>1, IdentityType DEF Evaluation
  <2> DEFINE status == IF ChangePasses(w) THEN "VALIDATED" ELSE "DRAFT"
             summary == StateIdentity(ev[w].origin)
  <2>5. changes' = [changes EXCEPT ![job[w]].status = status,
                                   ![job[w]].summary = summary]
    BY <1>11 DEF FinishValidate
  <2>6. status \in ChangeStatuses /\ summary \in Identities
    BY <2>2 DEF ChangeStatuses
  <2> HIDE DEF status, summary
  <2>7. changes' \in [Changes -> Change]
    BY <2>1, <2>5, <2>6 DEF TablesOK, Change
  <2>3. TablesOK'
    BY <1>11, <2>7 DEF FinishValidate, TablesOK
  <2>4. WorkersOK'
    BY <1>11, FinishOK DEF FinishValidate
  <2> QED BY <2>3, <2>4
<1>12. ASSUME NEW w \in Workers, TakePublicationLock(w)
       PROVE  TypeOK'
  <2>1. TablesOK'
    BY <1>12 DEF TakePublicationLock, TablesOK
  <2>2. WorkersOK'
    BY <1>12 DEF TakePublicationLock, Reach, WorkersOK, Busy, Places
  <2> QED BY <2>1, <2>2
<1>13. ASSUME NEW w \in Workers,
              ReturnSettled(w) \/ FailPublish(w) \/ Crash(w)
       PROVE  TypeOK'
  BY <1>13, FinishOK DEF ReturnSettled, FailPublish, Crash, TablesOK
<1>14. ASSUME NEW w \in Workers, LockChangeAndPages(w)
       PROVE  TypeOK'
  <2>1. TablesOK'
    BY <1>14 DEF LockChangeAndPages, TablesOK
  <2>2. WorkersOK'
    BY <1>14, StartType
    DEF LockChangeAndPages, TablesOK, WorkersOK, Busy, Places
  <2> QED BY <2>1, <2>2
<1>15. ASSUME NEW w \in Workers, RejectPublish(w)
       PROVE  TypeOK'
  <2>1. ev[w] \in Evaluation /\ job[w] \in Changes
    BY <1>15 DEF RejectPublish, WorkersOK, Busy
  <2>2. StateIdentity(ev[w].origin) \in Identities
    BY <2>1, IdentityType DEF Evaluation
  <2>3. TablesOK'
    BY ZenonT(60), <1>15, <2>1, <2>2 DEF RejectPublish, TablesOK, Change, ChangeStatuses
  <2>4. WorkersOK'
    BY <1>15, FinishOK DEF RejectPublish
  <2> QED BY <2>3, <2>4
<1>16. ASSUME NEW w \in Workers, CommitPublish(w)
       PROVE  TypeOK'
  <2> DEFINE c == job[w]
             r == Result(w)
  <2>1. r \in Evaluation /\ c \in Changes
    BY <1>16, RepairType DEF CommitPublish, WorkersOK, Busy, Result
  <2>2. CandidateKept(r)
    BY <1>16, RepairKeeps
    DEF CommitPublish, WorkersOK, Busy, Result, EvaluationInv, WorkingCopy
  <2>3. corpus' \in CorpusState
    <3>1. corpus' = Written(r)
      BY <1>16 DEF CommitPublish
    <3>2. \A i \in r.touched : r.cand.pages[i].status # "absent"
      BY <2>1, <2>2 DEF CandidateKept, Evaluation
    <3> HIDE DEF r
    <3> QED BY <2>1, <3>1, <3>2, WrittenType
  <2>4. versions' \in [PageIds -> SUBSET Row]
    <3>1. \A i \in r.touched \ r.created : r.origin.pages[i] \in Row
      BY <2>1, <2>2, RowOrAbsent DEF CandidateKept, Evaluation, CorpusState
    <3>2. \A i \in PageIds : versions[i] \in SUBSET Row
      BY DEF TablesOK
    <3> QED BY <1>16, <3>1, <3>2 DEF CommitPublish, Snapshot
  <2>5. StateIdentity(r.origin) \in Identities
    BY <2>1, IdentityType DEF Evaluation
  <2>6. TablesOK'
    BY ZenonT(60), <1>16, <2>1, <2>3, <2>4, <2>5
    DEF CommitPublish, TablesOK, Change, ChangeStatuses
  <2>7. WorkersOK'
    BY <1>16, FinishOK DEF CommitPublish
  <2> QED BY <2>6, <2>7
<1> QED
  BY <1>1, <1>2, <1>3, <1>4, <1>5, <1>6, <1>7, <1>8, <1>9, <1>10, <1>11,
     <1>12, <1>13, <1>14, <1>15, <1>16
  DEF Next, WorkerStep

-----------------------------------------------------------------------------
(***************************************************************************)
(* Locks.                                                                  *)
(***************************************************************************)

\* Ending a request makes one worker idle and leaves the others alone.
LEMMA FinishElse ==
    ASSUME WorkersOK, NEW w \in Workers, Finish(w)
    PROVE  /\ pc'[w] = "idle" /\ pubLock' # w
           /\ \A u \in Workers \ {w} :
                 /\ pc'[u] = pc[u] /\ job'[u] = job[u]
                 /\ ev'[u] = ev[u] /\ next'[u] = next[u]
                 /\ pubLock' = u <=> pubLock = u
BY PublicationAssumption DEF WorkersOK, Finish

\* A change, once created, stays.
LEMMA ChangesStay ==
    ASSUME Inductive, [Next]_vars
    PROVE  \A c \in Changes :
              changes[c].status # "none" => changes'[c].status # "none"
<1> SUFFICES ASSUME NEW c \in Changes, changes[c].status # "none"
             PROVE  changes'[c].status # "none"
  OBVIOUS
<1> USE DEF Inductive, TypeOK, TablesOK
<1>1. CASE UNCHANGED vars
  BY <1>1 DEF vars
<1>2. ASSUME NEW d \in Changes, NEW base, CreateChange(d, base)
      PROVE  changes'[c].status # "none"
  BY <1>2 DEF CreateChange, NewChange
<1>3. ASSUME NEW d \in Changes, AbandonChange(d)
      PROVE  changes'[c].status # "none"
  BY <1>3 DEF AbandonChange, Change
<1>4. ASSUME NEW w \in Workers, NEW d \in Changes, NEW i \in PageIds,
             NEW v \in versions[i], RollbackPage(w, d, i, v)
      PROVE  changes'[c].status # "none"
  BY <1>4 DEF RollbackPage, NewChange
<1>5. ASSUME NEW w \in Workers, NEW o, InsertOperation(w, o)
      PROVE  changes'[c].status # "none"
  BY <1>5 DEF InsertOperation, Change
<1>6. ASSUME NEW w \in Workers, FinishValidate(w)
      PROVE  changes'[c].status # "none"
  BY <1>6 DEF FinishValidate, Change
<1>7. ASSUME NEW w \in Workers, RejectPublish(w) \/ CommitPublish(w)
      PROVE  changes'[c].status # "none"
  BY <1>7 DEF RejectPublish, CommitPublish, Change
<1> QED
  BY <1>1, <1>2, <1>3, <1>4, <1>5, <1>6, <1>7
  DEF Next, WorkerStep, BeginAdd, BeginValidate, RequestPublish, LoadRoutes,
      EvaluateNext, TakePublicationLock, ReturnSettled, LockChangeAndPages,
      FailPublish, Crash

\* Ending a request respects the locks.
LEMMA FinishLocking ==
    ASSUME Inductive, [Next]_vars, NEW w \in Workers, Finish(w)
    PROVE  Locking'
<1>1. \A u \in Workers : pc[u] # "idle" => job[u] \in Changes
  BY DEF Inductive, TypeOK, WorkersOK
<1> QED BY <1>1, FinishElse, ChangesStay DEF Inductive, TypeOK, Locking, Busy

LEMMA StepLocking ==
    ASSUME Inductive, [Next]_vars
    PROVE  Locking'
<1> USE DEF Inductive, TypeOK
<1>0. \A u \in Workers : pc[u] # "idle" =>
         /\ job[u] \in Changes
         /\ changes[job[u]].status # "none"
         /\ changes'[job[u]].status # "none"
  BY ChangesStay DEF WorkersOK, Locking
<1>1. CASE UNCHANGED <<pubLock, pc, job>>
  BY <1>0, <1>1 DEF Locking, Busy
<1>2. ASSUME NEW w \in Workers, Finish(w)
      PROVE  Locking'
  BY <1>2, FinishLocking
<1>3. ASSUME NEW w \in Workers, NEW c \in Changes, BeginAdd(w, c)
      PROVE  Locking'
  BY <1>0, <1>3 DEF BeginAdd, Mutable, Locking, WorkersOK, Busy
<1>4. ASSUME NEW w \in Workers, NEW c \in Changes, BeginValidate(w, c)
      PROVE  Locking'
  BY <1>0, <1>4
  DEF BeginValidate, Mutable, ChangeRowHeld, Locking, WorkersOK, Busy
<1>5. ASSUME NEW w \in Workers, NEW c \in Changes, RequestPublish(w, c)
      PROVE  Locking'
  BY <1>0, <1>5 DEF RequestPublish, Reach, Locking, WorkersOK, Busy
<1>6. ASSUME NEW w \in Workers, NEW c \in Changes, NEW i \in PageIds,
             NEW v \in versions[i], RollbackPage(w, c, i, v)
      PROVE  Locking'
  <2>1. changes'[c].status # "none"
    BY <1>6 DEF RollbackPage, NewChange, TablesOK
  <2> QED BY <1>0, <1>6, <2>1 DEF RollbackPage, Reach, Locking, WorkersOK, Busy
<1>7. ASSUME NEW w \in Workers, LoadRoutes(w)
      PROVE  Locking'
  BY <1>0, <1>7 DEF LoadRoutes, Locking, WorkersOK, Busy
<1>8. ASSUME NEW w \in Workers, TakePublicationLock(w)
      PROVE  Locking'
  BY <1>0, <1>8, PublicationAssumption
  DEF TakePublicationLock, Reach, Locking, WorkersOK, Busy
<1>9. ASSUME NEW w \in Workers, LockChangeAndPages(w)
      PROVE  Locking'
  BY <1>0, <1>9
  DEF LockChangeAndPages, ChangeRowHeld, Locking, WorkersOK, Busy
<1> QED
  BY <1>1, <1>2, <1>3, <1>4, <1>5, <1>6, <1>7, <1>8, <1>9
  DEF Next, WorkerStep, vars, CreateChange, AbandonChange, InsertOperation,
      EvaluateNext, FinishValidate, ReturnSettled, RejectPublish,
      FailPublish, CommitPublish, Crash

\* One publication runs at a time.
LEMMA OnePublisher ==
    ASSUME Inductive
    PROVE  \A w, u \in Workers :
              pc[w] \in {"locked", "publishing"} /\ pc[u] \in {"locked", "publishing"}
                => w = u
BY DEF Inductive, Locking

-----------------------------------------------------------------------------
(***************************************************************************)
(* The committed corpus and its history.                                   *)
(***************************************************************************)

\* Only CommitPublish writes pages, redirects, sections or history.
LEMMA OnlyCommitWrites ==
    ASSUME [Next]_vars
    PROVE  \/ UNCHANGED <<corpus, versions>>
           \/ \E w \in Workers : CommitPublish(w)
<1> DEFINE Same == UNCHANGED <<corpus, versions>>
<1>1. UNCHANGED vars => Same
  BY DEF vars
<1>2. ASSUME NEW c \in Changes
      PROVE  /\ \A base : CreateChange(c, base) => Same
             /\ AbandonChange(c) => Same
  BY DEF CreateChange, AbandonChange
<1>3. ASSUME NEW w \in Workers, NEW c \in Changes
      PROVE  /\ BeginAdd(w, c) => Same
             /\ BeginValidate(w, c) => Same
             /\ RequestPublish(w, c) => Same
             /\ \A i, v : RollbackPage(w, c, i, v) => Same
  BY DEF BeginAdd, BeginValidate, RequestPublish, RollbackPage
<1>4. ASSUME NEW w \in Workers
      PROVE  /\ \A o : InsertOperation(w, o) => Same
             /\ LoadRoutes(w) => Same
             /\ EvaluateNext(w) => Same
             /\ FinishValidate(w) => Same
             /\ TakePublicationLock(w) => Same
             /\ ReturnSettled(w) => Same
             /\ LockChangeAndPages(w) => Same
             /\ RejectPublish(w) => Same
             /\ FailPublish(w) => Same
             /\ Crash(w) => Same
  BY DEF InsertOperation, LoadRoutes, EvaluateNext, FinishValidate,
         TakePublicationLock, ReturnSettled, LockChangeAndPages,
         RejectPublish, FailPublish, Crash
<1> HIDE DEF Same
<1>5. Same \/ \E w \in Workers : CommitPublish(w)
  BY <1>1, <1>2, <1>3, <1>4 DEF Next, WorkerStep
<1> QED BY <1>5 DEF Same

\* What a commit writes, row by row: touched pages get their candidate row
\* at the next revision, the others stay.
LEMMA CommitRows ==
    ASSUME Inductive, NEW w \in Workers, CommitPublish(w)
    PROVE  LET r == Result(w) IN
           /\ r \in Evaluation
           /\ r.origin = corpus
           /\ CandidateKept(r)
           /\ r.created = ev[w].created /\ r.shadow = ev[w].shadow
           /\ r.ok = ev[w].ok
           /\ \A i \in r.created : corpus.pages[i] = AbsentPage
           /\ corpus'.redirects = r.cand.redirects
           /\ corpus'.sections = r.cand.sections
           /\ \A i \in PageIds :
                 corpus'.pages[i] =
                    IF i \in r.touched
                    THEN [r.cand.pages[i] EXCEPT !.revision =
                            IF i \in r.created THEN 1
                            ELSE corpus.pages[i].revision + 1]
                    ELSE corpus.pages[i]
<1> DEFINE r == Result(w)
<1> USE DEF Inductive, TypeOK
<1>1. /\ ev[w] \in Evaluation /\ ev[w].origin = corpus
      /\ CandidateKept(ev[w])
  BY DEF CommitPublish, WorkersOK, Busy, NoRevisionRace, EvaluationInv,
         WorkingCopy
<1>2. /\ r \in Evaluation /\ r.origin = corpus /\ CandidateKept(r)
      /\ r.created = ev[w].created /\ r.shadow = ev[w].shadow
      /\ r.ok = ev[w].ok
  BY <1>1, RepairType, RepairKeeps DEF Result
<1>3. corpus' = Written(r) /\ ~UniqueViolation(r)
  BY DEF CommitPublish
<1> HIDE DEF r
<1>4. \A i \in r.created : corpus.pages[i] = AbsentPage
  BY <1>2, <1>3, RowOrAbsent
  DEF UniqueViolation, Evaluation, CorpusState, Page
<1>5. /\ corpus'.redirects = r.cand.redirects
      /\ corpus'.sections = r.cand.sections
      /\ \A i \in PageIds :
            corpus'.pages[i] =
               IF i \in r.touched
               THEN [r.cand.pages[i] EXCEPT !.revision =
                       IF i \in r.created THEN 1
                       ELSE corpus.pages[i].revision + 1]
               ELSE corpus.pages[i]
  BY <1>2, <1>3 DEF Written, Evaluation, CorpusState
<1> QED BY <1>2, <1>4, <1>5 DEF r

LEMMA StepRace ==
    ASSUME Inductive, [Next]_vars
    PROVE  NoRevisionRace'
<1> USE DEF Inductive, TypeOK
<1> SUFFICES ASSUME NEW u \in Workers, pc'[u] = "publishing"
             PROVE  ev'[u].origin = corpus'
  BY DEF NoRevisionRace
<1>1. ASSUME NEW w \in Workers, CommitPublish(w)
      PROVE  FALSE
  <2>1. u # w /\ pc[u] = "publishing" /\ pc[w] = "publishing"
    BY <1>1, FinishElse DEF CommitPublish
  <2> QED BY <2>1, OnePublisher
<1>2. corpus' = corpus
  BY <1>1, OnlyCommitWrites
<1>3. CASE UNCHANGED <<pc, ev>>
  BY <1>2, <1>3 DEF NoRevisionRace
<1>4. ASSUME NEW w \in Workers, Finish(w)
      PROVE  ev'[u].origin = corpus'
  BY <1>2, <1>4, FinishElse DEF NoRevisionRace
<1>5. ASSUME NEW w \in Workers, NEW c \in Changes,
             \/ BeginAdd(w, c) \/ BeginValidate(w, c) \/ RequestPublish(w, c)
      PROVE  ev'[u].origin = corpus'
  BY <1>2, <1>5
  DEF BeginAdd, BeginValidate, RequestPublish, Reach, WorkersOK,
      NoRevisionRace
<1>6. ASSUME NEW w \in Workers, NEW c \in Changes, NEW i \in PageIds,
             NEW v \in versions[i], RollbackPage(w, c, i, v)
      PROVE  ev'[u].origin = corpus'
  BY <1>2, <1>6 DEF RollbackPage, Reach, WorkersOK, NoRevisionRace
<1>7. ASSUME NEW w \in Workers, LoadRoutes(w)
      PROVE  ev'[u].origin = corpus'
  BY <1>2, <1>7 DEF LoadRoutes, WorkersOK, NoRevisionRace
<1>8. ASSUME NEW w \in Workers, EvaluateNext(w)
      PROVE  ev'[u].origin = corpus'
  <2>1. CASE u = w
    <3> DEFINE o == changes[job[w]].ops[next[w]]
    <3>1. ev[w] \in Evaluation /\ ev[w].origin = corpus
      BY <1>8, <2>1 DEF EvaluateNext, WorkersOK, Busy, NoRevisionRace
    <3>2. ev'[w] = Evaluate(ev[w], o)
      BY <1>8 DEF EvaluateNext, WorkersOK
    <3>3. Evaluate(ev[w], o).origin = ev[w].origin
      BY <3>1, EvaluateOrigin
    <3> QED BY <1>2, <2>1, <3>1, <3>2, <3>3
  <2>2. CASE u # w
    BY <1>2, <1>8, <2>2 DEF EvaluateNext, WorkersOK, NoRevisionRace
  <2> QED BY <2>1, <2>2
<1>9. ASSUME NEW w \in Workers, TakePublicationLock(w)
      PROVE  ev'[u].origin = corpus'
  BY <1>2, <1>9 DEF TakePublicationLock, Reach, WorkersOK, NoRevisionRace
<1>10. ASSUME NEW w \in Workers, LockChangeAndPages(w)
       PROVE  ev'[u].origin = corpus'
  BY <1>2, <1>10
  DEF LockChangeAndPages, StartEvaluation, WorkersOK, NoRevisionRace
<1> QED
  BY <1>3, <1>4, <1>5, <1>6, <1>7, <1>8, <1>9, <1>10
  DEF Next, WorkerStep, vars, CreateChange, AbandonChange, InsertOperation,
      FinishValidate, ReturnSettled, RejectPublish, FailPublish,
      CommitPublish, Crash

\* Committed rows keep being numbered from one.
LEMMA StepNumbered ==
    ASSUME Inductive, [Next]_vars
    PROVE  Numbered'
<1> USE DEF Inductive, TypeOK
<1>1. CASE UNCHANGED corpus
  BY <1>1 DEF Numbered, Existing
<1>2. ASSUME NEW w \in Workers, CommitPublish(w)
      PROVE  Numbered'
  <2> SUFFICES ASSUME NEW i \in Existing(corpus'.pages)
               PROVE  corpus'.pages[i].revision > 0
    BY DEF Numbered
  <2>1. i \in PageIds /\ corpus'.pages[i].status # "absent"
    BY DEF Existing
  <2>2. corpus.pages[i] \in Page /\ corpus.pages[i].revision \in Nat
    BY <2>1, RowOrAbsent DEF TablesOK, CorpusState
  <2> DEFINE r == Result(w)
  <2>3. CASE i \in r.touched
    <3>1. r.cand.pages[i] \in Page
      BY <1>2, <2>1, CommitRows DEF Evaluation, CorpusState
    <3>2. corpus'.pages[i].revision =
            IF i \in r.created THEN 1 ELSE corpus.pages[i].revision + 1
      BY <1>2, <2>1, <2>3, <3>1, CommitRows DEF Page, Row, AbsentPage
    <3> QED BY <2>2, <3>2
  <2>4. CASE i \notin r.touched
    BY <1>2, <2>1, <2>4, CommitRows DEF Numbered, Existing
  <2> QED BY <2>3, <2>4
<1> QED BY <1>1, <1>2, OnlyCommitWrites

\* A snapshot is taken exactly of the revisions that are overwritten.
LEMMA StepHistory ==
    ASSUME Inductive, [Next]_vars
    PROVE  HistoryComplete'
<1> USE DEF Inductive, TypeOK
<1>1. CASE UNCHANGED <<corpus, versions>>
  BY <1>1 DEF HistoryComplete
<1>2. ASSUME NEW w \in Workers, CommitPublish(w)
      PROVE  HistoryComplete'
  <2> SUFFICES ASSUME NEW i \in PageIds
               PROVE  /\ {v.revision : v \in versions'[i]}
                            = 1..(corpus'.pages[i].revision - 1)
                      /\ \A u, v \in versions'[i] :
                            u.revision = v.revision => u = v
    BY DEF HistoryComplete
  <2> DEFINE r == Result(w)
             old == corpus.pages[i]
             new == corpus'.pages[i]
  <2>1. /\ old \in Page /\ old.revision \in Nat /\ r.cand.pages[i] \in Page
        /\ r.origin = corpus
    BY <1>2, CommitRows, RowOrAbsent
    DEF TablesOK, Evaluation, CorpusState
  <2>2. /\ {v.revision : v \in versions[i]} = 1..(old.revision - 1)
        /\ \A u, v \in versions[i] : u.revision = v.revision => u = v
    BY DEF HistoryComplete
  <2>3. CASE i \notin r.touched
    <3>1. new = old /\ versions'[i] = versions[i]
      BY <1>2, <2>3, CommitRows DEF CommitPublish, TablesOK
    <3> QED BY <2>2, <3>1
  <2>4. CASE i \in r.created
    <3>1. i \in r.touched /\ old = AbsentPage
      BY <1>2, <2>4, CommitRows DEF CandidateKept
    <3>2. new.revision = 1
      BY <1>2, <2>1, <2>4, <3>1, CommitRows DEF Page, Row, AbsentPage
    <3>3. versions'[i] = versions[i]
      BY <1>2, <2>4 DEF CommitPublish
    <3>4. versions[i] = {}
      BY <2>2, <3>1 DEF AbsentPage
    <3> QED BY <3>2, <3>3, <3>4
  <2>5. CASE i \in r.touched \ r.created
    <3>1. new.revision = old.revision + 1
      BY <1>2, <2>1, <2>5, CommitRows DEF Page, Row, AbsentPage
    <3>2. old.status # "absent"
      BY <1>2, <2>1, <2>5, CommitRows DEF CandidateKept
    <3>3. old.revision > 0
      BY <3>2 DEF Numbered, Existing
    <3>4. \A v \in versions[i] : v.revision \in 1..(old.revision - 1)
      BY <2>2
    <3>5. versions'[i] = versions[i] \cup {old}
      <4>1. versions'[i] = Snapshot(i, old)
        BY <1>2, <2>1, <2>5 DEF CommitPublish
      <4> QED BY <2>1, <3>3, <3>4, <4>1 DEF Snapshot
    <3>6. {v.revision : v \in versions'[i]}
             = 1..(old.revision - 1) \cup {old.revision}
      BY <2>2, <3>5
    <3>7. 1..(new.revision - 1) = 1..(old.revision - 1) \cup {old.revision}
      BY <2>1, <3>1, <3>3
    <3>8. \A u, v \in versions'[i] : u.revision = v.revision => u = v
      BY <2>1, <2>2, <3>3, <3>4, <3>5
    <3> QED BY <3>6, <3>7, <3>8
  <2> QED BY <2>3, <2>4, <2>5
<1> QED BY <1>1, <1>2, OnlyCommitWrites

-----------------------------------------------------------------------------
(***************************************************************************)
(* Operations and the working copies that evaluate them.                   *)
(***************************************************************************)

\* Evaluating one more operation keeps a working copy's relation to its
\* origin and to the operations evaluated so far.
LEMMA EvaluateKeeps ==
    ASSUME NEW e \in Evaluation, NEW ops \in Seq(Ops),
           NEW n \in 1..Len(ops), WorkingCopy(e, ops, n)
    PROVE  WorkingCopy(Evaluate(e, ops[n]), ops, n + 1)
<1> DEFINE o == ops[n]
           f == Evaluate(e, o)
<1>1. o \in Ops
  OBVIOUS
<1>2. Len(ops) \in Nat /\ n \in Nat
  OBVIOUS
<1>3. CASE /\ f.origin = e.origin /\ f.cand.pages = e.cand.pages
           /\ f.touched = e.touched /\ f.created = e.created
           /\ f.shadow = e.shadow
  <2>1. CandidateKept(f)
    BY <1>3 DEF WorkingCopy, CandidateKept
  <2> HIDE DEF f
  <2>2. WorkingCopy(f, ops, n + 1)
    BY <1>2, <1>3, <2>1 DEF WorkingCopy
  <2> QED BY <2>2 DEF f
<1>4. CASE Accepts(e, o) /\ o.type \in PageOpTypes
  <2>1. o \in PageOps /\ o.page \in PageIds
    BY <1>1, <1>4, OpKinds DEF PageOps
  <2>2. e.cand.pages[o.page].status # "absent"
    BY <1>4 DEF Accepts, Current
  <2>3. e.cand.pages[o.page] \in Row
    BY <2>1, <2>2, RowOrAbsent DEF Evaluation, CorpusState
  <2>4. /\ f.origin = e.origin /\ f.created = e.created
        /\ f.shadow = e.shadow /\ f.touched = e.touched \cup {o.page}
        /\ f.cand.pages = [e.cand.pages EXCEPT ![o.page] =
                             Edited(e.cand.pages[o.page], o)]
    BY <1>4 DEF Evaluate, ApplyPageOp, Evaluation, CorpusState
  <2>5. LET q == Edited(e.cand.pages[o.page], o) IN
          q.status # "absent" /\ q.revision = e.cand.pages[o.page].revision
    <3>1. Edited(e.cand.pages[o.page], o) \in Row
      BY <2>1, <2>3, EditedType
    <3>2. Edited(e.cand.pages[o.page], o).revision
             = e.cand.pages[o.page].revision
      BY <2>3 DEF Edited, Row
    <3> QED BY <3>1, <3>2 DEF Row
  <2> HIDE DEF f
  <2>6. CandidateKept(f)
    <3>1. CandidateKept(e) /\ DOMAIN e.cand.pages = PageIds
      BY DEF WorkingCopy, Evaluation, CorpusState
    <3>2. o.page \notin e.created => e.origin.pages[o.page].status # "absent"
      BY <2>1, <2>2, <3>1 DEF CandidateKept
    <3>3. \A i \in PageIds :
            /\ i \notin f.touched => f.cand.pages[i] = f.origin.pages[i]
            /\ i \in f.touched => f.cand.pages[i].status # "absent"
            /\ i \in f.touched \ f.created =>
                  f.origin.pages[i].status # "absent"
            /\ i \notin f.created =>
                  f.cand.pages[i].revision = f.origin.pages[i].revision
      <4> TAKE i \in PageIds
      <4>1. CASE i = o.page
        <5>1. /\ f.cand.pages[i].status # "absent"
              /\ f.cand.pages[i].revision = e.cand.pages[i].revision
          BY <2>4, <2>5, <3>1, <4>1
        <5>2. i \in f.touched /\ f.created = e.created /\ f.origin = e.origin
          BY <2>4, <4>1
        <5>3. i \notin e.created =>
                 e.cand.pages[i].revision = e.origin.pages[i].revision
          BY <3>1 DEF CandidateKept
        <5> QED BY <3>2, <4>1, <5>1, <5>2, <5>3
      <4>2. CASE i # o.page
        BY <2>4, <3>1, <4>2 DEF CandidateKept
      <4> QED BY <4>1, <4>2
    <3>4. f.created \subseteq f.touched
      BY <2>4, <3>1 DEF CandidateKept
    <3> QED BY <3>3, <3>4 DEF CandidateKept
  <2>7. WorkingCopy(f, ops, n + 1)
    BY <1>2, <2>4, <2>6 DEF WorkingCopy
  <2> QED BY <2>7 DEF f
<1>5. CASE Accepts(e, o) /\ o.type = "CREATE_PAGE"
  <2>1. o \in CreateOps /\ o.id \in PageIds
    BY <1>1, <1>5, OpKinds DEF CreateOps
  <2> DEFINE row == [path |-> o.path, nav |-> o.nav, body |-> o.body,
                     links |-> o.links, revision |-> 0, status |-> "active"]
             entry == [id |-> o.id, page |-> e.cand.pages[o.id]]
  <2>2. /\ f.origin = e.origin /\ f.created = e.created \cup {o.id}
        /\ f.touched = e.touched \cup {o.id}
        /\ f.cand.pages = [e.cand.pages EXCEPT ![o.id] = row]
        /\ f.shadow = IF e.cand.pages[o.id].status = "absent" THEN e.shadow
                      ELSE e.shadow \cup {entry}
    BY <1>5 DEF Evaluate, ApplyCreate, PageOpTypes, Evaluation, CorpusState
  <2>3. row.status # "absent"
    OBVIOUS
  <2> HIDE DEF f, row
  <2>4. CandidateKept(f)
    <3>1. CandidateKept(e) /\ DOMAIN e.cand.pages = PageIds
      BY DEF WorkingCopy, Evaluation, CorpusState
    <3>2. /\ f.cand.pages[o.id] = row
          /\ \A i \in PageIds \ {o.id} : f.cand.pages[i] = e.cand.pages[i]
      BY <2>1, <2>2, <3>1
    <3>3. \A i \in PageIds :
            /\ i \notin f.touched => f.cand.pages[i] = f.origin.pages[i]
            /\ i \in f.touched => f.cand.pages[i].status # "absent"
            /\ i \in f.touched \ f.created =>
                  f.origin.pages[i].status # "absent"
            /\ i \notin f.created =>
                  f.cand.pages[i].revision = f.origin.pages[i].revision
      <4> TAKE i \in PageIds
      <4>1. CASE i = o.id
        BY <2>2, <2>3, <3>2, <4>1
      <4>2. CASE i # o.id
        BY <2>2, <3>1, <3>2, <4>2 DEF CandidateKept
      <4> QED BY <4>1, <4>2
    <3>4. f.created \subseteq f.touched
      BY <2>2, <3>1 DEF CandidateKept
    <3> QED BY <3>3, <3>4 DEF CandidateKept
  <2>5. Creates(ops[n], o.id)
    BY <1>5 DEF Creates
  <2>6. \A i \in f.created :
           \E k \in 1..Len(ops) : k < n + 1 /\ Creates(ops[k], i)
    BY SMTT(30), <1>2, <2>2, <2>5 DEF WorkingCopy
  <2>7. e.cand.pages[o.id].status # "absent" =>
           \/ e.origin.pages[o.id].status # "absent"
           \/ \E k \in 1..Len(ops) : k # n /\ Creates(ops[k], o.id)
    <3>1. CASE o.id \in e.created
      BY <1>2, <3>1 DEF WorkingCopy
    <3>2. CASE o.id \notin e.created
      BY <2>1, <3>2 DEF WorkingCopy, CandidateKept
    <3> QED BY <3>1, <3>2
  <2>8. \A s \in f.shadow :
           /\ s.id \in f.created
           /\ \/ f.origin.pages[s.id].status # "absent"
              \/ \E k, l \in 1..Len(ops) :
                    k # l /\ Creates(ops[k], s.id) /\ Creates(ops[l], s.id)
    BY <2>2, <2>5, <2>7 DEF WorkingCopy
  <2>9. WorkingCopy(f, ops, n + 1)
    BY <2>4, <2>6, <2>8 DEF WorkingCopy
  <2> QED BY <2>9 DEF f
<1>6. CASE ~Accepts(e, o)
  BY <1>3, <1>6 DEF Evaluate, Evaluation
<1>7. CASE Accepts(e, o) /\ o.type \in RouteOpTypes
  BY <1>3, <1>7
  DEF Evaluate, ApplyRouteOp, RouteOpTypes, PageOpTypes, Evaluation,
      CorpusState
<1> QED BY <1>1, <1>4, <1>5, <1>6, <1>7, OpKinds DEF AllOpTypes

\* Only the worker that holds a change's row changes it, and only as it
\* ends its transaction.
LEMMA HeldChangeStays ==
    ASSUME Inductive, [Next]_vars, NEW u \in Workers, Busy(u), ~Finish(u)
    PROVE  changes'[job[u]] = changes[job[u]]
<1> DEFINE c == job[u]
           Goal == changes'[c] = changes[c]
<1> USE DEF Inductive, TypeOK, TablesOK
<1>0. c \in Changes /\ changes[c].status # "none" /\ ChangeRowHeld(c)
  BY DEF WorkersOK, Locking, ChangeRowHeld, Busy
<1> HIDE DEF c
<1>1. UNCHANGED changes => Goal
  OBVIOUS
<1>2. ASSUME NEW d \in Changes, NEW base, CreateChange(d, base)
      PROVE  Goal
  BY <1>0, <1>2 DEF CreateChange
<1>3. ASSUME NEW d \in Changes, AbandonChange(d)
      PROVE  Goal
  BY <1>0, <1>3 DEF AbandonChange
<1>4. ASSUME NEW w \in Workers, NEW d \in Changes, NEW i \in PageIds,
             NEW v \in versions[i], RollbackPage(w, d, i, v)
      PROVE  Goal
  BY <1>0, <1>4 DEF RollbackPage
<1>5. ASSUME NEW w \in Workers, NEW o, InsertOperation(w, o)
      PROVE  Goal
  BY <1>0, <1>5 DEF InsertOperation
<1>6. ASSUME NEW w \in Workers,
             FinishValidate(w) \/ RejectPublish(w) \/ CommitPublish(w)
      PROVE  Goal
  <2>1. Busy(w) /\ Finish(w)
    BY <1>6 DEF FinishValidate, RejectPublish, CommitPublish, Busy
  <2>2. job[w] # c
    BY <2>1 DEF Locking, c
  <2>3. PICK status, summary :
           changes' = [changes EXCEPT ![job[w]].status = status,
                                      ![job[w]].summary = summary]
    BY <1>6 DEF FinishValidate, RejectPublish, CommitPublish
  <2> QED BY <1>0, <2>2, <2>3
<1> HIDE DEF Goal
<1> QED
  BY <1>1, <1>2, <1>3, <1>4, <1>5, <1>6
  DEF Next, WorkerStep, vars, BeginAdd, BeginValidate, RequestPublish,
      LoadRoutes, EvaluateNext, TakePublicationLock, ReturnSettled,
      LockChangeAndPages, FailPublish, Crash, Goal, c

LEMMA StepEvaluation ==
    ASSUME Inductive, [Next]_vars
    PROVE  EvaluationInv'
<1> USE DEF Inductive, TypeOK
<1>0. \A c \in CorpusState : \A base, ops, n :
         WorkingCopy(StartEvaluation(c, base), ops, n)
  BY DEF WorkingCopy, CandidateKept, StartEvaluation
<1> SUFFICES ASSUME NEW u \in Workers, Busy(u)'
             PROVE  WorkingCopy(ev'[u], changes'[job'[u]].ops, next'[u])
  BY DEF EvaluationInv
<1>1. ASSUME Busy(u), job'[u] = job[u], ev'[u] = ev[u], next'[u] = next[u]
      PROVE  WorkingCopy(ev'[u], changes'[job'[u]].ops, next'[u])
  <2>1. ~Finish(u)
    BY FinishElse DEF Busy
  <2>2. changes'[job[u]] = changes[job[u]]
    BY <1>1, <2>1, HeldChangeStays
  <2> QED BY <1>1, <2>2 DEF EvaluationInv
<1>2. ASSUME NEW w \in Workers, Finish(w)
      PROVE  u # w /\ Busy(u) /\ job'[u] = job[u]
             /\ ev'[u] = ev[u] /\ next'[u] = next[u]
  BY <1>2, FinishElse DEF Busy
<1>3. CASE UNCHANGED <<pc, job, ev, next>>
  BY <1>1, <1>3 DEF Busy
<1>4. ASSUME NEW w \in Workers, NEW c \in Changes,
             BeginAdd(w, c) \/ RequestPublish(w, c)
      PROVE  Busy(u) /\ job'[u] = job[u] /\ ev'[u] = ev[u] /\ next'[u] = next[u]
  BY <1>4 DEF BeginAdd, RequestPublish, Reach, WorkersOK, Busy
<1>5. ASSUME NEW w \in Workers, NEW c \in Changes, NEW i \in PageIds,
             NEW v \in versions[i], RollbackPage(w, c, i, v)
      PROVE  Busy(u) /\ job'[u] = job[u] /\ ev'[u] = ev[u] /\ next'[u] = next[u]
  BY <1>5 DEF RollbackPage, Reach, WorkersOK, Busy
<1>6. ASSUME NEW w \in Workers, TakePublicationLock(w)
      PROVE  Busy(u) /\ job'[u] = job[u] /\ ev'[u] = ev[u] /\ next'[u] = next[u]
  BY <1>6 DEF TakePublicationLock, Reach, WorkersOK, Busy
<1>7. ASSUME NEW w \in Workers, NEW c \in Changes, BeginValidate(w, c)
      PROVE  WorkingCopy(ev'[u], changes'[job'[u]].ops, next'[u])
  <2>1. CASE u = w
    BY <1>0, <1>7, <2>1 DEF BeginValidate, WorkersOK, TablesOK
  <2>2. CASE u # w
    BY <1>1, <1>7, <2>2 DEF BeginValidate, WorkersOK, Busy
  <2> QED BY <2>1, <2>2
<1>8. ASSUME NEW w \in Workers, LoadRoutes(w)
      PROVE  WorkingCopy(ev'[u], changes'[job'[u]].ops, next'[u])
  <2>1. CASE u = w
    <3> DEFINE torn == [corpus EXCEPT !.pages = ev[w].origin.pages]
    <3>1. torn \in CorpusState
      BY <1>8 DEF LoadRoutes, Busy, TablesOK, WorkersOK, Evaluation,
                  CorpusState
    <3>2. ev'[u] = StartEvaluation(torn, changes[job[w]].base)
      BY <1>8, <2>1 DEF LoadRoutes, WorkersOK
    <3> HIDE DEF torn
    <3> QED BY <1>0, <3>1, <3>2
  <2>2. CASE u # w
    BY <1>1, <1>8, <2>2 DEF LoadRoutes, WorkersOK, Busy
  <2> QED BY <2>1, <2>2
<1>9. ASSUME NEW w \in Workers, LockChangeAndPages(w)
      PROVE  WorkingCopy(ev'[u], changes'[job'[u]].ops, next'[u])
  <2>1. CASE u = w
    BY <1>0, <1>9, <2>1 DEF LockChangeAndPages, WorkersOK, TablesOK
  <2>2. CASE u # w
    BY <1>1, <1>9, <2>2 DEF LockChangeAndPages, WorkersOK, Busy
  <2> QED BY <2>1, <2>2
<1>10. ASSUME NEW w \in Workers, EvaluateNext(w)
       PROVE  WorkingCopy(ev'[u], changes'[job'[u]].ops, next'[u])
  <2>1. CASE u = w
    <3> DEFINE ops == changes[job[w]].ops
    <3>1. /\ ev[w] \in Evaluation /\ ops \in Seq(Ops)
          /\ next[w] \in 1..Len(ops) /\ Busy(w)
      BY <1>10 DEF EvaluateNext, WorkersOK, Busy, TablesOK, Change
    <3>2. WorkingCopy(ev[w], ops, next[w])
      BY <3>1 DEF EvaluationInv
    <3>3. /\ ev'[w] = Evaluate(ev[w], ops[next[w]])
          /\ next'[w] = next[w] + 1
          /\ changes'[job'[w]].ops = ops
      BY <1>10 DEF EvaluateNext, WorkersOK
    <3> HIDE DEF ops
    <3> QED BY <2>1, <3>1, <3>2, <3>3, EvaluateKeeps
  <2>2. CASE u # w
    BY <1>1, <1>10, <2>2 DEF EvaluateNext, WorkersOK, Busy
  <2> QED BY <2>1, <2>2
<1> QED
  BY <1>1, <1>2, <1>3, <1>4, <1>5, <1>6, <1>7, <1>8, <1>9, <1>10
  DEF Next, WorkerStep, vars, CreateChange, AbandonChange, InsertOperation,
      FinishValidate, ReturnSettled, RejectPublish, FailPublish,
      CommitPublish, Crash

-----------------------------------------------------------------------------
(***************************************************************************)
(* Ids drawn by the server, and the soundness of the committed corpus.     *)
(***************************************************************************)

\* How a step changes the operations of changes: not at all, by opening one
\* change that creates no page, or by appending one submitted operation.
LEMMA HowOpsGrow ==
    ASSUME Inductive, [Next]_vars
    PROVE  \/ \A d \in Changes : changes'[d].ops = changes[d].ops
           \/ \E c \in Changes :
                 /\ \A k \in 1..Len(changes'[c].ops) :
                       changes'[c].ops[k].type # "CREATE_PAGE"
                 /\ \A d \in Changes \ {c} : changes'[d].ops = changes[d].ops
           \/ \E c \in Changes, o \in Submitted :
                 /\ changes'[c].ops = Append(changes[c].ops, o)
                 /\ \A d \in Changes \ {c} : changes'[d].ops = changes[d].ops
<1> DEFINE Same == \A d \in Changes : changes'[d].ops = changes[d].ops
           Opens == \E c \in Changes :
                      /\ \A k \in 1..Len(changes'[c].ops) :
                            changes'[c].ops[k].type # "CREATE_PAGE"
                      /\ \A d \in Changes \ {c} :
                            changes'[d].ops = changes[d].ops
           Appends == \E c \in Changes, o \in Submitted :
                        /\ changes'[c].ops = Append(changes[c].ops, o)
                        /\ \A d \in Changes \ {c} :
                              changes'[d].ops = changes[d].ops
<1> USE DEF Inductive, TypeOK, TablesOK
<1>1. UNCHANGED changes => Same
  OBVIOUS
<1>2. ASSUME NEW c \in Changes, NEW base, CreateChange(c, base)
      PROVE  Opens
  <2>1. /\ changes'[c].ops = <<>>
        /\ \A d \in Changes \ {c} : changes'[d].ops = changes[d].ops
    BY <1>2 DEF CreateChange, NewChange
  <2> QED BY <2>1
<1>3. ASSUME NEW c \in Changes, AbandonChange(c)
      PROVE  Same
  BY <1>3 DEF AbandonChange, Change
<1>4. ASSUME NEW w \in Workers, NEW c \in Changes, NEW i \in PageIds,
             NEW v \in versions[i], RollbackPage(w, c, i, v)
      PROVE  Opens
  <2> DEFINE o == [type |-> "REPLACE_DOCUMENT", page |-> i,
                   rev |-> corpus.pages[i].revision, body |-> v.body,
                   links |-> v.links, nav |-> v.nav]
  <2>1. /\ changes'[c].ops = <<o>>
        /\ \A d \in Changes \ {c} : changes'[d].ops = changes[d].ops
    BY <1>4 DEF RollbackPage, NewChange
  <2> QED BY <2>1
<1>5. ASSUME NEW w \in Workers, NEW o \in Submitted, InsertOperation(w, o)
      PROVE  Same \/ Appends
  <2> DEFINE c == job[w]
  <2>1. c \in Changes
    BY <1>5 DEF InsertOperation, WorkersOK
  <2>2. CASE changes' = changes
    BY <2>2
  <2>3. CASE changes' # changes
    <3>1. changes' = [changes EXCEPT ![c].status = "DRAFT",
                                     ![c].ops = Append(@, o),
                                     ![c].summary = None]
      BY <1>5, <2>3 DEF InsertOperation
    <3>2. /\ changes'[c].ops = Append(changes[c].ops, o)
          /\ \A d \in Changes \ {c} : changes'[d].ops = changes[d].ops
      BY <2>1, <3>1 DEF Change
    <3> QED BY <2>1, <3>2
  <2> QED BY <2>2, <2>3
<1>6. ASSUME NEW w \in Workers,
             FinishValidate(w) \/ RejectPublish(w) \/ CommitPublish(w)
      PROVE  Same
  <2>1. PICK status, summary :
           changes' = [changes EXCEPT ![job[w]].status = status,
                                      ![job[w]].summary = summary]
    BY <1>6 DEF FinishValidate, RejectPublish, CommitPublish
  <2> QED BY <2>1 DEF Change
<1> HIDE DEF Same, Opens, Appends
<1>7. Same \/ Opens \/ Appends
  BY <1>1, <1>2, <1>3, <1>4, <1>5, <1>6
  DEF Next, WorkerStep, vars, BeginAdd, BeginValidate, RequestPublish,
      LoadRoutes, EvaluateNext, TakePublicationLock, ReturnSettled,
      LockChangeAndPages, FailPublish, Crash
<1> QED BY <1>7 DEF Same, Opens, Appends

LEMMA StepOneCreate ==
    ASSUME Inductive, [Next]_vars
    PROVE  OneCreatePerId'
<1> USE DEF Inductive, TypeOK, TablesOK
<1> SUFFICES ASSUME ~ClientIds,
                    NEW c \in Changes, NEW d \in Changes,
                    NEW k \in 1..Len(changes'[c].ops),
                    NEW l \in 1..Len(changes'[d].ops),
                    changes'[c].ops[k].type = "CREATE_PAGE",
                    changes'[d].ops[l].type = "CREATE_PAGE",
                    changes'[c].ops[k].id = changes'[d].ops[l].id
             PROVE  c = d /\ k = l
  BY DEF OneCreatePerId
<1>1. CASE \A b \in Changes : changes'[b].ops = changes[b].ops
  BY SMTT(30), <1>1 DEF OneCreatePerId
<1>2. CASE \E b \in Changes :
              /\ \A m \in 1..Len(changes'[b].ops) :
                    changes'[b].ops[m].type # "CREATE_PAGE"
              /\ \A e \in Changes \ {b} : changes'[e].ops = changes[e].ops
  BY SMTT(40), <1>2 DEF OneCreatePerId
<1>3. ASSUME NEW b \in Changes, NEW o \in Submitted,
             changes'[b].ops = Append(changes[b].ops, o),
             \A e \in Changes \ {b} : changes'[e].ops = changes[e].ops
      PROVE  c = d /\ k = l
  <2> DEFINE n == Len(changes[b].ops)
             Fresh == \A e \in Changes : \A m \in 1..Len(changes[e].ops) :
                        changes[e].ops[m].type = "CREATE_PAGE"
                          => changes[e].ops[m].id # o.id
  <2>1. \A e \in Changes : changes[e].ops \in Seq(Ops)
    BY DEF Change
  <2>2. /\ changes'[b].ops[n + 1] = o
        /\ Len(changes'[b].ops) = n + 1
        /\ \A m \in 1..n : changes'[b].ops[m] = changes[b].ops[m]
    BY <1>3, <2>1
  <2>3. o.type = "CREATE_PAGE" => Fresh
    <3> SUFFICES ASSUME o.type = "CREATE_PAGE" PROVE Fresh
      OBVIOUS
    <3>1. o.id \in PageIds /\ IdOffered(o.id)
      BY DEF Submitted
    <3>2. o.id \notin CreatedIds
      BY <3>1 DEF IdOffered
    <3> QED BY <3>1, <3>2 DEF CreatedIds, Creates
  <2>4. CASE c = b /\ k = n + 1 /\ d = b /\ l = n + 1
    BY <2>4
  <2>5. CASE c = b /\ k = n + 1 /\ ~(d = b /\ l = n + 1)
    <3>1. changes'[d].ops[l] = changes[d].ops[l] /\ l \in 1..Len(changes[d].ops)
      BY <1>3, <2>1, <2>2, <2>5
    <3> QED BY <2>2, <2>3, <2>5, <3>1
  <2>6. CASE d = b /\ l = n + 1 /\ ~(c = b /\ k = n + 1)
    <3>1. changes'[c].ops[k] = changes[c].ops[k] /\ k \in 1..Len(changes[c].ops)
      BY <1>3, <2>1, <2>2, <2>6
    <3> QED BY <2>2, <2>3, <2>6, <3>1
  <2>7. CASE ~(c = b /\ k = n + 1) /\ ~(d = b /\ l = n + 1)
    <3>1. /\ changes'[c].ops[k] = changes[c].ops[k]
          /\ k \in 1..Len(changes[c].ops)
      BY <1>3, <2>1, <2>2, <2>7
    <3>2. /\ changes'[d].ops[l] = changes[d].ops[l]
          /\ l \in 1..Len(changes[d].ops)
      BY <1>3, <2>1, <2>2, <2>7
    <3> QED BY <3>1, <3>2 DEF OneCreatePerId
  <2> QED BY <2>4, <2>5, <2>6, <2>7
<1> QED BY <1>1, <1>2, <1>3, HowOpsGrow

-----------------------------------------------------------------------------
(***************************************************************************)
(* What a publication has checked.                                         *)
(***************************************************************************)

\* Evaluating one more operation keeps what has been checked.
LEMMA EvaluateChecks ==
    ASSUME NEW e \in Evaluation, NEW change \in Change,
           NEW n \in 1..Len(change.ops), Checked(e, change, n),
           WorkingCopy(e, change.ops, n)
    PROVE  Checked(Evaluate(e, change.ops[n]), change, n + 1)
<1> DEFINE ops == change.ops
           o == ops[n]
           f == Evaluate(e, o)
<1>0. /\ o \in Ops /\ Len(ops) \in Nat /\ n \in Nat
      /\ \A k \in 1..Len(ops) : k < n + 1 => k < n \/ k = n
  BY DEF Change
<1>1. CASE ~Accepts(e, o)
  <2>1. /\ ~f.ok /\ f.origin = e.origin /\ f.touched = e.touched
        /\ f.created = e.created
    BY <1>1 DEF Evaluate, Evaluation
  <2> QED BY <2>1 DEF Checked
<1>2. CASE Accepts(e, o) /\ o.type \in PageOpTypes
  <2>1. o \in PageOps /\ o.page \in PageIds
    BY <1>0, <1>2, OpKinds DEF PageOps
  <2>2. /\ f.origin = e.origin /\ f.created = e.created
        /\ f.touched = e.touched \cup {o.page} /\ f.ok = e.ok
    BY <1>2 DEF Evaluate, ApplyPageOp, Evaluation
  <2>3. o.page \in e.created \/ o.rev = e.origin.pages[o.page].revision
    BY <1>2, <2>1 DEF Accepts, Current, WorkingCopy, CandidateKept
  <2> HIDE DEF f
  <2>4. Checked(f, change, n + 1)
    BY <1>0, <1>2, <2>2, <2>3 DEF Checked
  <2> QED BY <2>4 DEF f
<1>3. CASE /\ Accepts(e, o) /\ o.type \notin PageOpTypes
           /\ f.origin = e.origin /\ f.ok = e.ok
           /\ f.touched = e.touched /\ f.created = e.created
  <2> HIDE DEF f
  <2>1. Checked(f, change, n + 1)
    BY <1>0, <1>3 DEF Checked
  <2> QED BY <2>1 DEF f
<1>4. CASE Accepts(e, o) /\ o.type = "CREATE_PAGE"
  <2>1. /\ f.origin = e.origin /\ f.created = e.created \cup {o.id}
        /\ f.touched = e.touched \cup {o.id} /\ f.ok = e.ok
    BY <1>4 DEF Evaluate, ApplyCreate, PageOpTypes, Evaluation
  <2> HIDE DEF f
  <2>2. Checked(f, change, n + 1)
    BY <1>0, <1>4, <2>1 DEF Checked, PageOpTypes
  <2> QED BY <2>2 DEF f
<1>5. CASE Accepts(e, o) /\ o.type \in RouteOpTypes
  BY <1>3, <1>5
  DEF Evaluate, ApplyRouteOp, RouteOpTypes, PageOpTypes, Evaluation
<1> QED BY <1>0, <1>1, <1>2, <1>4, <1>5, OpKinds DEF AllOpTypes

\* How a worker comes to its place in a publication: it stays there, starts
\* its evaluation under the locks, or evaluates one operation.  Its change
\* does not move meanwhile.
LEMMA PublishingSteps ==
    ASSUME Inductive, [Next]_vars, NEW u \in Workers, pc'[u] = "publishing"
    PROVE  LET change == changes[job[u]] IN
           /\ job[u] \in Changes /\ change \in Change
           /\ job'[u] = job[u] /\ changes'[job[u]] = change
           /\ \/ /\ pc[u] = "publishing"
                 /\ ev'[u] = ev[u] /\ next'[u] = next[u]
              \/ /\ Mutable(job[u])
                 /\ ev'[u] = StartEvaluation(corpus, change.base)
                 /\ next'[u] = 1
              \/ /\ pc[u] = "publishing"
                 /\ next[u] \in 1..Len(change.ops)
                 /\ ev'[u] = Evaluate(ev[u], change.ops[next[u]])
                 /\ next'[u] = next[u] + 1
<1> USE DEF Inductive, TypeOK
<1> DEFINE change == changes[job[u]]
           Stays == /\ pc[u] = "publishing" /\ job'[u] = job[u]
                    /\ ev'[u] = ev[u] /\ next'[u] = next[u]
           Starts == LockChangeAndPages(u)
           Goes == EvaluateNext(u) /\ pc[u] = "publishing"
<1>1. ASSUME NEW w \in Workers, Finish(w)
      PROVE  Stays
  BY <1>1, FinishElse
<1>2. ASSUME NEW w \in Workers, NEW c \in Changes,
             BeginAdd(w, c) \/ BeginValidate(w, c) \/ RequestPublish(w, c)
      PROVE  Stays
  BY <1>2 DEF BeginAdd, BeginValidate, RequestPublish, Reach, WorkersOK
<1>3. ASSUME NEW w \in Workers, NEW c \in Changes, NEW i \in PageIds,
             NEW v \in versions[i], RollbackPage(w, c, i, v)
      PROVE  Stays
  BY <1>3 DEF RollbackPage, Reach, WorkersOK
<1>4. ASSUME NEW w \in Workers, TakePublicationLock(w) \/ LoadRoutes(w)
      PROVE  Stays
  BY <1>4 DEF TakePublicationLock, LoadRoutes, Reach, WorkersOK
<1>5. ASSUME NEW w \in Workers, LockChangeAndPages(w)
      PROVE  Stays \/ Starts
  BY <1>5 DEF LockChangeAndPages, WorkersOK
<1>6. ASSUME NEW w \in Workers, EvaluateNext(w)
      PROVE  Stays \/ Goes
  BY <1>6 DEF EvaluateNext, WorkersOK
<1>7. UNCHANGED <<pc, job, ev, next>> => Stays
  OBVIOUS
<1> HIDE DEF Stays, Starts, Goes
<1>8. Stays \/ Starts \/ Goes
  BY <1>1, <1>2, <1>3, <1>4, <1>5, <1>6, <1>7
  DEF Next, WorkerStep, vars, CreateChange, AbandonChange, InsertOperation,
      FinishValidate, ReturnSettled, RejectPublish, FailPublish,
      CommitPublish, Crash
<1>9. job[u] \in Changes /\ change \in Change
  BY <1>8
  DEF Stays, Starts, Goes, LockChangeAndPages, EvaluateNext, WorkersOK,
      TablesOK
<1>10. CASE Stays
  <2>1. Busy(u) /\ ~Finish(u)
    BY <1>10, FinishElse DEF Stays, Busy
  <2>2. changes'[job[u]] = changes[job[u]]
    BY <2>1, HeldChangeStays
  <2> QED BY <1>9, <1>10, <2>2 DEF Stays
<1>11. CASE Starts
  BY <1>9, <1>11 DEF Starts, LockChangeAndPages, WorkersOK
<1>12. CASE Goes
  <2>1. next[u] \in 1..Len(change.ops)
    BY <1>9, <1>12 DEF Goes, EvaluateNext, WorkersOK, Change
  <2> QED BY <1>9, <1>12, <2>1 DEF Goes, EvaluateNext, WorkersOK
<1> QED BY <1>8, <1>10, <1>11, <1>12

\* Publications keep what they have checked.
LEMMA StepChecks ==
    ASSUME Inductive, [Next]_vars
    PROVE  PublicationChecks'
<1> SUFFICES ASSUME NEW u \in Workers, pc'[u] = "publishing"
             PROVE  /\ changes'[job'[u]].status \in {"DRAFT", "VALIDATED"}
                    /\ Checked(ev'[u], changes'[job'[u]], next'[u])
  BY DEF PublicationChecks, Mutable
<1> DEFINE change == changes[job[u]]
<1>1. /\ change \in Change /\ job'[u] = job[u] /\ changes'[job[u]] = change
      /\ \/ pc[u] = "publishing" /\ ev'[u] = ev[u] /\ next'[u] = next[u]
         \/ /\ Mutable(job[u]) /\ next'[u] = 1
            /\ ev'[u] = StartEvaluation(corpus, change.base)
         \/ /\ pc[u] = "publishing" /\ next[u] \in 1..Len(change.ops)
            /\ ev'[u] = Evaluate(ev[u], change.ops[next[u]])
            /\ next'[u] = next[u] + 1
  BY PublishingSteps
<1>2. pc[u] = "publishing" =>
         /\ ev[u] \in Evaluation /\ Checked(ev[u], change, next[u])
         /\ WorkingCopy(ev[u], change.ops, next[u])
         /\ Mutable(job[u])
  BY DEF Inductive, TypeOK, WorkersOK, Busy, PublicationChecks, EvaluationInv
<1>3. Mutable(job[u]) => change.status \in {"DRAFT", "VALIDATED"}
  BY DEF Mutable
<1>4. Checked(StartEvaluation(corpus, change.base), change, 1)
  <2> DEFINE e == StartEvaluation(corpus, change.base)
  <2>1. /\ e.origin = corpus /\ e.touched = {} /\ e.created = {}
        /\ e.ok => change.base = None \/ change.base = StateIdentity(corpus)
    BY DEF StartEvaluation
  <2>2. Len(change.ops) \in Nat
    BY <1>1 DEF Change
  <2> HIDE DEF e, change
  <2>3. Checked(e, change, 1)
    BY <2>1, <2>2 DEF Checked
  <2> QED BY <2>3 DEF e
<1> HIDE DEF change
<1> QED BY <1>1, <1>2, <1>3, <1>4, EvaluateChecks

-----------------------------------------------------------------------------
(***************************************************************************)
(* The invariant.                                                          *)
(***************************************************************************)

LEMMA InitInductive == Init => Inductive
<1> SUFFICES ASSUME Init PROVE Inductive
  OBVIOUS
<1>1. TypeOK
  BY InitType
<1>2. Locking /\ NoRevisionRace /\ EvaluationInv /\ PublicationChecks
  BY PublicationAssumption
  DEF Init, Locking, NoRevisionRace, EvaluationInv, PublicationChecks, Busy
<1>3. Numbered
  BY StartAssumption DEF Init, Imported, Numbered
<1>4. HistoryComplete
  <2> SUFFICES ASSUME NEW i \in PageIds
               PROVE  corpus.pages[i].revision \in {0, 1} /\ versions[i] = {}
    BY DEF HistoryComplete
  <2>1. corpus.pages[i] \in Page
    BY <1>1 DEF TypeOK, TablesOK, CorpusState
  <2>2. CASE corpus.pages[i].status = "absent"
    BY <2>1, <2>2 DEF Page, Row, AbsentPage, Init
  <2>3. CASE corpus.pages[i].status # "absent"
    BY <2>3, StartAssumption DEF Init, Imported, Existing
  <2> QED BY <2>2, <2>3
<1>5. OneCreatePerId
  BY DEF Init, NoChange, OneCreatePerId
<1> QED BY <1>1, <1>2, <1>3, <1>4, <1>5 DEF Inductive

LEMMA StepInductive == Inductive /\ [Next]_vars => Inductive'
BY StepType, StepLocking, StepRace, StepNumbered, StepHistory, StepOneCreate,
   StepEvaluation, StepChecks
DEF Inductive

THEOREM Invariant == Spec => []Inductive
BY InitInductive, StepInductive, PTL DEF Spec

\* Every reachable state is well-typed: the tables hold rows of their shape
\* and every worker holds exactly what its place in the code needs.
THEOREM TypeCorrect == Spec => []TypeOK
<1>1. Inductive => TypeOK
  BY DEF Inductive
<1> QED BY Invariant, <1>1, PTL

\* A publication evaluates the corpus it overwrites, in every interleaving
\* of any number of workers: PAGE_REVISION_RACE is unreachable.
THEOREM PublicationReadsLatest == Spec => []NoRevisionRace
<1>1. Inductive => NoRevisionRace
  BY DEF Inductive
<1> QED BY Invariant, <1>1, PTL

\* The history of every page holds each superseded revision exactly once.
THEOREM HistoryHasNoGaps == Spec => []HistoryComplete
<1>1. Inductive => HistoryComplete
  BY DEF Inductive
<1> QED BY Invariant, <1>1, PTL

-----------------------------------------------------------------------------
(***************************************************************************)
(* The committed corpus.                                                   *)
(***************************************************************************)

\* Soundness depends on which pages are active and on their paths and
\* navigation paths alone.
LEMMA SoundTransfers ==
    ASSUME NEW p, NEW q, NEW redirects,
           \A i \in PageIds : /\ q[i].status = p[i].status
                              /\ q[i].path = p[i].path
                              /\ q[i].nav = p[i].nav,
           Sound(Live(p), redirects)
    PROVE  Sound(Live(q), redirects)
<1>1. \A i \in PageIds : p[i].status = "active" <=> q[i].status = "active"
  OBVIOUS
<1>2. PathsDistinct(Live(q))
  <2> SUFFICES ASSUME NEW i \in Active(q), NEW j \in Active(q),
                      q[i].path = q[j].path
               PROVE  i = j
    BY DEF PathsDistinct, Live
  <2>1. i \in Active(p) /\ j \in Active(p) /\ p[i].path = p[j].path
    BY DEF Active
  <2>2. [id |-> i, page |-> p[i]] = [id |-> j, page |-> p[j]]
    BY <2>1 DEF Sound, PathsDistinct, Live
  <2> QED BY <2>2
<1>3. LivePaths(Live(q)) = LivePaths(Live(p))
  <2>1. Active(q) = Active(p)
    BY <1>1 DEF Active
  <2>2. ASSUME NEW x
        PROVE  LivePaths(Live(x)) = {x[i].path : i \in Active(x)}
    <3>1. \A i \in Active(x) :
             [id |-> i, page |-> x[i]] \in Live(x)
      BY DEF Live
    <3>2. \A e \in Live(x) : \E i \in Active(x) : e.page.path = x[i].path
      BY DEF Live
    <3>3. \A i \in Active(x) : \E e \in Live(x) : e.page.path = x[i].path
      BY <3>1
    <3> QED BY <3>2, <3>3 DEF LivePaths
  <2>3. {q[i].path : i \in Active(p)} = {p[i].path : i \in Active(p)}
    BY DEF Active
  <2> QED BY <2>1, <2>2, <2>3
<1>4. RedirectsSound(Live(q), redirects)
  BY <1>3 DEF Sound, RedirectsSound
<1>5. NavSound(Live(q))
  <2>1. \A i \in Active(q) : q[i].nav \notin BadNavs
    <3> SUFFICES ASSUME NEW i \in Active(q) PROVE q[i].nav \notin BadNavs
      OBVIOUS
    <3>1. [id |-> i, page |-> p[i]] \in Live(p)
      BY DEF Live, Active
    <3>2. p[i].nav \notin BadNavs
      BY <3>1 DEF Sound, NavSound
    <3> QED BY <3>2 DEF Active
  <2>2. \A i, j \in Active(q) : i # j => <<q[i].nav, q[j].nav>> \notin NavClash
    <3> SUFFICES ASSUME NEW i \in Active(q), NEW j \in Active(q), i # j
                 PROVE  <<q[i].nav, q[j].nav>> \notin NavClash
      OBVIOUS
    <3>1. /\ [id |-> i, page |-> p[i]] \in Live(p)
          /\ [id |-> j, page |-> p[j]] \in Live(p)
          /\ [id |-> i, page |-> p[i]] # [id |-> j, page |-> p[j]]
      BY DEF Live, Active
    <3>2. <<p[i].nav, p[j].nav>> \notin NavClash
      BY <3>1 DEF Sound, NavSound
    <3> QED BY <3>2 DEF Active
  <2> QED BY <2>1, <2>2 DEF NavSound, Live
<1> QED BY <1>2, <1>4, <1>5 DEF Sound

\* When the server draws the ids, an evaluation that can be written has
\* displaced no page, so its checks saw exactly the pages it leaves.
LEMMA NothingDisplaced ==
    ASSUME Inductive, ~ClientIds, NEW w \in Workers, CommitPublish(w)
    PROVE  Result(w).shadow = {}
<1> DEFINE r == Result(w)
           ops == changes[job[w]].ops
<1>1. WorkingCopy(ev[w], ops, next[w]) /\ job[w] \in Changes
  BY DEF Inductive, TypeOK, WorkersOK, Busy, EvaluationInv, CommitPublish
<1>2. /\ r.shadow = ev[w].shadow /\ r.created = ev[w].created
      /\ ev[w].origin = corpus
      /\ \A i \in r.created : corpus.pages[i].status = "absent"
  <2>1. /\ r.shadow = ev[w].shadow /\ r.created = ev[w].created
        /\ \A i \in r.created : corpus.pages[i] = AbsentPage
    BY CommitRows
  <2>2. ev[w].origin = corpus
    BY DEF Inductive, NoRevisionRace, CommitPublish
  <2> HIDE DEF r
  <2> QED BY <2>1, <2>2 DEF AbsentPage
<1> HIDE DEF r
<1> SUFFICES ASSUME NEW s \in ev[w].shadow PROVE FALSE
  BY <1>2 DEF r
<1>3. s.id \in r.created /\ corpus.pages[s.id].status = "absent"
  BY <1>1, <1>2 DEF WorkingCopy
<1>4. PICK k \in 1..Len(ops), l \in 1..Len(ops) :
         k # l /\ Creates(ops[k], s.id) /\ Creates(ops[l], s.id)
  BY <1>1, <1>2, <1>3 DEF WorkingCopy
<1> QED BY <1>1, <1>4 DEF Inductive, OneCreatePerId, Creates

LEMMA StepSound ==
    ASSUME Inductive, [Next]_vars, ~ClientIds, CorpusSound
    PROVE  CorpusSound'
<1>1. CASE UNCHANGED corpus
  BY <1>1 DEF CorpusSound
<1>2. ASSUME NEW w \in Workers, CommitPublish(w)
      PROVE  CorpusSound'
  <2> DEFINE r == Result(w)
  <2>1. Sound(ActiveEntries(r), r.cand.redirects)
    BY <1>2 DEF CommitPublish, ChangePasses, Passed
  <2>2. /\ r \in Evaluation /\ r.origin = corpus /\ CandidateKept(r)
        /\ corpus'.redirects = r.cand.redirects
        /\ \A i \in r.created : corpus.pages[i] = AbsentPage
        /\ \A i \in PageIds :
              corpus'.pages[i] =
                 IF i \in r.touched
                 THEN [r.cand.pages[i] EXCEPT !.revision =
                         IF i \in r.created THEN 1
                         ELSE corpus.pages[i].revision + 1]
                 ELSE corpus.pages[i]
    BY <1>2, CommitRows
  <2>3. r.shadow = {}
    BY <1>2, NothingDisplaced
  <2> HIDE DEF r
  <2>4. ActiveEntries(r) = Live(r.cand.pages)
    BY <2>3 DEF ActiveEntries, Entries, Live, Active, Existing
  <2>5. \A i \in PageIds :
           /\ corpus'.pages[i].status = r.cand.pages[i].status
           /\ corpus'.pages[i].path = r.cand.pages[i].path
           /\ corpus'.pages[i].nav = r.cand.pages[i].nav
    <3> TAKE i \in PageIds
    <3>1. r.cand.pages[i] \in Page
      BY <2>2 DEF Evaluation, CorpusState
    <3>2. CASE i \in r.touched
      BY <2>2, <3>1, <3>2 DEF Page, Row, AbsentPage
    <3>3. CASE i \notin r.touched
      BY <2>2, <3>3 DEF CandidateKept
    <3> QED BY <3>2, <3>3
  <2>6. Sound(Live(corpus'.pages), r.cand.redirects)
    BY <2>1, <2>4, <2>5, SoundTransfers
  <2> QED BY <2>2, <2>6 DEF CorpusSound
<1> QED BY <1>1, <1>2, OnlyCommitWrites

\* As long as ids are drawn by the server, no interleaving of any number of
\* authors leaves the committed corpus with two active pages on one path, a
\* redirect that hides a page or leads nowhere, or a broken navigation tree.
THEOREM CorpusStaysSound ==
    ASSUME ~ClientIds
    PROVE  Spec => []CorpusSound
<1>1. Init => CorpusSound
  BY StartAssumption DEF Init, Imported, CorpusSound
<1>2. Inductive /\ CorpusSound /\ [Next]_vars => CorpusSound'
  BY StepSound
<1> QED BY Invariant, <1>1, <1>2, PTL DEF Spec

\* A sound corpus builds, if every path renders to a URL of its own.
LEMMA SoundBuilds ==
    ASSUME \A p, q \in Paths : UrlOf[p] = UrlOf[q] => p = q,
           corpus \in CorpusState, CorpusSound
    PROVE  CommittedCorpusBuilds
<1> DEFINE live == Live(corpus.pages)
           redirects == corpus.redirects
<1>1. \A e \in live : e.page.path \in Paths
  BY RowOrAbsent DEF Live, Active, CorpusState, Page, Row, AbsentPage
<1>2. /\ PathsDistinct(live) /\ RedirectsSound(live, redirects)
      /\ NavSound(live)
  BY DEF CorpusSound, Sound
<1>3. \A s \in Sources(redirects) : s \in Paths
  BY DEF Sources
<1>4. LivePaths(live) \subseteq Paths
  BY <1>1 DEF LivePaths
<1> HIDE DEF live, redirects
<1>5. RoutesValid(live, redirects)
  BY <1>1, <1>2, <1>3
  DEF RoutesValid, PathsDistinct, RedirectsSound, LivePaths
<1>6. RedirectsValid(live, redirects)
  BY <1>2, <1>3, <1>4 DEF RedirectsValid, RedirectsSound
<1> QED BY <1>2, <1>5, <1>6 DEF CommittedCorpusBuilds, Buildable, live, redirects

\* When, besides, every path renders to a URL of its own, whatever was
\* published passes every check the generator makes before it builds.
THEOREM PublishedCorpusBuilds ==
    ASSUME ~ClientIds,
           \A p, q \in Paths : UrlOf[p] = UrlOf[q] => p = q
    PROVE  Spec => []CommittedCorpusBuilds
<1>1. Inductive /\ CorpusSound => CommittedCorpusBuilds
  BY SoundBuilds DEF Inductive, TypeOK, TablesOK
<1>2. Spec => []CorpusSound
  BY CorpusStaysSound
<1> QED BY Invariant, <1>1, <1>2, PTL

-----------------------------------------------------------------------------
(***************************************************************************)
(* What a step may never do.                                               *)
(***************************************************************************)

\* A change becomes published only by the commit of the worker that
\* publishes it.
LEMMA PublishingCommits ==
    ASSUME Inductive, [Next]_vars, NEW c \in Changes, Publishes(c)
    PROVE  \E w \in Workers : CommitPublish(w) /\ job[w] = c
<1> DEFINE Kept == changes'[c].status # "PUBLISHED"
                   \/ changes[c].status = "PUBLISHED"
<1> USE DEF Inductive, TypeOK, TablesOK
<1>0. ~Kept
  BY DEF Publishes
<1>1. UNCHANGED changes => Kept
  OBVIOUS
<1>2. ASSUME NEW d \in Changes, NEW base, CreateChange(d, base)
      PROVE  Kept
  BY <1>2 DEF CreateChange, NewChange
<1>3. ASSUME NEW d \in Changes, AbandonChange(d)
      PROVE  Kept
  BY <1>3 DEF AbandonChange, Change
<1>4. ASSUME NEW w \in Workers, NEW d \in Changes, NEW i \in PageIds,
             NEW v \in versions[i], RollbackPage(w, d, i, v)
      PROVE  Kept
  BY <1>4 DEF RollbackPage, NewChange
<1>5. ASSUME NEW w \in Workers, NEW o, InsertOperation(w, o)
      PROVE  Kept
  BY <1>5 DEF InsertOperation, Change
<1>6. ASSUME NEW w \in Workers, FinishValidate(w) \/ RejectPublish(w)
      PROVE  Kept
  <2>1. PICK status \in {"VALIDATED", "DRAFT"} : \E summary :
           changes' = [changes EXCEPT ![job[w]].status = status,
                                      ![job[w]].summary = summary]
    BY <1>6 DEF FinishValidate, RejectPublish
  <2>2. PICK summary :
           changes' = [changes EXCEPT ![job[w]].status = status,
                                      ![job[w]].summary = summary]
    BY <2>1
  <2> QED BY <2>1, <2>2 DEF Change
<1>7. ASSUME NEW w \in Workers, CommitPublish(w), job[w] # c
      PROVE  Kept
  <2>1. PICK summary :
           changes' = [changes EXCEPT ![job[w]].status = "PUBLISHED",
                                      ![job[w]].summary = summary]
    BY <1>7 DEF CommitPublish
  <2> QED BY <1>7, <2>1 DEF Change
<1> HIDE DEF Kept
<1> QED
  BY <1>0, <1>1, <1>2, <1>3, <1>4, <1>5, <1>6, <1>7
  DEF Next, WorkerStep, vars, BeginAdd, BeginValidate, RequestPublish,
      LoadRoutes, EvaluateNext, TakePublicationLock, ReturnSettled,
      LockChangeAndPages, FailPublish, Crash

\* What the committing worker has checked.
LEMMA CommitChecked ==
    ASSUME Inductive, NEW w \in Workers, CommitPublish(w)
    PROVE  /\ job[w] \in Changes
           /\ ev[w].ok /\ ev[w].origin = corpus
           /\ Checked(ev[w], changes[job[w]], next[w])
           /\ changes[job[w]].ops \in Seq(Ops)
           /\ \A k \in 1..Len(changes[job[w]].ops) : k < next[w]
<1> USE DEF Inductive, TypeOK
<1>1. pc[w] = "publishing" /\ job[w] \in Changes
  BY DEF CommitPublish, WorkersOK
<1>2. ev[w].ok
  BY CommitRows DEF CommitPublish, ChangePasses, Passed
<1>3. changes[job[w]].ops \in Seq(Ops) /\ next[w] \in Nat
  BY <1>1 DEF TablesOK, WorkersOK, Change
<1>4. \A k \in 1..Len(changes[job[w]].ops) : k < next[w]
  BY <1>3 DEF CommitPublish, Evaluated
<1> QED BY <1>1, <1>2, <1>3, <1>4 DEF NoRevisionRace, PublicationChecks

\* A change bound to a state is published onto exactly that state.
THEOREM BoundChangesBind == Spec => BaseStateBinds
<1>1. Inductive /\ [Next]_vars => BaseMatches
  <2> SUFFICES ASSUME Inductive, [Next]_vars, NEW c \in Changes,
                      Publishes(c), changes[c].base # None
               PROVE  changes[c].base = StateIdentity(corpus)
    BY DEF BaseMatches
  <2>1. PICK w \in Workers : CommitPublish(w) /\ job[w] = c
    BY PublishingCommits
  <2> QED BY <2>1, CommitChecked DEF Checked
<1> QED BY Invariant, <1>1, PTL DEF Spec, BaseStateBinds

\* History only grows, and receives every page version that is overwritten.
THEOREM HistoryNeverLoses == Spec => HistoryKeeps
<1>1. Inductive /\ [Next]_vars => HistoryKept
  <2> SUFFICES ASSUME Inductive, [Next]_vars,
                      NEW i \in Existing(corpus.pages)
               PROVE  /\ versions[i] \subseteq versions'[i]
                      /\ corpus'.pages[i] # corpus.pages[i] =>
                            corpus.pages[i] \in versions'[i]
    BY DEF HistoryKept
  <2> DEFINE old == corpus.pages[i]
  <2>0. /\ i \in PageIds /\ old.status # "absent"
        /\ old.revision \in Nat /\ old.revision > 0
    BY RowOrAbsent
    DEF Existing, Inductive, Numbered, TypeOK, TablesOK, CorpusState
  <2>1. CASE UNCHANGED <<corpus, versions>>
    BY <2>1
  <2>2. ASSUME NEW w \in Workers, CommitPublish(w)
        PROVE  /\ versions[i] \subseteq versions'[i]
               /\ corpus'.pages[i] # old => old \in versions'[i]
    <3> DEFINE r == Result(w)
    <3>1. /\ r.origin = corpus
          /\ i \notin r.created
          /\ i \notin r.touched => corpus'.pages[i] = old
      <4>1. /\ r.origin = corpus
            /\ \A j \in r.created : corpus.pages[j] = AbsentPage
            /\ \A j \in PageIds \ r.touched :
                  corpus'.pages[j] = corpus.pages[j]
        BY <2>2, CommitRows
      <4> HIDE DEF r
      <4> QED BY <2>0, <4>1 DEF AbsentPage
    <3>2. versions'[i] = IF i \in r.touched THEN Snapshot(i, old)
                         ELSE versions[i]
      BY <2>0, <2>2, <3>1 DEF CommitPublish
    <3>3. \A v \in versions[i] : v.revision \in 1..(old.revision - 1)
      BY <2>0 DEF Inductive, HistoryComplete
    <3> HIDE DEF r
    <3> QED BY <2>0, <3>1, <3>2, <3>3 DEF Snapshot
  <2> QED BY <2>1, <2>2, OnlyCommitWrites
<1> QED BY Invariant, <1>1, PTL DEF Spec, HistoryKeeps

\* Link repair adds to the touched pages only pages whose links it rewrites,
\* and rewrites nothing but links.
LEMMA RepairRows ==
    ASSUME NEW e \in Evaluation, NEW i \in PageIds
    PROVE  LET r == RepairLinks(e) IN
           /\ e.touched \subseteq r.touched
           /\ r.cand.pages[i] = e.cand.pages[i] \/
              r.cand.pages[i] = [e.cand.pages[i] EXCEPT
                                    !.links = r.cand.pages[i].links]
<1> DEFINE changed == {j \in Repairable(e) :
                         Retarget(e.cand.pages[j].links, e.moves)
                           # e.cand.pages[j].links}
           pages == [j \in PageIds |->
                       IF j \in changed
                       THEN [e.cand.pages[j] EXCEPT !.links =
                               Retarget(e.cand.pages[j].links, e.moves)]
                       ELSE e.cand.pages[j]]
           r == [e EXCEPT !.cand.pages = pages, !.touched = @ \cup changed]
<1>1. RepairLinks(e) = e \/ RepairLinks(e) = r
  BY DEF RepairLinks
<1>2. r.touched = e.touched \cup changed /\ r.cand.pages = pages
  BY DEF Evaluation, CorpusState
<1>3. \/ pages[i] = e.cand.pages[i]
      \/ pages[i] = [e.cand.pages[i] EXCEPT !.links = pages[i].links]
  <2>1. CASE i \in changed
    <3> DEFINE l == Retarget(e.cand.pages[i].links, e.moves)
    <3>1. e.cand.pages[i] \in Page /\ pages[i] = [e.cand.pages[i] EXCEPT !.links = l]
      BY <2>1 DEF Evaluation, CorpusState
    <3>2. e.cand.pages[i] \in Row
      BY <2>1, <3>1, RowOrAbsent DEF Repairable, Active
    <3> HIDE DEF l, changed, pages
    <3>3. pages[i].links = l
      BY <3>1, <3>2 DEF Row
    <3> QED BY <3>1, <3>3
  <2> QED BY <2>1
<1> HIDE DEF changed, pages, r
<1> QED BY <1>1, <1>2, <1>3

\* A page operation of a published change overwrites the revision it was
\* prepared against, and a page that none names keeps everything but links.
LEMMA CommitPrepared ==
    ASSUME Inductive, NEW w \in Workers, CommitPublish(w),
           NEW i \in Existing(corpus.pages)
    PROVE  LET c == job[w]
               old == corpus.pages[i]
               new == corpus'.pages[i]
           IN  /\ \A k \in OpsOn(c, i) :
                     /\ changes[c].ops[k].rev = old.revision
                     /\ new.revision = old.revision + 1
               /\ OpsOn(c, i) = {} =>
                     \/ new = old
                     \/ new = [old EXCEPT !.revision = @ + 1,
                                          !.links = new.links]
<1> DEFINE c == job[w]
           ops == changes[c].ops
           e == ev[w]
           r == Result(w)
           old == corpus.pages[i]
           new == corpus'.pages[i]
<1>1. /\ i \in PageIds /\ old \in Row /\ i \notin r.created
  <2>1. i \in PageIds /\ old.status # "absent"
    BY DEF Existing
  <2>2. old \in Page
    BY <2>1 DEF Inductive, TypeOK, TablesOK, CorpusState
  <2>3. \A j \in r.created : corpus.pages[j].status = "absent"
    BY CommitRows DEF AbsentPage
  <2> HIDE DEF r
  <2> QED BY <2>1, <2>2, <2>3, RowOrAbsent
<1>2. /\ r = RepairLinks(e) /\ e \in Evaluation
      /\ CandidateKept(e) /\ e.origin = corpus /\ e.ok
      /\ Checked(e, changes[c], Len(ops) + 1)
  <2>1. /\ e \in Evaluation /\ CandidateKept(e)
    BY DEF Inductive, TypeOK, WorkersOK, Busy, EvaluationInv, WorkingCopy,
           CommitPublish
  <2>2. /\ e.ok /\ e.origin = corpus /\ Checked(e, changes[c], next[w])
        /\ ops \in Seq(Ops) /\ \A k \in 1..Len(ops) : k < next[w]
    BY CommitChecked
  <2>3. Checked(e, changes[c], Len(ops) + 1)
    <3> HIDE DEF e, c
    <3> QED BY <2>2 DEF Checked
  <2> QED BY <2>1, <2>2, <2>3 DEF Result
<1>3. /\ r \in Evaluation /\ r.created = e.created
      /\ r.cand.pages[i] \in Page
      /\ new = IF i \in r.touched
               THEN [r.cand.pages[i] EXCEPT !.revision =
                       IF i \in r.created THEN 1 ELSE old.revision + 1]
               ELSE old
  BY <1>1, CommitRows DEF Evaluation, CorpusState
<1>4. /\ e.touched \subseteq r.touched
      /\ r.cand.pages[i] = e.cand.pages[i] \/
         r.cand.pages[i] = [e.cand.pages[i] EXCEPT
                               !.links = r.cand.pages[i].links]
  BY <1>1, <1>2, RepairRows
<1> HIDE DEF e, r, old, new, c
<1>5. /\ \A k \in OpsOn(c, i) :
            i \in e.touched /\ ops[k].rev = old.revision
      /\ OpsOn(c, i) = {} => i \notin e.touched
  <2>1. old = e.origin.pages[i] /\ i \notin e.created
    BY <1>1, <1>2, <1>3 DEF old
  <2>2. \A k \in 1..Len(ops) : k < Len(ops) + 1
    BY DEF Inductive, TypeOK, TablesOK, Change
  <2>3. ASSUME NEW k \in OpsOn(c, i)
        PROVE  i \in e.touched /\ ops[k].rev = old.revision
    <3>1. /\ k \in 1..Len(ops) /\ k < Len(ops) + 1
          /\ ops[k].type \in PageOpTypes /\ ops[k].page = i
      BY <2>2 DEF OpsOn
    <3> QED BY <1>2, <2>1, <3>1 DEF Checked
  <2>4. ASSUME i \in e.touched
        PROVE  OpsOn(c, i) # {}
    BY <1>2, <2>1, <2>4 DEF Checked, OpsOn
  <2> QED BY <2>3, <2>4
<1>6. ASSUME NEW k \in OpsOn(c, i)
      PROVE  ops[k].rev = old.revision /\ new.revision = old.revision + 1
  BY <1>1, <1>3, <1>4, <1>5 DEF Page, Row, AbsentPage
<1>7. ASSUME OpsOn(c, i) = {}, i \in r.touched
      PROVE  new = [old EXCEPT !.revision = @ + 1, !.links = new.links]
  <2>1. e.cand.pages[i] = old
    BY <1>1, <1>2, <1>5, <1>7 DEF CandidateKept, old
  <2>2. new = [r.cand.pages[i] EXCEPT !.revision = old.revision + 1]
    BY <1>1, <1>3, <1>7
  <2>3. r.cand.pages[i] = old \/
        r.cand.pages[i] = [old EXCEPT !.links = r.cand.pages[i].links]
    BY <1>4, <2>1
  <2> QED BY <1>1, <2>2, <2>3 DEF Row
<1>8. i \notin r.touched => new = old
  BY <1>3
<1> QED BY <1>6, <1>7, <1>8 DEF c, old, new

\* The corpus changes only by publishing a change, and nobody's update is
\* lost to it.
THEOREM NoUpdateIsLost == Spec => NoLostUpdate
<1>1. Inductive /\ [Next]_vars => UpdatesPrepared
  <2> SUFFICES ASSUME Inductive, [Next]_vars PROVE UpdatesPrepared
    OBVIOUS
  <2>1. corpus' # corpus => \E c \in Changes : Publishes(c)
    <3> SUFFICES ASSUME NEW w \in Workers, CommitPublish(w)
                 PROVE  Publishes(job[w])
      BY OnlyCommitWrites, CommitChecked
    <3>1. Mutable(job[w]) /\ job[w] \in Changes
      BY CommitChecked
      DEF Inductive, PublicationChecks, CommitPublish
    <3>2. PICK summary :
             changes' = [changes EXCEPT ![job[w]].status = "PUBLISHED",
                                        ![job[w]].summary = summary]
      BY DEF CommitPublish
    <3> QED BY <3>1, <3>2
        DEF Publishes, Mutable, Inductive, TypeOK, TablesOK, Change
  <2>2. ASSUME NEW c \in Changes, Publishes(c),
               NEW i \in Existing(corpus.pages)
        PROVE  LET old == corpus.pages[i]
                   new == corpus'.pages[i]
               IN  /\ \A k \in OpsOn(c, i) :
                         /\ changes[c].ops[k].rev = old.revision
                         /\ new.revision = old.revision + 1
                   /\ OpsOn(c, i) = {} =>
                         \/ new = old
                         \/ new = [old EXCEPT !.revision = @ + 1,
                                              !.links = new.links]
    <3>1. PICK w \in Workers : CommitPublish(w) /\ job[w] = c
      BY <2>2, PublishingCommits
    <3> QED BY <3>1, CommitPrepared
  <2> QED BY <2>1, <2>2 DEF UpdatesPrepared
<1> QED BY Invariant, <1>1, PTL DEF Spec, NoLostUpdate

-----------------------------------------------------------------------------
(***************************************************************************)
(* The evaluation of a change is a function of the change and of the       *)
(* corpus.                                                                 *)
(***************************************************************************)

\* after is the sequence of working copies of ops, from the first up to n.
Run(after, n, c, base, ops) ==
    after = [k \in 0..n |-> IF k = 0 THEN StartEvaluation(c, base)
                            ELSE Evaluate(after[k - 1], ops[k])]

\* A run is extended by one operation.
LEMMA RunExtends ==
    ASSUME NEW n \in Nat, NEW after, NEW c, NEW base, NEW ops,
           Run(after, n, c, base, ops)
    PROVE  \E longer : Run(longer, n + 1, c, base, ops)
<1> DEFINE longer == [k \in 0..(n + 1) |->
                        IF k <= n THEN after[k]
                        ELSE Evaluate(after[n], ops[n + 1])]
<1>1. \A k \in 0..n : after[k] = IF k = 0 THEN StartEvaluation(c, base)
                                 ELSE Evaluate(after[k - 1], ops[k])
  BY DEF Run
<1>2. \A k \in 0..(n + 1) :
         longer[k] = IF k <= n THEN after[k] ELSE Evaluate(after[n], ops[n + 1])
  OBVIOUS
<1>3. longer = [k \in 0..(n + 1) |-> longer[k]]
  OBVIOUS
<1> HIDE DEF longer
<1>4. ASSUME NEW k \in 0..(n + 1)
      PROVE  longer[k] = IF k = 0 THEN StartEvaluation(c, base)
                         ELSE Evaluate(longer[k - 1], ops[k])
  <2>1. CASE k = 0
    BY <1>1, <1>2, <2>1
  <2>2. CASE k \in 1..n
    <3>1. longer[k] = after[k] /\ longer[k - 1] = after[k - 1]
      BY <1>2, <2>2
    <3> QED BY <1>1, <2>2, <3>1
  <2>3. CASE k = n + 1
    <3>1. longer[k] = Evaluate(after[n], ops[k]) /\ longer[k - 1] = after[n]
      BY <1>2, <2>3
    <3> QED BY <2>3, <3>1
  <2> QED BY <2>1, <2>2, <2>3
<1>5. [k \in 0..(n + 1) |-> longer[k]] =
      [k \in 0..(n + 1) |-> IF k = 0 THEN StartEvaluation(c, base)
                            ELSE Evaluate(longer[k - 1], ops[k])]
  BY <1>4
<1>6. Run(longer, n + 1, c, base, ops)
  BY <1>3, <1>5 DEF Run
<1> QED BY <1>6

\* A run of every length exists: take the least length that has none.
LEMMA RunExists ==
    ASSUME NEW n \in Nat, NEW c, NEW base, NEW ops
    PROVE  \E after : Run(after, n, c, base, ops)
<1> DEFINE Has(m) == \E after : Run(after, m, c, base, ops)
           Without == {m \in Nat : ~Has(m)}
<1>1. Has(0)
  <2> DEFINE start == [k \in 0..0 |-> StartEvaluation(c, base)]
  <2>1. Run(start, 0, c, base, ops)
    BY DEF Run
  <2> QED BY <2>1
<1>2. \A m \in Nat : Has(m) => Has(m + 1)
  BY RunExtends
<1> DEFINE less == {p \in Nat \X Nat : p[1] < p[2]}
<1>0. IsWellFoundedOn(less, Nat)
  BY NatLessThanWellFounded DEF OpToRel
<1> HIDE DEF Has
<1>3. ASSUME Without # {}
      PROVE  FALSE
  <2>1. PICK m \in Without :
           \A k \in Without : <<k, m>> \notin less
    BY <1>0, <1>3, WFMin
  <2>2. m # 0 /\ m - 1 \in Nat
    BY <1>1
  <2>3. Has(m - 1)
    <3>1. <<m - 1, m>> \in less
      BY <2>2
    <3>2. m - 1 \notin Without
      BY <2>1, <3>1
    <3> QED BY <2>2, <3>2
  <2> QED BY <1>2, <2>2, <2>3
<1> QED BY <1>3 DEF Has

\* Evaluations starts the evaluation and takes one operation after another.
LEMMA EvaluationsRun ==
    ASSUME NEW c, NEW base, NEW ops \in Seq(Ops)
    PROVE  /\ Evaluations(c, base, ops)[0] = StartEvaluation(c, base)
           /\ \A n \in 1..Len(ops) :
                 Evaluations(c, base, ops)[n] =
                    Evaluate(Evaluations(c, base, ops)[n - 1], ops[n])
<1> DEFINE all == Evaluations(c, base, ops)
           N == Len(ops)
<1>1. N \in Nat
  OBVIOUS
<1>2. \E after : after = [k \in 0..N |-> IF k = 0 THEN StartEvaluation(c, base)
                                         ELSE Evaluate(after[k - 1], ops[k])]
  <2>1. \E after : Run(after, N, c, base, ops)
    BY <1>1, RunExists
  <2> QED BY <2>1 DEF Run
<1>3. all = CHOOSE after : after = [k \in 0..N |->
                IF k = 0 THEN StartEvaluation(c, base)
                ELSE Evaluate(after[k - 1], ops[k])]
  BY DEF Evaluations
<1> HIDE DEF all, N
<1>4. all = [k \in 0..N |-> IF k = 0 THEN StartEvaluation(c, base)
                            ELSE Evaluate(all[k - 1], ops[k])]
  BY <1>2, <1>3
<1>5. \A k \in 0..N : all[k] = IF k = 0 THEN StartEvaluation(c, base)
                              ELSE Evaluate(all[k - 1], ops[k])
  BY <1>4
<1>6. /\ all[0] = StartEvaluation(c, base)
      /\ \A k \in 1..N : all[k] = Evaluate(all[k - 1], ops[k])
  BY <1>1, <1>5
<1> QED BY <1>6 DEF all, N

-----------------------------------------------------------------------------
(***************************************************************************)
(* Validations, and the refinement of AtomicPublication.                   *)
(***************************************************************************)

\* Pages that were committed stay known: a commit only raises revisions.
LEMMA KnownStaysKnown ==
    ASSUME Inductive, [Next]_vars, NEW P, PagesKnown(P),
           \A i \in PageIds : P[i].revision \in Nat
    PROVE  \A i \in PageIds :
              /\ P[i].revision <= corpus'.pages[i].revision
              /\ P[i].revision = corpus'.pages[i].revision =>
                    P[i] = corpus'.pages[i]
<1> SUFFICES ASSUME NEW i \in PageIds
             PROVE  /\ P[i].revision <= corpus'.pages[i].revision
                    /\ P[i].revision = corpus'.pages[i].revision =>
                          P[i] = corpus'.pages[i]
  OBVIOUS
<1> DEFINE old == corpus.pages[i]
           new == corpus'.pages[i]
<1>1. /\ old.revision \in Nat /\ P[i].revision \in Nat
      /\ P[i].revision <= old.revision
      /\ P[i].revision = old.revision => P[i] = old
  BY RowOrAbsent DEF PagesKnown, Inductive, TypeOK, TablesOK, CorpusState
<1>2. new = old \/ new.revision = old.revision + 1
  <2>1. CASE UNCHANGED <<corpus, versions>>
    BY <2>1
  <2>2. ASSUME NEW w \in Workers, CommitPublish(w)
        PROVE  new = old \/ new.revision = old.revision + 1
    <3> DEFINE r == Result(w)
    <3>1. /\ r \in Evaluation
          /\ i \in r.created => old = AbsentPage
          /\ new = IF i \in r.touched
                   THEN [r.cand.pages[i] EXCEPT !.revision =
                           IF i \in r.created THEN 1 ELSE old.revision + 1]
                   ELSE old
      BY <2>2, CommitRows
    <3>2. r.cand.pages[i] \in Page
      BY <3>1 DEF Evaluation, CorpusState
    <3> HIDE DEF r
    <3>3. CASE i \in r.touched
      <4>1. new.revision = IF i \in r.created THEN 1 ELSE old.revision + 1
        BY <3>1, <3>2, <3>3 DEF Page, Row, AbsentPage
      <4> QED BY <3>1, <4>1 DEF AbsentPage
    <3> QED BY <3>1, <3>3
  <2> QED BY <2>1, <2>2, OnlyCommitWrites
<1> HIDE DEF old, new
<1>3. /\ P[i].revision <= new.revision
      /\ P[i].revision = new.revision => P[i] = new
  BY <1>1, <1>2
<1> QED BY <1>3 DEF new

\* The origin of a type-correct evaluation has numbered pages.
LEMMA OriginNumbered ==
    ASSUME NEW O \in CorpusState
    PROVE  \A i \in PageIds : O.pages[i].revision \in Nat
BY RowOrAbsent DEF CorpusState

\* Every step that does not commit a publication leaves corpus and changes
\* alone or prepares one change.
LEMMA StepPrepares ==
    ASSUME Inductive, UnopenedIsEmpty, [Next]_vars
    PROVE  \/ UNCHANGED <<corpus, changes>>
           \/ \E c \in Changes :
                 /\ Atomic!Prepare(c)
                 /\ changes'[c].status = "VALIDATED" =>
                       \E w \in Workers : FinishValidate(w) /\ job[w] = c
           \/ \E w \in Workers : CommitPublish(w)
<1> DEFINE Prepares(c) ==
               /\ Atomic!Prepare(c)
               /\ changes'[c].status = "VALIDATED" =>
                     \E w \in Workers : FinishValidate(w) /\ job[w] = c
           Goal == \/ UNCHANGED <<corpus, changes>>
                   \/ \E c \in Changes : Prepares(c)
                   \/ \E w \in Workers : CommitPublish(w)
<1>0. /\ \A c \in Changes : changes[c] \in Change
      /\ changes = [c \in Changes |-> changes[c]]
      /\ \A w \in Workers : pc[w] # "idle" => job[w] \in Changes
  BY DEF Inductive, TypeOK, TablesOK, WorkersOK
<1>1. UNCHANGED <<corpus, changes>> => Goal
  OBVIOUS
<1>2. ASSUME NEW d \in Changes, NEW base, CreateChange(d, base)
      PROVE  Prepares(d)
  <2>1. /\ corpus' = corpus /\ changes[d].status = "none"
        /\ changes'[d] = NewChange(base, <<>>)
        /\ \A e \in Changes \ {d} : changes'[e] = changes[e]
    BY <1>0, <1>2 DEF CreateChange
  <2>2. changes[d].ops = <<>>
    BY <2>1 DEF UnopenedIsEmpty, NoChange
  <2> QED BY <2>1, <2>2 DEF NewChange, Atomic!Prepare
<1>3. ASSUME NEW d \in Changes, AbandonChange(d)
      PROVE  Prepares(d)
  <2>1. /\ corpus' = corpus
        /\ changes'[d].status = "ABANDONED"
        /\ changes'[d].ops = changes[d].ops
        /\ changes'[d].base = changes[d].base
        /\ \A e \in Changes \ {d} : changes'[e] = changes[e]
    BY <1>0, <1>3 DEF AbandonChange, Change
  <2> QED BY <2>1 DEF Atomic!Prepare
<1>4. ASSUME NEW w \in Workers, NEW d \in Changes, NEW i \in PageIds,
             NEW v \in versions[i], RollbackPage(w, d, i, v)
      PROVE  Prepares(d)
  <2>1. PICK o : changes' = [changes EXCEPT ![d] = NewChange(None, <<o>>)]
    BY <1>4 DEF RollbackPage
  <2>2. /\ corpus' = corpus /\ changes[d].status = "none"
        /\ changes'[d] = NewChange(None, <<o>>)
        /\ \A e \in Changes \ {d} : changes'[e] = changes[e]
    BY <1>0, <1>4, <2>1 DEF RollbackPage
  <2>3. changes[d].ops = <<>>
    BY <2>2 DEF UnopenedIsEmpty, NoChange
  <2>4. Atomic!Front(<<o>>) = <<>>
    BY DEF Atomic!Front
  <2> QED BY <2>2, <2>3, <2>4 DEF NewChange, Atomic!Prepare
<1>5. ASSUME NEW w \in Workers, NEW o, InsertOperation(w, o)
      PROVE  Goal
  <2> DEFINE d == job[w]
  <2>0. d \in Changes /\ corpus' = corpus
    BY <1>0, <1>5 DEF InsertOperation
  <2>1. CASE changes' = changes
    BY <2>0, <2>1
  <2>2. CASE changes' = [changes EXCEPT ![d].status = "DRAFT",
                                        ![d].ops = Append(@, o),
                                        ![d].summary = None]
    <3>1. /\ changes'[d].status = "DRAFT"
          /\ changes'[d].ops = Append(changes[d].ops, o)
          /\ changes'[d].base = changes[d].base
          /\ \A e \in Changes \ {d} : changes'[e] = changes[e]
      BY <1>0, <2>0, <2>2 DEF Change
    <3>2. changes[d].ops \in Seq(Ops)
      BY <1>0, <2>0 DEF Change
    <3>3. Atomic!Front(changes'[d].ops) = changes[d].ops
      BY <3>1, <3>2 DEF Atomic!Front
    <3>4. Prepares(d)
      BY <2>0, <3>1, <3>3 DEF Atomic!Prepare
    <3> QED BY <2>0, <3>4
  <2> QED BY <1>5, <2>1, <2>2 DEF InsertOperation
<1>6. ASSUME NEW w \in Workers, FinishValidate(w) \/ RejectPublish(w)
      PROVE  Goal
  <2> DEFINE d == job[w]
  <2>0. d \in Changes /\ corpus' = corpus
    BY <1>0, <1>6 DEF FinishValidate, RejectPublish
  <2>1. PICK status \in {"VALIDATED", "DRAFT"} : \E summary :
           /\ changes' = [changes EXCEPT ![d].status = status,
                                         ![d].summary = summary]
           /\ status = "VALIDATED" => FinishValidate(w)
    BY <1>6 DEF FinishValidate, RejectPublish
  <2>2. PICK summary :
           changes' = [changes EXCEPT ![d].status = status,
                                      ![d].summary = summary]
    BY <2>1
  <2>3. /\ changes'[d].status = status
        /\ changes'[d].ops = changes[d].ops
        /\ changes'[d].base = changes[d].base
        /\ \A e \in Changes \ {d} : changes'[e] = changes[e]
    BY <1>0, <2>0, <2>2 DEF Change
  <2>4. status = "VALIDATED" => \E u \in Workers : FinishValidate(u) /\ job[u] = d
    BY <2>1
  <2> HIDE DEF d
  <2>5. Prepares(d)
    BY <2>0, <2>1, <2>3, <2>4 DEF Atomic!Prepare
  <2> QED BY <2>0, <2>5
<1>7. \A w \in Workers : CommitPublish(w) => Goal
  OBVIOUS
<1>8. \A d \in Changes : Prepares(d) => Goal
  OBVIOUS
<1> HIDE DEF Goal, Prepares
<1>9. Goal
  BY <1>1, <1>2, <1>3, <1>4, <1>5, <1>6, <1>7, <1>8
  DEF Next, WorkerStep, vars, BeginAdd, BeginValidate, RequestPublish,
      LoadRoutes, EvaluateNext, TakePublicationLock, ReturnSettled,
      LockChangeAndPages, FailPublish, Crash
<1> QED BY <1>9 DEF Goal, Prepares

\* A commit publishes the change the worker holds and no other.
LEMMA CommitStatus ==
    ASSUME Inductive, NEW w \in Workers, CommitPublish(w)
    PROVE  /\ job[w] \in Changes
           /\ changes' = [changes EXCEPT
                 ![job[w]].status = "PUBLISHED",
                 ![job[w]].summary = changes'[job[w]].summary]
           /\ changes'[job[w]].status = "PUBLISHED"
           /\ \A d \in Changes \ {job[w]} : changes'[d] = changes[d]
<1> DEFINE c == job[w]
<1>1. /\ c \in Changes /\ changes[c] \in Change
      /\ changes = [d \in Changes |-> changes[d]]
  BY DEF CommitPublish, Inductive, TypeOK, TablesOK, WorkersOK
<1>2. PICK summary :
         changes' = [changes EXCEPT ![c].status = "PUBLISHED",
                                    ![c].summary = summary]
  BY DEF CommitPublish
<1> HIDE DEF c
<1>3. /\ changes'[c].status = "PUBLISHED" /\ changes'[c].summary = summary
      /\ \A d \in Changes \ {c} : changes'[d] = changes[d]
  BY <1>1, <1>2 DEF Change
<1> QED BY <1>1, <1>2, <1>3 DEF c

\* A change that is not opened yet stays as it was.
LEMMA StepUnopened ==
    ASSUME Inductive, UnopenedIsEmpty, [Next]_vars
    PROVE  UnopenedIsEmpty'
<1>1. CASE UNCHANGED <<corpus, changes>>
  BY <1>1 DEF UnopenedIsEmpty
<1>2. ASSUME NEW c \in Changes, Atomic!Prepare(c)
      PROVE  UnopenedIsEmpty'
  BY <1>2 DEF Atomic!Prepare, UnopenedIsEmpty
<1>3. ASSUME NEW w \in Workers, CommitPublish(w)
      PROVE  UnopenedIsEmpty'
  BY <1>3, CommitStatus DEF UnopenedIsEmpty
<1> QED BY <1>1, <1>2, <1>3, StepPrepares

\* What EvaluationsDetermined says of one worker.
DeterminedAt(w) ==
    /\ pc[w] \in {"validating", "publishing"} =>
          IsEvaluation(ev[w], changes[job[w]], next[w])
    /\ pc[w] \in {"loading", "validating"} => PagesKnown(ev[w].origin.pages)

\* A worker that stays where it was keeps its evaluation.
LEMMA StayingDetermined ==
    ASSUME Inductive, [Next]_vars, NEW u \in Workers, DeterminedAt(u),
           pc'[u] = pc[u], job'[u] = job[u], ev'[u] = ev[u],
           next'[u] = next[u]
    PROVE  DeterminedAt(u)'
<1>1. CASE Busy(u)
  <2>1. ~Finish(u)
    BY <1>1, FinishElse DEF Busy, Inductive, TypeOK
  <2>2. changes'[job[u]] = changes[job[u]]
    BY <1>1, <2>1, HeldChangeStays
  <2>3. ev[u].origin \in CorpusState
    BY <1>1 DEF Inductive, TypeOK, WorkersOK, Evaluation
  <2>4. PagesKnown(ev[u].origin.pages) => PagesKnown(ev[u].origin.pages)'
    <3> DEFINE P == ev[u].origin.pages
    <3> SUFFICES ASSUME PagesKnown(P) PROVE PagesKnown(P)'
      OBVIOUS
    <3>1. \A i \in PageIds :
              /\ P[i].revision <= corpus'.pages[i].revision
              /\ P[i].revision = corpus'.pages[i].revision =>
                    P[i] = corpus'.pages[i]
      BY <2>3, KnownStaysKnown, OriginNumbered
    <3> QED BY <3>1 DEF PagesKnown
  <2> QED BY <2>2, <2>4 DEF DeterminedAt
<1>2. CASE ~Busy(u)
  BY <1>2 DEF DeterminedAt, Busy
<1> QED BY <1>1, <1>2

\* An evaluation that starts is one of no operations.
LEMMA StartDetermined ==
    ASSUME NEW c, NEW change, change.ops \in Seq(Ops)
    PROVE  IsEvaluation(StartEvaluation(c, change.base), change, 1)
<1>1. StartEvaluation(c, change.base).origin = c
  BY DEF StartEvaluation
<1>2. Evaluations(c, change.base, change.ops)[0] =
      StartEvaluation(c, change.base)
  BY EvaluationsRun
<1> QED BY <1>1, <1>2 DEF IsEvaluation

\* The evaluation of one more operation.
LEMMA NextDetermined ==
    ASSUME NEW change, change.ops \in Seq(Ops), NEW n \in 1..Len(change.ops),
           NEW e \in Evaluation, IsEvaluation(e, change, n)
    PROVE  IsEvaluation(Evaluate(e, change.ops[n]), change, n + 1)
<1>1. Evaluate(e, change.ops[n]).origin = e.origin
  BY EvaluateOrigin
<1>2. Evaluations(e.origin, change.base, change.ops)[n] =
      Evaluate(e, change.ops[n])
  BY EvaluationsRun DEF IsEvaluation
<1> QED BY <1>1, <1>2 DEF IsEvaluation

\* Every step keeps evaluations determined by corpus and change.
LEMMA StepDetermined ==
    ASSUME Inductive, EvaluationsDetermined, [Next]_vars
    PROVE  EvaluationsDetermined'
<1> SUFFICES ASSUME NEW u \in Workers
             PROVE  DeterminedAt(u)'
  BY DEF EvaluationsDetermined, DeterminedAt
<1> DEFINE Stays == /\ pc'[u] = pc[u] /\ job'[u] = job[u]
                    /\ ev'[u] = ev[u] /\ next'[u] = next[u]
           Elsewhere == pc'[u] \notin {"loading", "validating", "publishing"}
<1>0. DeterminedAt(u)
  BY DEF EvaluationsDetermined, DeterminedAt
<1>1. Stays => DeterminedAt(u)'
  BY <1>0, StayingDetermined
<1>2. Elsewhere => DeterminedAt(u)'
  BY DEF DeterminedAt
<1>3. WorkersOK /\ TablesOK
  BY DEF Inductive, TypeOK
<1>4. ASSUME NEW w \in Workers, Finish(w)
      PROVE  Stays \/ Elsewhere
  BY <1>3, <1>4, FinishElse
<1>5. ASSUME NEW w \in Workers, NEW c \in Changes,
             BeginAdd(w, c) \/ RequestPublish(w, c)
      PROVE  Stays \/ Elsewhere
  BY <1>3, <1>5 DEF BeginAdd, RequestPublish, Reach, WorkersOK
<1>6. ASSUME NEW w \in Workers, NEW c \in Changes, NEW i \in PageIds,
             NEW v \in versions[i], RollbackPage(w, c, i, v)
      PROVE  Stays \/ Elsewhere
  BY <1>3, <1>6 DEF RollbackPage, Reach, WorkersOK
<1>7. ASSUME NEW w \in Workers, TakePublicationLock(w)
      PROVE  Stays \/ Elsewhere
  BY <1>3, <1>7 DEF TakePublicationLock, Reach, WorkersOK
<1>8. UNCHANGED <<pc, job, ev, next>> => Stays
  OBVIOUS
<1>9. ASSUME NEW w \in Workers, NEW c \in Changes, BeginValidate(w, c)
      PROVE  DeterminedAt(u)'
  <2>1. CASE u # w
    <3>1. Stays
      BY <1>3, <1>9, <2>1 DEF BeginValidate, WorkersOK
    <3> QED BY <1>1, <3>1
  <2>2. CASE u = w
    <3>1. /\ pc'[u] = "loading" /\ corpus' = corpus
          /\ ev'[u] = StartEvaluation(corpus, None)
      BY <1>3, <1>9, <2>2 DEF BeginValidate, WorkersOK
    <3>2. ev'[u].origin.pages = corpus.pages
      BY <3>1 DEF StartEvaluation
    <3>3. \A i \in PageIds : corpus.pages[i].revision \in Nat
      BY <1>3, OriginNumbered DEF TablesOK
    <3> QED BY <3>1, <3>2, <3>3 DEF DeterminedAt, PagesKnown
  <2> QED BY <2>1, <2>2
<1>10. ASSUME NEW w \in Workers, LoadRoutes(w)
       PROVE  DeterminedAt(u)'
  <2>1. CASE u # w
    <3>1. Stays
      BY <1>3, <1>10, <2>1 DEF LoadRoutes, WorkersOK
    <3> QED BY <1>1, <3>1
  <2>2. CASE u = w
    <3> DEFINE torn == [corpus EXCEPT !.pages = ev[w].origin.pages]
               change == changes[job[u]]
    <3>1. /\ pc[u] = "loading" /\ pc'[u] = "validating" /\ corpus' = corpus
          /\ next'[u] = 1 /\ job'[u] = job[u] /\ changes' = changes
          /\ ev'[u] = StartEvaluation(torn, change.base)
      BY <1>3, <1>10, <2>2 DEF LoadRoutes, WorkersOK
    <3>2. torn.pages = ev[u].origin.pages
      BY <1>3, <2>2 DEF TablesOK, CorpusState
    <3>3. change.ops \in Seq(Ops)
      BY <1>3, <3>1 DEF TablesOK, WorkersOK, Change
    <3> HIDE DEF torn, change
    <3>4. IsEvaluation(ev'[u], change, 1) /\ ev'[u].origin = torn
      BY <3>1, <3>3, StartDetermined DEF StartEvaluation
    <3>5. PagesKnown(ev[u].origin.pages)
      BY <1>0, <3>1 DEF DeterminedAt
    <3>6. PagesKnown(ev[u].origin.pages)'
      BY <3>1, <3>2, <3>4, <3>5 DEF PagesKnown
    <3>7. IsEvaluation(ev[u], changes[job[u]], next[u])'
      BY <3>1, <3>4 DEF change
    <3> QED BY <3>1, <3>6, <3>7 DEF DeterminedAt
  <2> QED BY <2>1, <2>2
<1>11. ASSUME NEW w \in Workers, LockChangeAndPages(w)
       PROVE  DeterminedAt(u)'
  <2>1. CASE u # w
    <3>1. Stays
      BY <1>3, <1>11, <2>1 DEF LockChangeAndPages, WorkersOK
    <3> QED BY <1>1, <3>1
  <2>2. CASE u = w
    <3> DEFINE change == changes[job[u]]
    <3>1. /\ pc[u] = "locked" /\ pc'[u] = "publishing"
          /\ next'[u] = 1 /\ job'[u] = job[u] /\ changes' = changes
          /\ ev'[u] = StartEvaluation(corpus, change.base)
      BY <1>3, <1>11, <2>2 DEF LockChangeAndPages, WorkersOK
    <3>2. change.ops \in Seq(Ops)
      BY <1>3, <3>1 DEF TablesOK, WorkersOK, Change
    <3> HIDE DEF change
    <3>3. IsEvaluation(ev'[u], change, 1)
      BY <3>1, <3>2, StartDetermined
    <3>4. IsEvaluation(ev[u], changes[job[u]], next[u])'
      BY <3>1, <3>3 DEF change
    <3> QED BY <3>1, <3>4 DEF DeterminedAt
  <2> QED BY <2>1, <2>2
<1>12. ASSUME NEW w \in Workers, EvaluateNext(w)
       PROVE  DeterminedAt(u)'
  <2>1. CASE u # w
    <3>1. Stays
      BY <1>3, <1>12, <2>1 DEF EvaluateNext, WorkersOK
    <3> QED BY <1>1, <3>1
  <2>2. CASE u = w
    <3> DEFINE change == changes[job[u]]
    <3>1. /\ pc[u] \in {"validating", "publishing"} /\ pc'[u] = pc[u]
          /\ corpus' = corpus /\ job'[u] = job[u] /\ changes' = changes
          /\ ev[u] \in Evaluation /\ change.ops \in Seq(Ops)
          /\ next[u] \in 1..Len(change.ops)
          /\ next'[u] = next[u] + 1
          /\ ev'[u] = Evaluate(ev[u], change.ops[next[u]])
      BY <1>3, <1>12, <2>2
      DEF EvaluateNext, WorkersOK, TablesOK, Change, Busy
    <3>2. IsEvaluation(ev[u], change, next[u])
      BY <1>0, <3>1 DEF DeterminedAt
    <3> HIDE DEF change
    <3>3. IsEvaluation(ev'[u], change, next'[u])
      BY <3>1, <3>2, NextDetermined
    <3>4. ev'[u].origin = ev[u].origin
      BY <3>1, EvaluateOrigin
    <3>5. PagesKnown(ev[u].origin.pages) => PagesKnown(ev[u].origin.pages)'
      BY <3>1, <3>4 DEF PagesKnown
    <3>6. IsEvaluation(ev[u], changes[job[u]], next[u])'
      BY <3>1, <3>3 DEF change
    <3> QED BY <1>0, <3>1, <3>5, <3>6 DEF DeterminedAt
  <2> QED BY <2>1, <2>2
<1> HIDE DEF Stays, Elsewhere
<1> QED
  BY <1>1, <1>2, <1>4, <1>5, <1>6, <1>7, <1>8, <1>9, <1>10, <1>11, <1>12
  DEF Next, WorkerStep, vars, CreateChange, AbandonChange, InsertOperation,
      FinishValidate, ReturnSettled, RejectPublish, FailPublish,
      CommitPublish, Crash

\* A worker that has evaluated every operation holds the whole evaluation.
LEMMA WholeEvaluation ==
    ASSUME Inductive, EvaluationsDetermined, NEW w \in Workers,
           pc[w] \in {"validating", "publishing"}, Evaluated(w)
    PROVE  LET change == changes[job[w]] IN
           /\ job[w] \in Changes /\ change.ops \in Seq(Ops)
           /\ ev[w].origin \in CorpusState
           /\ Result(w) =
                RepairLinks(Evaluations(ev[w].origin, change.base, change.ops)
                                [Len(change.ops)])
           /\ ChangePasses(w) <=>
                WouldPass(ev[w].origin, change.base, change.ops)
<1> DEFINE change == changes[job[w]]
<1>1. /\ job[w] \in Changes /\ change.ops \in Seq(Ops)
      /\ ev[w] \in Evaluation /\ next[w] \in Nat
  BY DEF Inductive, TypeOK, TablesOK, WorkersOK, Change, Busy
<1>2. IsEvaluation(ev[w], change, next[w])
  BY DEF EvaluationsDetermined
<1>3. next[w] = Len(change.ops) + 1
  BY <1>1, <1>2 DEF IsEvaluation, Evaluated
<1>4. ev[w] = Evaluations(ev[w].origin, change.base, change.ops)
                 [Len(change.ops)]
  BY <1>1, <1>2, <1>3 DEF IsEvaluation
<1>5. ev[w].origin \in CorpusState
  BY <1>1 DEF Evaluation
<1>6. Result(w) =
        RepairLinks(Evaluations(ev[w].origin, change.base, change.ops)
                        [Len(change.ops)])
  BY <1>4 DEF Result
<1>7. ChangePasses(w) <=> WouldPass(ev[w].origin, change.base, change.ops)
  BY <1>6 DEF ChangePasses, WouldPass
<1> QED BY <1>1, <1>5, <1>6, <1>7

\* A recorded validation stays backed by a corpus it passes on.
LEMMA StepBacked ==
    ASSUME Inductive, Determined, [Next]_vars
    PROVE  ValidationsBacked'
<1> USE DEF Determined
<1> SUFFICES ASSUME NEW c \in Changes, changes'[c].status = "VALIDATED"
             PROVE  \E O \in CorpusState : Validates(O, changes[c])'
  BY DEF ValidationsBacked
<1>1. CASE changes'[c] = changes[c]
  <2>1. PICK O \in CorpusState : Validates(O, changes[c])
    BY <1>1 DEF ValidationsBacked
  <2>2. \A i \in PageIds :
            /\ O.pages[i].revision <= corpus'.pages[i].revision
            /\ O.pages[i].revision = corpus'.pages[i].revision =>
                  O.pages[i] = corpus'.pages[i]
    BY <2>1, KnownStaysKnown, OriginNumbered DEF Validates
  <2>3. PagesKnown(O.pages)'
    BY <2>2 DEF PagesKnown
  <2>4. Validates(O, changes[c])'
    BY <1>1, <2>1, <2>3 DEF Validates
  <2> QED BY <2>4
<1>2. ASSUME NEW w \in Workers, FinishValidate(w), job[w] = c
      PROVE  \E O \in CorpusState : Validates(O, changes[c])'
  <2> DEFINE O == ev[w].origin
             change == changes[c]
  <2>1. /\ pc[w] = "validating" /\ Evaluated(w) /\ corpus' = corpus
        /\ changes' = [changes EXCEPT
              ![c].status = IF ChangePasses(w) THEN "VALIDATED" ELSE "DRAFT",
              ![c].summary = StateIdentity(ev[w].origin)]
    BY <1>2 DEF FinishValidate
  <2>2. /\ change \in Change
        /\ changes = [d \in Changes |-> changes[d]]
    BY DEF Inductive, TypeOK, TablesOK
  <2>3. /\ changes'[c].status = IF ChangePasses(w) THEN "VALIDATED" ELSE "DRAFT"
        /\ changes'[c].summary = StateIdentity(O)
        /\ changes'[c].base = change.base /\ changes'[c].ops = change.ops
    BY <2>1, <2>2 DEF Change
  <2>4. ChangePasses(w)
    BY <2>3
  <2>5. O \in CorpusState /\ WouldPass(O, change.base, change.ops)
    BY <1>2, <2>1, <2>4, WholeEvaluation
  <2>6. PagesKnown(O.pages)
    BY <2>1 DEF EvaluationsDetermined
  <2> HIDE DEF O, change
  <2>7. \A i \in PageIds :
            /\ O.pages[i].revision <= corpus'.pages[i].revision
            /\ O.pages[i].revision = corpus'.pages[i].revision =>
                  O.pages[i] = corpus'.pages[i]
    BY <2>1, <2>6 DEF PagesKnown
  <2>8. PICK Q \in CorpusState : Q = O
    BY <2>5
  <2>9. PagesKnown(Q.pages)'
    BY <2>7, <2>8 DEF PagesKnown
  <2>10. Validates(Q, changes[c])'
    BY <2>3, <2>5, <2>8, <2>9 DEF Validates
  <2> QED BY <2>10
<1>3. ASSUME NEW d \in Changes, Atomic!Prepare(d),
             changes'[d].status = "VALIDATED" =>
                \E w \in Workers : FinishValidate(w) /\ job[w] = d
      PROVE  \E O \in CorpusState : Validates(O, changes[c])'
  BY <1>1, <1>2, <1>3 DEF Atomic!Prepare
<1>4. ASSUME NEW w \in Workers, CommitPublish(w)
      PROVE  changes'[c] = changes[c]
  BY <1>4, CommitStatus
<1> QED BY <1>1, <1>3, <1>4, StepPrepares

\* At the start nothing is evaluated or validated.
LEMMA InitDetermined == Init => Determined
BY DEF Init, Determined, UnopenedIsEmpty, EvaluationsDetermined,
       ValidationsBacked, NoChange

\* What an evaluation holds is determined by its corpus and its change.
LEMMA DeterminedHolds == Spec => []Determined
<1>1. Inductive /\ Determined /\ [Next]_vars => Determined'
  BY StepUnopened, StepDetermined, StepBacked DEF Determined
<1> QED BY Invariant, InitDetermined, <1>1, PTL DEF Spec

\* Known pages with the identity of the corpus are the corpus.
LEMMA SameIdentity ==
    ASSUME Inductive, NEW O \in CorpusState, PagesKnown(O.pages),
           StateIdentity(O) = StateIdentity(corpus)
    PROVE  O = corpus
<1>1. corpus \in CorpusState
  BY DEF Inductive, TypeOK, TablesOK
<1>2. /\ O.redirects = corpus.redirects /\ O.sections = corpus.sections
      /\ \A i \in PageIds : O.pages[i].revision = corpus.pages[i].revision
  BY DEF StateIdentity
<1>3. \A i \in PageIds : O.pages[i] = corpus.pages[i]
  BY <1>2 DEF PagesKnown
<1>4. O.pages = corpus.pages
  BY <1>1, <1>3 DEF CorpusState
<1> QED BY <1>1, <1>2, <1>4 DEF CorpusState

\* A validated change whose recorded identity is the corpus's passes there.
LEMMA ValidatedPasses ==
    ASSUME Inductive, Determined, NEW w \in Workers,
           pc[w] = "publishing", Evaluated(w),
           changes[job[w]].status = "VALIDATED",
           changes[job[w]].summary = StateIdentity(corpus)
    PROVE  ChangePasses(w)
<1> DEFINE change == changes[job[w]]
<1>1. job[w] \in Changes /\ ev[w].origin = corpus
  BY DEF Inductive, TypeOK, WorkersOK, NoRevisionRace
<1>2. PICK O \in CorpusState : Validates(O, change)
  BY <1>1 DEF Determined, ValidationsBacked
<1>3. O = corpus
  BY <1>2, SameIdentity DEF Validates
<1>4. WouldPass(corpus, change.base, change.ops)
  BY <1>2, <1>3 DEF Validates
<1> QED BY <1>1, <1>4, WholeEvaluation DEF Determined

\* A change that was validated against the state the corpus is in is not
\* rejected by its publication, whatever happened in between.
THEOREM ValidationsPredict == Spec => ValidationPredicts
<1>1. ASSUME Inductive, Determined, [Next]_vars, NEW w \in Workers,
             pc[w] = "publishing",
             changes[job[w]].status = "VALIDATED",
             changes[job[w]].summary = StateIdentity(corpus)
      PROVE  changes'[job[w]].status # "DRAFT"
  <2> SUFFICES ASSUME changes'[job[w]].status = "DRAFT"
               PROVE  FALSE
    OBVIOUS
  <2>0. Busy(w) /\ WorkersOK
    BY <1>1 DEF Busy, Inductive, TypeOK
  <2>1. Finish(w)
    BY <1>1, <2>0, HeldChangeStays
  <2>2. pc'[w] # pc[w] /\ changes' # changes
    BY <1>1, <2>0, <2>1, FinishElse
  <2>3. ASSUME NEW u \in Workers, u # w
        PROVE  ~Finish(u)
    BY <2>0, <2>2, <2>3, FinishElse
  <2>4. ~RejectPublish(w)
    BY <1>1, ValidatedPasses DEF RejectPublish
  <2>5. ~CommitPublish(w)
    BY <1>1, CommitStatus
  <2>6. \A u \in Workers, c \in Changes, i \in PageIds : \A v :
           ~RollbackPage(u, c, i, v)
    BY <1>1, <2>0, <2>2 DEF RollbackPage, Reach, WorkersOK
  <2>7. /\ ~UNCHANGED vars
        /\ \A c \in Changes : ~AbandonChange(c) /\ \A base : ~CreateChange(c, base)
    BY <2>2 DEF vars, AbandonChange, CreateChange
  <2>8. \A u \in Workers :
           /\ \A o : ~InsertOperation(u, o)
           /\ ~FinishValidate(u) /\ ~RejectPublish(u) /\ ~CommitPublish(u)
    BY <1>1, <2>3, <2>4, <2>5
    DEF InsertOperation, FinishValidate, RejectPublish, CommitPublish
  <2> QED
    BY <1>1, <2>2, <2>6, <2>7, <2>8
    DEF Next, WorkerStep, BeginAdd, BeginValidate, RequestPublish, LoadRoutes,
        EvaluateNext, TakePublicationLock, ReturnSettled, LockChangeAndPages,
        FailPublish, Crash
<1> DEFINE Predicts ==
             \A w \in Workers :
                /\ pc[w] = "publishing"
                /\ changes[job[w]].status = "VALIDATED"
                /\ changes[job[w]].summary = StateIdentity(corpus)
                => changes'[job[w]].status # "DRAFT"
<1>2. Inductive /\ Determined /\ [Next]_vars => Predicts
  BY <1>1
<1> QED BY Invariant, DeterminedHolds, <1>2, PTL DEF Spec, ValidationPredicts

\* The abstract specification evaluates as publication does.
LEMMA SameOutcome ==
    ASSUME NEW c
    PROVE  Atomic!Outcome(c) =
             RepairLinks(Evaluations(corpus, changes[c].base, changes[c].ops)
                             [Len(changes[c].ops)])
<1>1. \A x, o : Atomic!Evaluate(x, o) = Evaluate(x, o)
  BY DEF Atomic!Evaluate, Evaluate, Atomic!Accepts, Accepts,
         Atomic!Current, Current, Atomic!PageOpTypes, PageOpTypes,
         Atomic!Entries, Entries, Atomic!Existing, Existing,
         Atomic!ActiveEntries, ActiveEntries, Atomic!Sources, Sources,
         Atomic!ApplyPageOp, ApplyPageOp, Atomic!Edited, Edited,
         Atomic!ApplyCreate, ApplyCreate, Atomic!ApplyRouteOp, ApplyRouteOp
<1>2. \A x, b : Atomic!StartEvaluation(x, b) = StartEvaluation(x, b)
  BY DEF Atomic!StartEvaluation, StartEvaluation, Atomic!NoMoves, NoMoves,
         Atomic!StateIdentity, StateIdentity
<1>3. \A x, b, o : Atomic!Evaluations(x, b, o) = Evaluations(x, b, o)
  BY <1>1, <1>2 DEF Atomic!Evaluations, Evaluations
<1>4. \A x : Atomic!RepairLinks(x) = RepairLinks(x)
  BY DEF Atomic!RepairLinks, RepairLinks, Atomic!Sources, Sources,
         Atomic!Repairable, Repairable, Atomic!Active, Active,
         Atomic!Retarget, Retarget
<1> QED BY <1>3, <1>4 DEF Atomic!Outcome

\* A commit is the atomic publication of the worker's change.
LEMMA CommitIsAtomic ==
    ASSUME Inductive, Determined, NEW w \in Workers, CommitPublish(w)
    PROVE  Atomic!Publish(job[w])
<1> DEFINE c == job[w]
<1>1. /\ pc[w] = "publishing" /\ Evaluated(w) /\ ChangePasses(w)
      /\ ~UniqueViolation(Result(w)) /\ corpus' = Written(Result(w))
  BY DEF CommitPublish
<1>2. ev[w].origin = corpus /\ Mutable(c)
  BY <1>1 DEF Inductive, NoRevisionRace, PublicationChecks
<1>3. Atomic!Outcome(c) = Result(w)
  BY <1>1, <1>2, WholeEvaluation, SameOutcome DEF Determined
<1>4. Atomic!Passed(Result(w))
  BY <1>1 DEF ChangePasses, Passed, Atomic!Passed, Sound, Atomic!Sound,
              PathsDistinct, Atomic!PathsDistinct, RedirectsSound,
              Atomic!RedirectsSound, NavSound, Atomic!NavSound,
              ActiveEntries, Atomic!ActiveEntries, Entries, Atomic!Entries,
              Existing, Atomic!Existing, Sources, Atomic!Sources,
              LivePaths, Atomic!LivePaths
<1>5. ~Atomic!UniqueViolation(Result(w))
  BY <1>1 DEF UniqueViolation, Atomic!UniqueViolation,
              PathWhenWriting, Atomic!PathWhenWriting
<1>6. corpus' = Atomic!Written(Result(w))
  BY <1>1 DEF Written, Atomic!Written
<1>7. changes[c].ops # <<>>
  BY <1>1 DEF ChangePasses
<1>8. changes' = [changes EXCEPT ![c].status = "PUBLISHED",
                                 ![c].summary = changes'[c].summary]
  BY CommitStatus
<1> HIDE DEF c
<1> QED
  BY <1>2, <1>3, <1>4, <1>5, <1>6, <1>7, <1>8
  DEF Atomic!Publish, Mutable, c

\* Publishing is atomic: with any number of workers, seen through the corpus
\* and the changes, every behaviour is one of whole publications.
THEOREM PublicationsAreAtomic == Spec => PublicationIsAtomic
<1>1. Init => Atomic!Init
  BY DEF Init, Atomic!Init, NoChange
<1>2. Inductive /\ Determined /\ [Next]_vars
        => [Atomic!Next]_<<corpus, changes>>
  BY StepPrepares, CommitIsAtomic, CommitStatus DEF Determined, Atomic!Next
<1> QED
  BY Invariant, DeterminedHolds, <1>1, <1>2, PTL
  DEF Spec, PublicationIsAtomic, Atomic!Spec

-----------------------------------------------------------------------------
(***************************************************************************)
(* Links and moves.                                                        *)
(***************************************************************************)

\* Committed pages keep distinct paths: rows are written one by one under
\* UNIQUE (path).
LEMMA StepPathsUnique ==
    ASSUME Inductive, PathsUnique, [Next]_vars
    PROVE  PathsUnique'
<1>1. CASE UNCHANGED <<corpus, versions>>
  BY <1>1 DEF PathsUnique, Existing
<1>2. ASSUME NEW w \in Workers, CommitPublish(w)
      PROVE  PathsUnique'
  <2> DEFINE r == Result(w)
  <2>1. /\ r \in Evaluation /\ r.origin = corpus /\ CandidateKept(r)
        /\ \A i \in PageIds :
              corpus'.pages[i] =
                 IF i \in r.touched
                 THEN [r.cand.pages[i] EXCEPT !.revision =
                         IF i \in r.created THEN 1
                         ELSE corpus.pages[i].revision + 1]
                 ELSE corpus.pages[i]
    BY <1>2, CommitRows
  <2>2. ~UniqueViolation(r)
    BY <1>2 DEF CommitPublish
  <2> HIDE DEF r
  <2>3. \A i \in PageIds :
           /\ r.cand.pages[i] \in Page /\ corpus.pages[i] \in Page
           /\ i \in Nat
    BY <2>1, PageIdsAssumption DEF Evaluation, CorpusState
  <2>4. \A i \in PageIds :
           /\ corpus'.pages[i].path = IF i \in r.touched
                                      THEN r.cand.pages[i].path
                                      ELSE corpus.pages[i].path
           /\ i \notin r.touched =>
                 corpus'.pages[i].status = corpus.pages[i].status
    BY <2>1, <2>3 DEF Page, Row, AbsentPage
  <2>5. \A k \in r.touched : \A j \in PageIds \ {k} :
           (IF j \in r.touched /\ j < k THEN r.cand.pages[j].path
            ELSE corpus.pages[j].path) # r.cand.pages[k].path
    BY <2>1, <2>2 DEF UniqueViolation, PathWhenWriting
  <2>6. r.touched \subseteq PageIds
    BY <2>1 DEF Evaluation
  <2> SUFFICES ASSUME NEW i \in Existing(corpus.pages)',
                      NEW j \in Existing(corpus.pages)',
                      corpus'.pages[i].path = corpus'.pages[j].path, i # j
               PROVE  FALSE
    BY DEF PathsUnique
  <2>7. i \in PageIds /\ j \in PageIds
    BY DEF Existing
  <2>8. CASE i \notin r.touched /\ j \notin r.touched
    BY <2>4, <2>7, <2>8 DEF PathsUnique, Existing
  <2>9. CASE i \in r.touched /\ (j \in r.touched => j < i)
    BY <2>4, <2>5, <2>7, <2>9
  <2>10. CASE j \in r.touched /\ (i \in r.touched => i < j)
    BY <2>4, <2>5, <2>7, <2>10
  <2> QED BY <2>3, <2>7, <2>8, <2>9, <2>10
<1> QED BY <1>1, <1>2, OnlyCommitWrites

\* A working copy that keeps paths, links, revisions and moves.
LEMMA QuietMoves ==
    ASSUME NEW e \in Evaluation, NEW f, NEW ops \in Seq(Ops),
           NEW n \in 1..Len(ops), MovesTracked(e, ops, n),
           f.origin = e.origin, f.ok = e.ok, f.moves = e.moves,
           f.created = e.created, ops[n].type # "MOVE_PAGE",
           \A i \in PageIds :
              /\ f.cand.pages[i].path = e.cand.pages[i].path
              /\ f.cand.pages[i].revision = e.cand.pages[i].revision
              /\ \/ f.cand.pages[i].links = e.cand.pages[i].links
                 \/ /\ ops[n].type \in {"REPLACE_DOCUMENT", "PATCH_TEXT"}
                    /\ ops[n].page = i
    PROVE  MovesTracked(f, ops, n + 1)
<1>0. /\ n \in Nat /\ Len(ops) \in Nat
      /\ \A k \in 1..Len(ops) : k < n => k < n + 1
      /\ \A k \in 1..Len(ops) : k < n + 1 => k < n \/ k = n
      /\ n < n + 1
  OBVIOUS
<1> SUFFICES ASSUME e.ok, Untouched(e, ops, n),
                    MovesOnce(ops) => Moved(e, ops, n)
             PROVE  /\ Untouched(f, ops, n + 1)
                    /\ MovesOnce(ops) => Moved(f, ops, n + 1)
  BY DEF MovesTracked
<1>1. Untouched(f, ops, n + 1)
  BY <1>0 DEF Untouched
<1>2. ASSUME Moved(e, ops, n)
      PROVE  Moved(f, ops, n + 1)
  <2>1. ASSUME NEW k \in 1..Len(ops), NEW i \in PageIds, k < n + 1,
               Moves(ops[k], i)
        PROVE  /\ f.origin.pages[i].status # "absent"
               /\ f.moves[f.origin.pages[i].path] = ops[k].to
               /\ i \notin f.created => f.cand.pages[i].path = ops[k].to
    <3>1. k # n
      BY <2>1 DEF Moves
    <3>2. k < n
      BY <1>0, <2>1, <3>1
    <3>3. /\ e.origin.pages[i].status # "absent"
          /\ e.moves[e.origin.pages[i].path] = ops[k].to
          /\ i \notin e.created => e.cand.pages[i].path = ops[k].to
      BY <1>2, <2>1, <3>2 DEF Moved
    <3>4. i \notin f.created =>
             i \notin e.created /\ f.cand.pages[i].path = e.cand.pages[i].path
      OBVIOUS
    <3> QED BY <3>3, <3>4
  <2>2. ASSUME NEW s \in Paths, f.moves[s] # None
        PROVE  \E k \in 1..Len(ops), i \in PageIds :
                  /\ k < n + 1 /\ Moves(ops[k], i)
                  /\ f.origin.pages[i].path = s
    <3>1. PICK k \in 1..Len(ops), i \in PageIds :
             k < n /\ Moves(ops[k], i) /\ e.origin.pages[i].path = s
      BY <1>2, <2>2 DEF Moved
    <3> QED BY <1>0, <3>1
  <2> QED BY <2>1, <2>2 DEF Moved
<1> QED BY <1>1, <1>2

\* A page created in the evaluation leaves what was moved before.
LEMMA CreateMoves ==
    ASSUME NEW e \in Evaluation, NEW f, NEW ops \in Seq(Ops),
           NEW n \in 1..Len(ops), MovesTracked(e, ops, n),
           f.origin = e.origin, f.ok = e.ok, f.moves = e.moves,
           ops[n].type = "CREATE_PAGE", f.created = e.created \cup {ops[n].id},
           f.cand.pages[ops[n].id].revision = 0,
           \A i \in PageIds \ {ops[n].id} :
              f.cand.pages[i] = e.cand.pages[i]
    PROVE  MovesTracked(f, ops, n + 1)
<1>0. /\ n \in Nat /\ Len(ops) \in Nat
      /\ \A k \in 1..Len(ops) : k < n => k < n + 1
      /\ \A k \in 1..Len(ops) : k < n + 1 => k < n \/ k = n
      /\ n < n + 1
  OBVIOUS
<1> SUFFICES ASSUME e.ok, Untouched(e, ops, n),
                    MovesOnce(ops) => Moved(e, ops, n)
             PROVE  /\ Untouched(f, ops, n + 1)
                    /\ MovesOnce(ops) => Moved(f, ops, n + 1)
  BY DEF MovesTracked
<1>1. Untouched(f, ops, n + 1)
  BY <1>0 DEF Untouched
<1>2. ASSUME Moved(e, ops, n)
      PROVE  Moved(f, ops, n + 1)
  <2>1. ASSUME NEW k \in 1..Len(ops), NEW i \in PageIds, k < n + 1,
               Moves(ops[k], i)
        PROVE  /\ f.origin.pages[i].status # "absent"
               /\ f.moves[f.origin.pages[i].path] = ops[k].to
               /\ i \notin f.created => f.cand.pages[i].path = ops[k].to
    <3>1. k # n
      BY <2>1 DEF Moves
    <3>2. k < n
      BY <1>0, <2>1, <3>1
    <3>3. /\ e.origin.pages[i].status # "absent"
          /\ e.moves[e.origin.pages[i].path] = ops[k].to
          /\ i \notin e.created => e.cand.pages[i].path = ops[k].to
      BY <1>2, <2>1, <3>2 DEF Moved
    <3>4. i \notin f.created =>
             i \notin e.created /\ f.cand.pages[i].path = e.cand.pages[i].path
      OBVIOUS
    <3> QED BY <3>3, <3>4
  <2>2. ASSUME NEW s \in Paths, f.moves[s] # None
        PROVE  \E k \in 1..Len(ops), i \in PageIds :
                  /\ k < n + 1 /\ Moves(ops[k], i)
                  /\ f.origin.pages[i].path = s
    <3>1. PICK k \in 1..Len(ops), i \in PageIds :
             k < n /\ Moves(ops[k], i) /\ e.origin.pages[i].path = s
      BY <1>2, <2>2 DEF Moved
    <3> QED BY <1>0, <3>1
  <2> QED BY <2>1, <2>2 DEF Moved
<1> QED BY <1>1, <1>2

\* The working copy f is e with page q moved by o, and q was there from the
\* start.
MovesPage(e, f, o, q) ==
    /\ o.to \in Paths /\ e.ok
    /\ q \notin e.created /\ e.origin.pages[q].status # "absent"
    /\ f.origin = e.origin /\ f.ok = e.ok /\ f.created = e.created
    /\ f.moves = [e.moves EXCEPT ![e.cand.pages[q].path] = o.to]
    /\ f.cand.pages[q].path = o.to
    /\ f.cand.pages[q].links = e.cand.pages[q].links
    /\ \A i \in PageIds \ {q} : f.cand.pages[i] = e.cand.pages[i]

DistinctPaths(pages) == \A i, j \in Existing(pages) :
    pages[i].path = pages[j].path => i = j

\* A move is recorded under the path the page came from, which no other page
\* had.
LEMMA MoveMoves ==
    ASSUME NEW e \in Evaluation, NEW f, NEW ops \in Seq(Ops),
           NEW n \in 1..Len(ops), MovesTracked(e, ops, n),
           NEW q \in PageIds, Moves(ops[n], q), MovesPage(e, f, ops[n], q),
           DistinctPaths(e.origin.pages)
    PROVE  MovesTracked(f, ops, n + 1)
<1> USE DEF MovesPage, DistinctPaths
<1> DEFINE to == ops[n].to
           p == e.cand.pages[q].path
<1>a. /\ to \in Paths /\ to = ops[n].to /\ p = e.cand.pages[q].path
      /\ f.moves = [e.moves EXCEPT ![p] = to] /\ f.cand.pages[q].path = to
  OBVIOUS
<1> HIDE DEF to, p
<1>0. /\ n \in Nat /\ Len(ops) \in Nat
      /\ \A k \in 1..Len(ops) : k < n => k < n + 1
      /\ \A k \in 1..Len(ops) : k < n + 1 => k < n \/ k = n
      /\ n < n + 1
  OBVIOUS
<1>1. \A i \in PageIds : Moves(ops[n], i) <=> i = q
  BY DEF Moves
<1>2. Untouched(e, ops, n) /\ (MovesOnce(ops) => Moved(e, ops, n))
  BY DEF MovesTracked
<1>3. Untouched(f, ops, n + 1)
  <2> SUFFICES ASSUME NEW i \in PageIds
               PROVE  IF i \in e.created THEN f.cand.pages[i].revision = 0
                      ELSE /\ \/ f.cand.pages[i].path = e.origin.pages[i].path
                              \/ \E k \in 1..Len(ops) :
                                    k < n + 1 /\ Moves(ops[k], i)
                           /\ \/ f.cand.pages[i].links = e.origin.pages[i].links
                              \/ \E k \in 1..Len(ops) :
                                    /\ k < n + 1
                                    /\ ops[k].type \in
                                          {"REPLACE_DOCUMENT", "PATCH_TEXT"}
                                    /\ ops[k].page = i
    BY DEF Untouched
  <2>1. CASE i = q
    BY <1>0, <1>2, <2>1 DEF Untouched
  <2>2. CASE i # q
    BY <1>0, <1>2, <2>2 DEF Untouched
  <2> QED BY <2>1, <2>2
<1>4. ASSUME MovesOnce(ops)
      PROVE  Moved(f, ops, n + 1)
  <2>0. Moved(e, ops, n)
    BY <1>2, <1>4
  <2>1. \A k \in 1..Len(ops) : k < n => ~Moves(ops[k], q)
    BY <1>0, <1>1, <1>4 DEF MovesOnce
  <2>2. p = e.origin.pages[q].path
    BY <1>a, <1>2, <2>1 DEF Untouched
  <2>3. \A i \in PageIds : e.origin.pages[i].status # "absent" =>
           e.origin.pages[i].path \in Paths
    BY RowOrAbsent DEF Evaluation, CorpusState, Row
  <2>4. p \in Paths /\ e.moves \in Redirects
    BY <2>2, <2>3 DEF Evaluation
  <2>5. /\ f.moves[p] = to
        /\ \A s \in Paths : s # p => f.moves[s] = e.moves[s]
    BY <1>a, <2>4 DEF Redirects
  <2>6. ASSUME NEW k \in 1..Len(ops), NEW i \in PageIds, k < n,
               Moves(ops[k], i)
        PROVE  /\ e.origin.pages[i].status # "absent"
               /\ f.moves[e.origin.pages[i].path] = ops[k].to
               /\ i \notin e.created => f.cand.pages[i].path = ops[k].to
    <3>1. i # q
      BY <2>1, <2>6
    <3>2. /\ e.origin.pages[i].status # "absent"
          /\ e.moves[e.origin.pages[i].path] = ops[k].to
          /\ i \notin e.created => e.cand.pages[i].path = ops[k].to
      BY <2>0, <2>6 DEF Moved
    <3>3. e.origin.pages[i].path # p
      BY <2>2, <3>1, <3>2 DEF Existing
    <3>4. f.moves[e.origin.pages[i].path] = ops[k].to
      BY <2>3, <2>5, <3>2, <3>3
    <3> QED BY <3>1, <3>2, <3>4
  <2>7. ASSUME NEW s \in Paths, f.moves[s] # None
        PROVE  \E k \in 1..Len(ops), i \in PageIds :
                  /\ k < n + 1 /\ Moves(ops[k], i)
                  /\ f.origin.pages[i].path = s
    <3>1. CASE s = p
      BY <1>0, <2>2, <3>1
    <3>2. CASE s # p
      <4>1. PICK k \in 1..Len(ops), i \in PageIds :
               k < n /\ Moves(ops[k], i) /\ e.origin.pages[i].path = s
        BY <2>0, <2>5, <2>7, <3>2 DEF Moved
      <4> QED BY <1>0, <4>1
    <3> QED BY <3>1, <3>2
  <2>8. ASSUME NEW k \in 1..Len(ops), NEW i \in PageIds, k < n + 1,
               Moves(ops[k], i)
        PROVE  /\ f.origin.pages[i].status # "absent"
               /\ f.moves[f.origin.pages[i].path] = ops[k].to
               /\ i \notin f.created => f.cand.pages[i].path = ops[k].to
    <3>0. k < n \/ k = n
      BY <1>0, <2>8
    <3>1. CASE k < n
      <4>1. /\ e.origin.pages[i].status # "absent"
            /\ f.moves[e.origin.pages[i].path] = ops[k].to
            /\ i \notin e.created => f.cand.pages[i].path = ops[k].to
        BY <2>6, <2>8, <3>1
      <4> QED BY <4>1
    <3>2. CASE k = n
      <4>1. i = q
        BY <1>1, <2>8, <3>2
      <4> QED BY <1>a, <2>2, <2>5, <3>2, <4>1
    <3> QED BY <3>0, <3>1, <3>2
  <2>9. \A k \in 1..Len(ops), i \in PageIds : k < n + 1 /\ Moves(ops[k], i) =>
           /\ f.origin.pages[i].status # "absent"
           /\ f.moves[f.origin.pages[i].path] = ops[k].to
           /\ i \notin f.created => f.cand.pages[i].path = ops[k].to
    BY ONLY <2>8
  <2>10. \A s \in Paths : f.moves[s] # None =>
            \E k \in 1..Len(ops), i \in PageIds :
               /\ k < n + 1 /\ Moves(ops[k], i)
               /\ f.origin.pages[i].path = s
    BY ONLY <2>7
  <2> QED BY ONLY <2>9, <2>10 DEF Moved
<1> QED BY <1>3, <1>4 DEF MovesTracked

\* One more operation keeps track of paths, links and moves.
LEMMA EvaluateMoves ==
    ASSUME NEW e \in Evaluation, NEW ops \in Seq(Ops),
           NEW n \in 1..Len(ops), MovesTracked(e, ops, n), CandidateKept(e),
           DistinctPaths(e.origin.pages)
    PROVE  MovesTracked(Evaluate(e, ops[n]), ops, n + 1)
<1> DEFINE o == ops[n]
           f == Evaluate(e, o)
<1>0. o \in Ops
  OBVIOUS
<1>1. CASE ~Accepts(e, o) \/ ~e.ok
  <2>1. ~f.ok
    BY <1>1 DEF Evaluate, ApplyPageOp, ApplyCreate, ApplyRouteOp, Evaluation
  <2> QED BY <2>1 DEF MovesTracked
<1>2. CASE Accepts(e, o) /\ e.ok /\ o.type \in PageOpTypes
  <2> DEFINE old == e.cand.pages[o.page]
  <2>1. o \in PageOps /\ o.page \in PageIds /\ o.rev \in Nat \ {0}
    BY <1>0, <1>2, OpKinds DEF PageOps
  <2>2. old.status # "absent" /\ old.revision = o.rev
    BY <1>2 DEF Accepts, Current
  <2>3. old \in Row
    BY <2>1, <2>2, RowOrAbsent DEF Evaluation, CorpusState
  <2>4. o.page \notin e.created
    BY <1>2, <2>1, <2>2 DEF MovesTracked, Untouched
  <2>5. e.origin.pages[o.page].status # "absent"
    BY <2>1, <2>2, <2>4 DEF CandidateKept
  <2>6. /\ f.origin = e.origin /\ f.created = e.created /\ f.ok = e.ok
        /\ f.cand.pages = [e.cand.pages EXCEPT ![o.page] = Edited(old, o)]
        /\ f.moves = IF o.type = "MOVE_PAGE"
                     THEN [e.moves EXCEPT ![old.path] = o.to] ELSE e.moves
    BY <1>2 DEF Evaluate, ApplyPageOp, Evaluation, CorpusState
  <2>7. /\ Edited(old, o).path = IF o.type = "MOVE_PAGE" THEN o.to ELSE old.path
        /\ Edited(old, o).links =
              IF o.type \in {"REPLACE_DOCUMENT", "PATCH_TEXT"}
              THEN o.links ELSE old.links
        /\ Edited(old, o).revision = old.revision
    BY <2>3 DEF Edited, Row
  <2>8. /\ f.cand.pages[o.page] = Edited(old, o)
        /\ \A i \in PageIds \ {o.page} : f.cand.pages[i] = e.cand.pages[i]
    BY <2>1, <2>6 DEF Evaluation, CorpusState
  <2>9. o.type = "MOVE_PAGE" => o.to \in Paths /\ Moves(o, o.page)
    BY <2>1 DEF PageOps, Moves
  <2> HIDE DEF f, o, old
  <2>10. CASE o.type = "MOVE_PAGE"
    <3>1. /\ f.cand.pages[o.page].path = o.to
          /\ f.cand.pages[o.page].links = old.links
          /\ f.moves = [e.moves EXCEPT ![old.path] = o.to]
      BY <2>6, <2>7, <2>8, <2>10
    <3>2. MovesPage(e, f, o, o.page)
      BY <1>2, <2>4, <2>5, <2>6, <2>8, <2>9, <2>10, <3>1 DEF MovesPage, old
    <3>3. Moves(o, o.page) /\ o = ops[n]
      BY <2>9, <2>10 DEF o
    <3>4. MovesTracked(f, ops, n + 1)
      BY <2>1, <3>2, <3>3, MoveMoves
    <3> QED BY <3>4 DEF f, o
  <2>11. CASE o.type # "MOVE_PAGE"
    <3>1. \A i \in PageIds :
              /\ f.cand.pages[i].path = e.cand.pages[i].path
              /\ f.cand.pages[i].revision = e.cand.pages[i].revision
              /\ \/ f.cand.pages[i].links = e.cand.pages[i].links
                 \/ /\ o.type \in {"REPLACE_DOCUMENT", "PATCH_TEXT"}
                    /\ o.page = i
      BY <2>7, <2>8, <2>11 DEF old
    <3>2. f.moves = e.moves
      BY <2>6, <2>11
    <3>3. MovesTracked(f, ops, n + 1)
      BY <2>6, <2>11, <3>1, <3>2, QuietMoves DEF o
    <3> QED BY <3>3 DEF f, o
  <2> QED BY <2>10, <2>11
<1>3. CASE Accepts(e, o) /\ e.ok /\ o.type = "CREATE_PAGE"
  <2>1. o.id \in PageIds
    BY <1>0, <1>3, OpKinds DEF CreateOps
  <2>2. /\ f.origin = e.origin /\ f.created = e.created \cup {o.id}
        /\ f.ok = e.ok /\ f.moves = e.moves
        /\ f.cand.pages = [e.cand.pages EXCEPT ![o.id] =
              [path |-> o.path, nav |-> o.nav, body |-> o.body,
               links |-> o.links, revision |-> 0, status |-> "active"]]
    BY <1>3 DEF Evaluate, ApplyCreate, PageOpTypes, Evaluation, CorpusState
  <2>3. /\ f.cand.pages[o.id].revision = 0
        /\ \A i \in PageIds \ {o.id} : f.cand.pages[i] = e.cand.pages[i]
    BY <2>1, <2>2 DEF Evaluation, CorpusState
  <2> HIDE DEF f, o
  <2>4. MovesTracked(f, ops, n + 1)
    BY <1>3, <2>2, <2>3, CreateMoves DEF o
  <2> QED BY <2>4 DEF f, o
<1>4. CASE Accepts(e, o) /\ e.ok /\ o.type \in RouteOpTypes
  <2>1. /\ f.origin = e.origin /\ f.created = e.created
        /\ f.ok = e.ok /\ f.moves = e.moves /\ f.cand.pages = e.cand.pages
        /\ o.type # "MOVE_PAGE"
    BY <1>4 DEF Evaluate, ApplyRouteOp, RouteOpTypes, PageOpTypes, Evaluation,
                CorpusState
  <2> HIDE DEF f, o
  <2>2. MovesTracked(f, ops, n + 1)
    BY <2>1, QuietMoves DEF o
  <2> QED BY <2>2 DEF f, o
<1> QED BY <1>0, <1>1, <1>2, <1>3, <1>4, OpKinds DEF AllOpTypes

\* Publications keep track of paths, links and moves.
LEMMA StepMoves ==
    ASSUME Inductive, Tracked, [Next]_vars
    PROVE  PublicationMoves'
<1> SUFFICES ASSUME NEW u \in Workers, pc'[u] = "publishing"
             PROVE  MovesTracked(ev'[u], changes'[job'[u]].ops, next'[u])
  BY DEF PublicationMoves
<1> DEFINE change == changes[job[u]]
<1>1. /\ change \in Change /\ job'[u] = job[u] /\ changes'[job[u]] = change
      /\ \/ pc[u] = "publishing" /\ ev'[u] = ev[u] /\ next'[u] = next[u]
         \/ /\ Mutable(job[u]) /\ next'[u] = 1
            /\ ev'[u] = StartEvaluation(corpus, change.base)
         \/ /\ pc[u] = "publishing" /\ next[u] \in 1..Len(change.ops)
            /\ ev'[u] = Evaluate(ev[u], change.ops[next[u]])
            /\ next'[u] = next[u] + 1
  BY PublishingSteps
<1>2. change.ops \in Seq(Ops)
  BY <1>1 DEF Change
<1>3. ASSUME pc[u] = "publishing"
      PROVE  /\ ev[u] \in Evaluation /\ CandidateKept(ev[u])
             /\ MovesTracked(ev[u], change.ops, next[u])
             /\ DistinctPaths(ev[u].origin.pages)
  <2>1. ev[u].origin = corpus /\ MovesTracked(ev[u], change.ops, next[u])
    BY <1>3 DEF Inductive, NoRevisionRace, Tracked, PublicationMoves
  <2>2. ev[u] \in Evaluation /\ CandidateKept(ev[u])
    BY <1>3 DEF Inductive, TypeOK, WorkersOK, Busy, EvaluationInv, WorkingCopy
  <2>3. DistinctPaths(ev[u].origin.pages)
    BY <2>1 DEF Tracked, PathsUnique, DistinctPaths
  <2> QED BY <2>1, <2>2, <2>3
<1>4. MovesTracked(StartEvaluation(corpus, change.base), change.ops, 1)
  <2> DEFINE e == StartEvaluation(corpus, change.base)
  <2>1. /\ e.origin = corpus /\ e.cand = corpus /\ e.created = {}
        /\ \A p \in Paths : e.moves[p] = None
    BY DEF StartEvaluation, NoMoves
  <2>2. \A k \in 1..Len(change.ops) : ~(k < 1)
    BY <1>2
  <2> HIDE DEF e, change
  <2>3. MovesTracked(e, change.ops, 1)
    BY <2>1, <2>2 DEF MovesTracked, Untouched, Moved
  <2> QED BY <2>3 DEF e
<1> HIDE DEF change
<1>5. CASE pc[u] = "publishing" /\ ev'[u] = ev[u] /\ next'[u] = next[u]
  BY <1>1, <1>3, <1>5
<1>6. CASE next'[u] = 1 /\ ev'[u] = StartEvaluation(corpus, change.base)
  BY <1>1, <1>4, <1>6
<1>7. CASE /\ pc[u] = "publishing" /\ next[u] \in 1..Len(change.ops)
           /\ ev'[u] = Evaluate(ev[u], change.ops[next[u]])
           /\ next'[u] = next[u] + 1
  <2>1. MovesTracked(Evaluate(ev[u], change.ops[next[u]]), change.ops,
                     next[u] + 1)
    BY <1>2, <1>3, <1>7, EvaluateMoves
  <2> QED BY <1>1, <1>7, <2>1
<1> QED BY <1>1, <1>5, <1>6, <1>7

\* At the start paths are distinct and nobody publishes.
LEMMA InitTracked == Init => Tracked
BY StartAssumption
DEF Init, Imported, Tracked, PathsUnique, PublicationMoves

\* Paths, links and moves of publications are tracked.
LEMMA TrackedHolds == Spec => []Tracked
<1>1. Inductive /\ Tracked /\ [Next]_vars => Tracked'
  BY StepPathsUnique, StepMoves DEF Tracked
<1> QED BY Invariant, InitTracked, <1>1, PTL DEF Spec

\* Link repair rewrites the links of the active pages that were there before,
\* by the map of moves, and no path or status.
LEMMA RepairRewrites ==
    ASSUME NEW e \in Evaluation, e.ok
    PROVE  /\ RepairLinks(e).cand.redirects = e.cand.redirects
           /\ \A i \in PageIds :
                 /\ RepairLinks(e).cand.pages[i].path = e.cand.pages[i].path
                 /\ RepairLinks(e).cand.pages[i].status = e.cand.pages[i].status
           /\ \A i \in Repairable(e) :
                 RepairLinks(e).cand.pages[i].links =
                    Retarget(e.cand.pages[i].links, e.moves)
<1> DEFINE r == RepairLinks(e)
           changed == {i \in Repairable(e) :
                         Retarget(e.cand.pages[i].links, e.moves)
                           # e.cand.pages[i].links}
<1>1. Repairable(e) \subseteq PageIds
  BY DEF Repairable, Active
<1>2. \A i \in PageIds : i \in Repairable(e) => e.cand.pages[i] \in Row
  BY RowOrAbsent DEF Repairable, Active, Evaluation, CorpusState
<1>3. CASE Sources(e.moves) = {}
  <2>1. r = e
    BY <1>3 DEF RepairLinks
  <2>2. \A l \in Paths : e.moves[l] = None
    BY <1>3 DEF Sources
  <2>3. \A i \in Repairable(e) :
           Retarget(e.cand.pages[i].links, e.moves) = e.cand.pages[i].links
    BY <1>1, <1>2, <2>2 DEF Retarget, Row
  <2> QED BY <2>1, <2>3
<1>4. CASE Sources(e.moves) # {}
  <2>1. /\ r.cand.redirects = e.cand.redirects
        /\ \A i \in PageIds : r.cand.pages[i] =
              IF i \in changed
              THEN [e.cand.pages[i] EXCEPT !.links =
                       Retarget(e.cand.pages[i].links, e.moves)]
              ELSE e.cand.pages[i]
    BY <1>4 DEF RepairLinks, Evaluation, CorpusState
  <2>2. \A i \in PageIds : i \in changed =>
           /\ e.cand.pages[i] \in Row /\ i \in Repairable(e)
    BY <1>2
  <2>3. \A i \in Repairable(e) : i \notin changed =>
           Retarget(e.cand.pages[i].links, e.moves) = e.cand.pages[i].links
    OBVIOUS
  <2> HIDE DEF changed, r
  <2>4. \A i \in PageIds : i \in changed =>
           /\ r.cand.pages[i].path = e.cand.pages[i].path
           /\ r.cand.pages[i].status = e.cand.pages[i].status
           /\ r.cand.pages[i].links = Retarget(e.cand.pages[i].links, e.moves)
    BY <2>1, <2>2 DEF Row
  <2>5. \A i \in PageIds : i \notin changed => r.cand.pages[i] = e.cand.pages[i]
    BY <2>1
  <2>6. /\ \A i \in PageIds :
              /\ r.cand.pages[i].path = e.cand.pages[i].path
              /\ r.cand.pages[i].status = e.cand.pages[i].status
        /\ \A i \in Repairable(e) :
              r.cand.pages[i].links = Retarget(e.cand.pages[i].links, e.moves)
    BY <1>1, <2>3, <2>4, <2>5
  <2> QED BY <2>1, <2>6 DEF r
<1> QED BY <1>3, <1>4

\* Where the whole evaluation of moves that happen once sends a path: to the
\* path of the page that had it.
LEMMA MovesLead ==
    ASSUME NEW e \in Evaluation, NEW ops \in Seq(Ops), NEW n,
           \A k \in 1..Len(ops) : k < n,
           e.ok, MovesTracked(e, ops, n), MovesOnce(ops),
           \A i, j \in Existing(e.origin.pages) :
              e.origin.pages[i].path = e.origin.pages[j].path => i = j,
           NEW q \in Existing(e.origin.pages), q \notin e.created
    PROVE  LET p == e.origin.pages[q].path IN
           (IF e.moves[p] = None THEN p ELSE e.moves[p]) = e.cand.pages[q].path
<1> DEFINE p == e.origin.pages[q].path
<1>1. Untouched(e, ops, n) /\ Moved(e, ops, n)
  BY DEF MovesTracked
<1>2. q \in PageIds /\ p \in Paths
  BY RowOrAbsent DEF Existing, Evaluation, CorpusState, Row
<1>3. ASSUME NEW k \in 1..Len(ops), Moves(ops[k], q)
      PROVE  e.moves[p] = e.cand.pages[q].path /\ e.moves[p] # None
  <2>1. e.moves[p] = ops[k].to /\ e.cand.pages[q].path = ops[k].to
    BY <1>1, <1>2, <1>3 DEF Moved
  <2>2. ops[k] \in PageOps
    BY <1>3, OpKinds DEF Moves, PageOpTypes
  <2>3. ops[k].to \in Paths
    BY <1>3, <2>2 DEF PageOps, Moves
  <2> QED BY <2>1, <2>3, NoneAssumption
<1>4. ASSUME \A k \in 1..Len(ops) : ~Moves(ops[k], q)
      PROVE  e.moves[p] = None /\ e.cand.pages[q].path = p
  <2>1. e.cand.pages[q].path = p
    BY <1>1, <1>2, <1>4 DEF Untouched
  <2>2. ASSUME e.moves[p] # None
        PROVE  FALSE
    <3>1. PICK k \in 1..Len(ops), i \in PageIds :
             Moves(ops[k], i) /\ e.origin.pages[i].path = p
      BY <1>1, <1>2, <2>2 DEF Moved
    <3>2. e.origin.pages[i].status # "absent"
      BY <1>1, <3>1 DEF Moved
    <3>3. i = q
      BY <3>1, <3>2 DEF Existing
    <3> QED BY <1>4, <3>1, <3>3
  <2> QED BY <2>1, <2>2
<1> HIDE DEF p
<1>5. (IF e.moves[p] = None THEN p ELSE e.moves[p]) = e.cand.pages[q].path
  BY <1>3, <1>4
<1> QED BY <1>5 DEF p

\* At most one element means no two.
LEMMA AtMostOne ==
    ASSUME NEW S, IsFiniteSet(S), Cardinality(S) <= 1, NEW k \in S, NEW l \in S
    PROVE  k = l
<1>1. Cardinality(S) \in Nat
  BY FS_CardinalityType
<1>2. Cardinality(S) # 0
  BY FS_EmptySet
<1>3. Cardinality(S) = 1
  BY <1>1, <1>2
<1>4. \E x : S = {x}
  BY <1>3, FS_Singleton
<1> QED BY <1>4

\* A commit whose pages move once keeps links.
LEMMA CommitLinks ==
    ASSUME Inductive, Tracked, NEW w \in Workers, CommitPublish(w),
           MovesOnce(changes[job[w]].ops)
    PROVE  LinksKept(job[w])
<1> DEFINE c == job[w]
           ops == changes[c].ops
           e == ev[w]
           r == Result(w)
<1>1. /\ c \in Changes /\ ops \in Seq(Ops) /\ e.ok /\ e.origin = corpus
      /\ \A k \in 1..Len(ops) : k < next[w]
  BY CommitChecked
<1>2. /\ e \in Evaluation /\ MovesTracked(e, ops, next[w])
      /\ pc[w] = "publishing"
  BY DEF CommitPublish, Inductive, TypeOK, WorkersOK, Busy, Tracked,
         PublicationMoves
<1>3. /\ r \in Evaluation /\ r.origin = corpus /\ CandidateKept(r)
      /\ r.created = e.created
      /\ \A i \in r.created : corpus.pages[i] = AbsentPage
      /\ corpus'.redirects = r.cand.redirects
      /\ \A i \in PageIds :
            corpus'.pages[i] =
               IF i \in r.touched
               THEN [r.cand.pages[i] EXCEPT !.revision =
                       IF i \in r.created THEN 1
                       ELSE corpus.pages[i].revision + 1]
               ELSE corpus.pages[i]
  BY CommitRows
<1>4. /\ \A i \in PageIds :
            /\ r.cand.pages[i].path = e.cand.pages[i].path
            /\ r.cand.pages[i].status = e.cand.pages[i].status
      /\ \A i \in Repairable(e) :
            r.cand.pages[i].links = Retarget(e.cand.pages[i].links, e.moves)
  BY <1>1, <1>2, RepairRewrites DEF Result
<1>5. RedirectsSound(ActiveEntries(r), r.cand.redirects)
  BY DEF CommitPublish, ChangePasses, Passed, Sound
<1>6. \A i, j \in Existing(corpus.pages) :
         corpus.pages[i].path = corpus.pages[j].path => i = j
  BY DEF Tracked, PathsUnique
<1> HIDE DEF r, e, ops, c
<1>7. \A i \in PageIds :
         /\ corpus'.pages[i].path = r.cand.pages[i].path
         /\ corpus'.pages[i].status = r.cand.pages[i].status
         /\ corpus'.pages[i].links = r.cand.pages[i].links
  <2> TAKE i \in PageIds
  <2>1. r.cand.pages[i] \in Page
    BY <1>3 DEF Evaluation, CorpusState
  <2>2. CASE i \in r.touched
    <3>1. r.cand.pages[i] \in Row
      BY <1>3, <2>1, <2>2, RowOrAbsent DEF CandidateKept
    <3> QED BY <1>3, <2>2, <3>1 DEF Row
  <2>3. CASE i \notin r.touched
    BY <1>3, <2>3 DEF CandidateKept
  <2> QED BY <2>2, <2>3
<1> SUFFICES ASSUME NEW i \in Active(corpus.pages) \cap Active(corpus'.pages),
                    NEW q \in Active(corpus.pages) \cap Active(corpus'.pages),
                    ~Rewrites(c, i), 
                    corpus.pages[q].path \in corpus.pages[i].links
             PROVE  \E l \in corpus'.pages[i].links :
                       Lands(corpus'.redirects, l) = corpus'.pages[q].path
  BY DEF LinksKept, c
<1> DEFINE p == corpus.pages[q].path
           l == IF e.moves[p] = None THEN p ELSE e.moves[p]
<1>8. /\ i \in PageIds /\ q \in PageIds
      /\ i \in Existing(corpus.pages) /\ q \in Existing(corpus.pages)
      /\ corpus'.pages[i].status = "active"
      /\ corpus'.pages[q].status = "active"
      /\ corpus.pages[i].status # "absent" /\ corpus.pages[q].status # "absent"
      /\ i \notin e.created /\ q \notin e.created
  BY <1>3 DEF Active, Existing, AbsentPage
<1>9. l = corpus'.pages[q].path
  <2>1. l = e.cand.pages[q].path
    BY <1>1, <1>2, <1>6, <1>8, MovesLead DEF ops, c
  <2> QED BY <1>4, <1>7, <1>8, <2>1
<1>10. l \in corpus'.pages[i].links
  <2>1. e.cand.pages[i].links = corpus.pages[i].links
    <3>1. Untouched(e, ops, next[w])
      BY <1>1, <1>2 DEF MovesTracked
    <3>2. \A k \in 1..Len(ops) :
             ops[k].type \in {"REPLACE_DOCUMENT", "PATCH_TEXT"} =>
                ops[k].page # i
      BY <1>8 DEF Rewrites, OpsOn, PageOpTypes, ops
    <3> QED BY <1>1, <1>8, <3>1, <3>2 DEF Untouched
  <2>2. i \in Repairable(e)
    BY <1>1, <1>4, <1>7, <1>8 DEF Repairable, Active
  <2>3. l \in Retarget(corpus.pages[i].links, e.moves)
    BY DEF Retarget
  <2> QED BY <1>4, <1>7, <1>8, <2>1, <2>2, <2>3
<1>11. Lands(corpus'.redirects, l) = l
  <2>1. l \in Paths
    <3>1. corpus'.pages[q].path \in Paths
      <4>1. r.cand.pages[q] \in Page
        BY <1>3, <1>8 DEF Evaluation, CorpusState
      <4>2. r.cand.pages[q] \in Row
        BY <1>7, <1>8, <4>1, RowOrAbsent
      <4> QED BY <1>7, <1>8, <4>2 DEF Row
    <3> QED BY <1>9, <3>1
  <2>2. l \in LivePaths(ActiveEntries(r))
    <3> DEFINE x == [id |-> q, page |-> r.cand.pages[q]]
    <3>1. x \in ActiveEntries(r) /\ x.page.path = l
      BY <1>7, <1>8, <1>9 DEF ActiveEntries, Entries, Existing
    <3> HIDE DEF x
    <3> QED BY <3>1 DEF LivePaths
  <2>3. corpus'.redirects[l] = None
    <3>1. l \notin Sources(r.cand.redirects)
      BY <1>5, <2>2 DEF RedirectsSound
    <3>2. r.cand.redirects[l] = None
      BY <2>1, <3>1 DEF Sources
    <3> QED BY <1>3, <3>2
  <2> QED BY <2>3 DEF Lands
<1> HIDE DEF l
<1> QED BY <1>9, <1>10, <1>11

\* When each page moves at most once in a change, its publication keeps the
\* links to the pages it moves.
THEOREM MovesKeepLinks == Spec => LinksFollowSingleMoves
<1> DEFINE Kept ==
             \A c \in Changes :
                /\ Publishes(c)
                /\ \A i \in PageIds : Cardinality(MovesOf(c, i)) <= 1
                => LinksKept(c)
<1>1. ASSUME Inductive, Tracked, [Next]_vars, NEW c \in Changes, Publishes(c),
             \A i \in PageIds : Cardinality(MovesOf(c, i)) <= 1
      PROVE  LinksKept(c)
  <2>1. PICK w \in Workers : CommitPublish(w) /\ job[w] = c
    BY <1>1, PublishingCommits
  <2>2. Len(changes[c].ops) \in Nat
    BY <2>1, <1>1, CommitChecked
  <2>3. ASSUME NEW i \in PageIds
        PROVE  IsFiniteSet(MovesOf(c, i))
    <3>1. MovesOf(c, i) \subseteq 1..Len(changes[c].ops)
      BY DEF MovesOf, OpsOn
    <3>2. IsFiniteSet(1..Len(changes[c].ops))
      BY <2>2, FS_Interval
    <3> QED BY <3>1, <3>2, FS_Subset
  <2>4. MovesOnce(changes[c].ops)
    <3> SUFFICES ASSUME NEW k \in 1..Len(changes[c].ops),
                        NEW l \in 1..Len(changes[c].ops), NEW i \in PageIds,
                        Moves(changes[c].ops[k], i), Moves(changes[c].ops[l], i)
                 PROVE  k = l
      BY DEF MovesOnce
    <3>1. k \in MovesOf(c, i) /\ l \in MovesOf(c, i)
      BY DEF MovesOf, OpsOn, Moves, PageOpTypes
    <3> QED BY <1>1, <2>3, <3>1, AtMostOne
  <2> QED BY <1>1, <2>1, <2>4, CommitLinks
<1>2. Inductive /\ Tracked /\ [Next]_vars => Kept
  BY <1>1
<1> QED BY Invariant, TrackedHolds, <1>2, PTL DEF Spec, LinksFollowSingleMoves
=============================================================================

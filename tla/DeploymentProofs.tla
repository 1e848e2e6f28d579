-------------------------- MODULE DeploymentProofs --------------------------
(***************************************************************************)
(* Proofs about Deployment, for every value of its constants.              *)
(***************************************************************************)
EXTENDS Deployment, SequenceTheorems, TLAPS

-----------------------------------------------------------------------------
(***************************************************************************)
(* Types.                                                                  *)
(***************************************************************************)
LEMMA RenderedType ==
    ASSUME NEW pages \in Pages, NEW redirects \in Routes
    PROVE  Rendered(pages, redirects) \in [Paths -> Artifacts]
BY DEF Rendered, Pages, Routes, Artifacts

LEMMA InitType == Init => TypeOK
<1> SUFFICES ASSUME Init PROVE TypeOK
  OBVIOUS
<1>1. NoCorpus \in States
  BY DeploymentAssumption
  DEF NoCorpus, States, Pages, Routes, NoPages, NoRoutes
<1>2. history \in Seq(States) /\ Len(history) \in 1..(MaxCommits + 1)
  BY <1>1, DeploymentAssumption DEF Init
<1>4. pc \in [Workers -> Stages] /\ attempts \in Seq(Attempt)
  BY DEF Init, Idle, Stages
<1>5. own \in [Workers -> 0..MaxCommits] /\ cycle \in [Workers -> Nat]
      /\ receipts \in [1..MaxCommits -> Nat]
      /\ build \in [Workers -> States]
  BY <1>1, DeploymentAssumption DEF Init
<1>6. cert \in [state : {"UNAVAILABLE", "CURRENT", "DEPLOYMENT_FAILED"},
               working : States \cup {None}, deployed : States \cup {None}]
  BY DEF Init
<1>3. NoPages \in [Paths -> Artifacts] /\ NoPages \in Pages
      /\ NoRoutes \in Routes
  BY DeploymentAssumption DEF NoPages, NoRoutes, Pages, Routes, Artifacts
<1> QED
  BY <1>1, <1>2, <1>3, <1>4, <1>5, <1>6 DEF Init, TypeOK

\* What the locals of a worker may become.
LEMMA LocalsType ==
    ASSUME TypeOK, NEW w \in Workers
    PROVE  /\ \A at \in Stages : Reach(w, at) => pc' \in [Workers -> Stages]
           /\ Leave(w) => /\ pc' \in [Workers -> Stages]
                          /\ own' \in [Workers -> 0..MaxCommits]
                          /\ cycle' \in [Workers -> Nat]
                          /\ build' \in [Workers -> States]
<1>1. NoCorpus \in States
  BY DeploymentAssumption
  DEF NoCorpus, States, Pages, Routes, NoPages, NoRoutes
<1>2. \A at \in Stages : Reach(w, at) => pc' \in [Workers -> Stages]
  BY DEF TypeOK, Reach
<1>3. 0 \in 0..MaxCommits /\ "idle" \in Stages
  BY DeploymentAssumption DEF Stages
<1>4. Leave(w) => pc' \in [Workers -> Stages]
  BY <1>2, <1>3 DEF Leave
<1>5. Leave(w) => own' \in [Workers -> 0..MaxCommits]
  BY <1>3 DEF Leave, TypeOK
<1>6. Leave(w) => /\ cycle' \in [Workers -> Nat]
                  /\ build' \in [Workers -> States]
  BY <1>1 DEF Leave, TypeOK
<1> QED
  BY <1>2, <1>4, <1>5, <1>6

LEMMA NextType == TypeOK /\ [Next]_vars => TypeOK'
<1> SUFFICES ASSUME TypeOK, [Next]_vars PROVE TypeOK'
  OBVIOUS
<1> USE DEF TypeOK, database, files, process, locals
<1>1. ASSUME NEW w \in Workers, Publish(w) PROVE TypeOK'
  <2>1. PICK kept \in SUBSET Active(corpus.pages),
             written \in SUBSET Paths, redirects \in Routes :
          corpus' = [pages |-> [p \in Paths |->
                                  IF p \in written THEN Clock + 1
                                  ELSE IF p \in kept THEN corpus.pages[p]
                                  ELSE 0],
                     redirects |-> redirects]
    BY <1>1 DEF Publish
  <2>2. Clock \in Nat /\ Clock + 1 \in 0..MaxCommits
    BY <1>1, DeploymentAssumption DEF Publish, Clock
  <2> DEFINE page(p) == IF p \in written THEN Clock + 1
                        ELSE IF p \in kept THEN corpus.pages[p] ELSE 0
  <2>6. \A p \in Paths : page(p) \in 0..MaxCommits
    BY <2>2, DeploymentAssumption DEF States, Pages
  <2>7. [p \in Paths |-> page(p)] \in Pages
    BY <2>6 DEF Pages
  <2>3. corpus' \in States
    BY <2>1, <2>7 DEF States
  <2>4. history' \in Seq(States) /\ Len(history') \in 1..(MaxCommits + 1)
    BY <1>1, <2>2, <2>3, DeploymentAssumption DEF Publish, Clock
  <2>5. pc' \in [Workers -> Stages] /\ own' \in [Workers -> 0..MaxCommits]
    BY <1>1, <2>2, LocalsType DEF Publish, Stages
  <2> QED
    BY <1>1, <2>3, <2>4, <2>5 DEF Publish
<1>2. ASSUME NEW w \in Workers, Retry(w) PROVE TypeOK'
  BY SMTT(30), <1>2, LocalsType, DeploymentAssumption DEF Retry, Stages
<1>3. ASSUME NEW w \in Workers, TakeLock(w) PROVE TypeOK'
  BY <1>3, LocalsType DEF TakeLock, Stages
<1>4. ASSUME NEW w \in Workers, LoadPages(w) PROVE TypeOK'
  BY <1>4, LocalsType DEF LoadPages, Stages, States
<1>5. ASSUME NEW w \in Workers, LoadRoutes(w) PROVE TypeOK'
  <2>1. build' \in [Workers -> States]
    BY <1>5 DEF LoadRoutes, States
  <2>2. attempts' \in Seq(Attempt) /\ Len(attempts') \in Nat
    BY <1>5, <2>1 DEF LoadRoutes, Attempt
  <2>3. cycle' \in [Workers -> Nat] /\ pc' \in [Workers -> Stages]
    BY <1>5, <2>2, LocalsType DEF LoadRoutes, Stages, Building
  <2> QED
    BY <1>5, <2>1, <2>2, <2>3 DEF LoadRoutes
<1>6. ASSUME NEW w \in Workers, Check(w) PROVE TypeOK'
  BY <1>6, LocalsType DEF Check, Stages, Building
<1>7. ASSUME NEW w \in Workers, NEW p \in Paths,
             UnlinkFile(w, p) \/ WriteFile(w, p) \/ PromoteFile(w, p)
      PROVE  TypeOK'
  <2>1. CASE UnlinkFile(w, p)
    <3>1. 0 \in 0..MaxCommits
      BY DeploymentAssumption
    <3>2. content' \in Pages
      BY <2>1, <3>1 DEF UnlinkFile, Pages
    <3> QED
      BY <2>1, <3>2 DEF UnlinkFile
  <2>2. CASE WriteFile(w, p)
    <3>1. build[w].pages[p] \in 0..MaxCommits
      BY DEF Pages, States
    <3>2. content' \in Pages
      BY <2>2, <3>1 DEF WriteFile, Pages
    <3> QED
      BY <2>2, <3>2 DEF WriteFile
  <2>3. CASE PromoteFile(w, p)
    <3>1. site' \in [Paths -> Artifacts]
      BY <2>3 DEF PromoteFile
    <3>2. UNCHANGED <<database, process, content, manifest, nav, staging,
                      index, interrupted, history>>
      BY <2>3 DEF PromoteFile
    <3> QED
      BY <3>1, <3>2
  <2> QED
    BY <1>7, <2>1, <2>2, <2>3
<1>8. ASSUME NEW w \in Workers, TruncateManifest(w) \/ WriteManifest(w)
      PROVE  TypeOK'
  BY <1>8, LocalsType
  DEF TruncateManifest, WriteManifest, Active, Stages, Building
<1>9. ASSUME NEW w \in Workers, WriteNav(w) \/ WriteIndex(w) PROVE TypeOK'
  BY <1>9, LocalsType DEF WriteNav, WriteIndex, States, Stages, Building
<1>10. ASSUME NEW w \in Workers, BuildSite(w) \/ EndPromotion(w) \/ Raise(w)
       PROVE  TypeOK'
  BY <1>10, LocalsType, RenderedType
  DEF BuildSite, EndPromotion, Raise, Stages, Building
<1>11. ASSUME NEW w \in Workers, NEW s \in {"COMPLETED", "FAILED"},
              Settle(w, s)
       PROVE  attempts' \in Seq(Attempt)
  <2> DEFINE n == cycle[w]
             done == [attempts[n] EXCEPT !.status = s]
  <2>1. attempts' = [attempts EXCEPT ![n] = done]
    BY <1>11 DEF Settle
  <2>2. CASE n \in 1..Len(attempts)
    <3>1. attempts[n] \in Attempt
      BY <2>2, ElementOfSeq
    <3>2. done \in Attempt
      BY <3>1 DEF Attempt
    <3> QED
      BY <2>1, <2>2, <3>2, ExceptSeq
  <2>3. CASE n \notin 1..Len(attempts)
    <3>1. attempts \in [1..Len(attempts) -> Attempt]
      BY SeqDef
    <3>2. attempts' = attempts
      BY <2>1, <2>3, <3>1
    <3> QED
      BY <3>2
  <2> QED
    BY <2>2, <2>3
<1>12. ASSUME NEW w \in Workers, Complete(w) \/ RecordFailure(w) PROVE TypeOK'
  <2>1. attempts' \in Seq(Attempt)
    BY <1>11, <1>12 DEF Complete, RecordFailure
  <2>2. cert' \in [state : {"UNAVAILABLE", "CURRENT", "DEPLOYMENT_FAILED"},
                   working : States \cup {None},
                   deployed : States \cup {None}]
    <3>1. CASE Complete(w)
      BY <3>1 DEF Complete
    <3>2. CASE RecordFailure(w)
      BY <3>2 DEF RecordFailure
    <3> QED
      BY <1>12, <3>1, <3>2
  <2>3. /\ pc' \in [Workers -> Stages]
        /\ own' \in [Workers -> 0..MaxCommits]
        /\ cycle' \in [Workers -> Nat]
        /\ build' \in [Workers -> States]
    BY <1>12, LocalsType DEF Complete, RecordFailure, Settle, Stages
  <2> QED
    BY <1>12, <2>1, <2>2, <2>3 DEF Complete, RecordFailure, Settle
<1>13. ASSUME NEW w \in Workers, AttachReceipt(w) PROVE TypeOK'
  BY <1>13, LocalsType DEF AttachReceipt
<1>14. ASSUME NEW w \in Workers, LoseDatabase(w) PROVE TypeOK'
  BY <1>14, LocalsType DEF LoseDatabase
<1>15. CASE Crash
  <2>1. NoCorpus \in States
    BY DeploymentAssumption
    DEF NoCorpus, States, Pages, Routes, NoPages, NoRoutes
  <2> QED
    BY <1>15, <2>1, DeploymentAssumption DEF Crash, Idle, Stages
<1>16. CASE UNCHANGED vars
  BY <1>16 DEF vars
<1> QED
  BY <1>1, <1>2, <1>3, <1>4, <1>5, <1>6, <1>7, <1>8, <1>9, <1>10, <1>12,
     <1>13, <1>14, <1>15, <1>16 DEF Next, Work

\* Every variable keeps its type.
THEOREM TypeCorrect == Spec => []TypeOK
BY InitType, NextType, PTL DEF Spec

-----------------------------------------------------------------------------
(***************************************************************************)
(* The lock.                                                               *)
(***************************************************************************)

\* Where a step may take the worker that makes it.
Moves(w, from, to) ==
    /\ pc[w] \in from
    /\ pc' = [pc EXCEPT ![w] = pc'[w]]
    /\ pc'[w] \in to

\* A step inside a build: the holder of the lock stays its holder.
Inside(w) ==
    \/ LoadPages(w) \/ LoadRoutes(w) \/ Check(w)
    \/ \E p \in Paths : UnlinkFile(w, p) \/ WriteFile(w, p) \/ PromoteFile(w, p)
    \/ TruncateManifest(w) \/ WriteManifest(w) \/ WriteNav(w) \/ BuildSite(w)
    \/ EndPromotion(w) \/ WriteIndex(w) \/ Raise(w)

Held == Building \cup {"locked", "loading", "failing"}

LEMMA InsideMoves ==
    ASSUME TypeOK, NEW w \in Workers, Inside(w)
    PROVE  /\ pc[w] \in Held /\ pc'[w] \in Held
           /\ \A v \in Workers : v # w => pc'[v] = pc[v]
           /\ lock' = lock /\ UNCHANGED <<corpus, cert, receipts, own, history,
                                       interrupted>>
BY DEF Inside, LoadPages, LoadRoutes, Check, UnlinkFile, WriteFile,
       PromoteFile, TruncateManifest, WriteManifest, WriteNav, BuildSite,
       EndPromotion, WriteIndex, Raise, Reach, Held, Building, TypeOK,
       database, process, locals, files

\* The steps that are not inside a build.
LEMMA Steps ==
    ASSUME [Next]_vars
    PROVE  \/ \E w \in Workers : \/ Publish(w) \/ Retry(w) \/ TakeLock(w)
                                 \/ Inside(w)
                                 \/ Complete(w) \/ RecordFailure(w)
                                 \/ AttachReceipt(w) \/ LoseDatabase(w)
           \/ Crash
           \/ UNCHANGED vars
BY DEF Next, Work, Inside

LEMMA LockStep ==
    ASSUME TypeOK, LockHeld, [Next]_vars
    PROVE  LockHeld'
<1> USE DEF LockHeld, Holding, Loaded
<1>1. ASSUME NEW w \in Workers, Publish(w) \/ Retry(w) PROVE LockHeld'
  BY <1>1 DEF Publish, Retry, Reach, TypeOK, Building
<1>2. ASSUME NEW w \in Workers, TakeLock(w) PROVE LockHeld'
  BY <1>2, DeploymentAssumption DEF TakeLock, Reach, TypeOK, Building
<1>3. ASSUME NEW w \in Workers, Inside(w) PROVE LockHeld'
  BY <1>3, InsideMoves DEF Held
<1>4. ASSUME NEW w \in Workers, Complete(w) \/ RecordFailure(w)
      PROVE  LockHeld'
  <2>1. /\ lock' = None /\ pc'[w] \in {"idle", "attaching"}
        /\ \A v \in Workers : v # w => pc'[v] = pc[v]
        /\ pc[w] \in {"recording", "failing"}
    BY <1>4 DEF Complete, RecordFailure, Settle, Leave, Reach, TypeOK
  <2> QED
    BY <2>1, DeploymentAssumption DEF Building
<1>5. ASSUME NEW w \in Workers, AttachReceipt(w) PROVE LockHeld'
  BY <1>5 DEF AttachReceipt, Leave, Reach, TypeOK, Building
<1>6. ASSUME NEW w \in Workers, LoseDatabase(w) PROVE LockHeld'
  BY <1>6, DeploymentAssumption
  DEF LoseDatabase, Leave, Reach, TypeOK, Building
<1>7. CASE Crash
  BY <1>7, DeploymentAssumption DEF Crash, Idle, Building
<1>8. CASE UNCHANGED vars
  BY <1>8 DEF vars, process
<1> QED
  BY <1>1, <1>2, <1>3, <1>4, <1>5, <1>6, <1>7, <1>8, Steps

-----------------------------------------------------------------------------
(***************************************************************************)
(* No commit is forgotten.                                                 *)
(***************************************************************************)
LEMMA MissedStep ==
    ASSUME TypeOK, LockHeld, NothingMissed, [Next]_vars
    PROVE  NothingMissed'
<1> USE DEF NothingMissed, Waiting
\* A publication that ends waits for its own deployment.
<1>1. ASSUME NEW w \in Workers, Publish(w) PROVE NothingMissed'
  <2>1. pc'[w] = "waiting"
    BY <1>1 DEF Publish, Reach, TypeOK
  <2> QED
    BY <2>1
<1>2. ASSUME NEW w \in Workers, Retry(w) PROVE NothingMissed'
  <2>1. pc'[w] = "waiting"
    BY <1>2 DEF Retry, Reach, TypeOK
  <2> QED
    BY <2>1
\* Nobody is building when the lock is taken, so nobody is behind.
<1>3. ASSUME NEW w \in Workers, TakeLock(w) PROVE NothingMissed'
  <2>1. \A v \in Workers : ~Holding(v)
    BY <1>3, DeploymentAssumption DEF TakeLock, LockHeld
  <2>2. /\ pc'[w] = "locked" /\ \A v \in Workers : v # w => pc'[v] = pc[v]
        /\ UNCHANGED <<corpus, build, cert, interrupted>>
    BY <1>3 DEF TakeLock, Reach, TypeOK, database, locals
  <2>3. \A v \in Workers : ~Behind(v)'
    BY <2>1, <2>2 DEF Behind, Holding, Loaded, Building
  <2>4. Holding(w)'
    BY <2>2 DEF Holding
  <2> QED
    BY <2>3, <2>4
<1>4. ASSUME NEW w \in Workers, Inside(w) PROVE NothingMissed'
  <2>1. /\ pc[w] \in Held /\ pc'[w] \in Held
        /\ \A v \in Workers : v # w => pc'[v] = pc[v]
        /\ UNCHANGED <<corpus, cert, interrupted>>
    BY <1>4, InsideMoves
  <2>2. \A v \in Workers : v # w => ~Holding(v) /\ ~Holding(v)'
    BY <2>1 DEF LockHeld, Holding, Loaded, Held
  <2>3. Waiting' <=> Waiting
    BY <2>1 DEF Held, Building
  <2>4. Behind(w)' => Behind(w)
    <3>1. CASE LoadPages(w)
      <4>1. build'[w].pages = corpus.pages
        BY <3>1 DEF LoadPages, TypeOK, States
      <4>2. pc'[w] = "loading" /\ corpus' = corpus
        BY <3>1, <2>1 DEF LoadPages, Reach, TypeOK
      <4> QED
        BY <4>1, <4>2 DEF Behind, Loaded, Building
    <3>2. CASE LoadRoutes(w)
      <4>1. build'[w] = [build[w] EXCEPT !.redirects = corpus.redirects]
        BY <3>2 DEF LoadRoutes, TypeOK
      <4>2. build[w].pages = corpus.pages => build'[w] = corpus
        BY <4>1 DEF TypeOK, States
      <4>3. pc[w] = "loading" /\ corpus' = corpus
        BY <3>2 DEF LoadRoutes
      <4> QED
        BY <4>2, <4>3 DEF Behind, Loaded, Building
    <3>3. CASE ~LoadPages(w) /\ ~LoadRoutes(w)
      <4>1. UNCHANGED <<corpus, build>> /\ Loaded(w)
        BY <1>4, <3>3 DEF Inside, Check, UnlinkFile, WriteFile,
        PromoteFile, TruncateManifest, WriteManifest, WriteNav, BuildSite,
        EndPromotion, WriteIndex, Raise, Loaded, Building, database, process,
        locals
      <4>2. pc'[w] \in Building \cup {"failing"}
        BY <1>4, <3>3 DEF Inside, Check, UnlinkFile, WriteFile,
        PromoteFile, TruncateManifest, WriteManifest, WriteNav, BuildSite,
        EndPromotion, WriteIndex, Raise, Building, process, Reach, TypeOK
      <4> QED
        BY <4>1, <4>2 DEF Behind, Loaded, Building
    <3> QED
      BY <3>1, <3>2, <3>3
  <2>5. \A v \in Workers : Behind(v)' => v = w
    BY <2>2 DEF Behind, Holding, Loaded
  <2>6. Holding(w) /\ Holding(w)'
    BY <2>1 DEF Holding, Loaded, Held
  <2> QED
    BY <2>1, <2>2, <2>3, <2>4, <2>5, <2>6
\* The outcome names the state of the build: the committed one, unless the
\* publication that overtook it waits.
<1>5. ASSUME NEW w \in Workers, Complete(w) \/ RecordFailure(w)
      PROVE  NothingMissed'
  <2>1. /\ cert'.working = build[w] /\ corpus' = corpus
        /\ pc'[w] \in {"idle", "attaching"} /\ Loaded(w)
        /\ \A v \in Workers : v # w => pc'[v] = pc[v]
    <3>1. /\ cert'.working = build[w]
          /\ pc[w] \in {"recording", "failing"}
          /\ Settle(w, "COMPLETED") \/ Settle(w, "FAILED")
      <4>1. CASE Complete(w)
        BY <4>1 DEF Complete
      <4>2. CASE RecordFailure(w)
        BY <4>2 DEF RecordFailure, TypeOK
      <4> QED
        BY <1>5, <4>1, <4>2
    <3>2. /\ corpus' = corpus /\ pc'[w] \in {"idle", "attaching"}
          /\ \A v \in Workers : v # w => pc'[v] = pc[v]
      BY <3>1 DEF Settle, Leave, Reach, TypeOK
    <3> QED
      BY <3>1, <3>2 DEF Loaded, Building
  <2>2. \A v \in Workers : ~Holding(v)'
    BY <2>1 DEF LockHeld, Holding, Loaded, Building
  <2>3. \A v \in Workers : ~Behind(v)'
    BY <2>2 DEF Behind, Holding, Loaded
  <2>4. CASE build[w] = corpus
    BY <2>1, <2>3, <2>4
  <2>5. CASE build[w] # corpus
    <3>1. PICK v \in Workers : pc[v] = "waiting"
      BY <2>1, <2>5 DEF Behind
    <3>2. v # w
      BY <2>1, <3>1 DEF Loaded, Building
    <3> QED
      BY <2>1, <2>3, <3>1, <3>2
  <2> QED
    BY <2>4, <2>5
<1>6. ASSUME NEW w \in Workers, AttachReceipt(w) PROVE NothingMissed'
  <2>1. /\ pc[w] = "attaching" /\ pc'[w] = "idle"
        /\ \A v \in Workers : v # w => pc'[v] = pc[v] /\ build'[v] = build[v]
        /\ UNCHANGED <<corpus, cert, interrupted>>
    BY <1>6 DEF AttachReceipt, Leave, Reach, TypeOK
  <2>2. Waiting' <=> Waiting
    BY <2>1
  <2>3. \A v \in Workers : (Behind(v)' <=> Behind(v))
                           /\ (Holding(v)' <=> Holding(v))
    BY <2>1 DEF Behind, Holding, Loaded, Building
  <2> QED
    BY <2>1, <2>2, <2>3
<1>7. ASSUME NEW w \in Workers, LoseDatabase(w) PROVE NothingMissed'
  <2>1. /\ pc[w] # "waiting" /\ pc'[w] = "idle" /\ interrupted' = TRUE
        /\ \A v \in Workers : v # w => pc'[v] = pc[v] /\ build'[v] = build[v]
        /\ corpus' = corpus
    BY <1>7 DEF LoseDatabase, Leave, Reach, TypeOK, database
  <2>2. \A v \in Workers : Behind(v)' => Behind(v)
    BY <2>1 DEF Behind, Loaded, Building
  <2>3. Waiting => Waiting'
    BY <2>1
  <2> QED
    BY <2>1, <2>2, <2>3
<1>8. CASE Crash
  <2>1. \A v \in Workers : ~Behind(v)'
    BY <1>8 DEF Crash, Idle, Behind, Loaded, Building
  <2> QED
    BY <1>8, <2>1 DEF Crash
<1>9. CASE UNCHANGED vars
  BY <1>9 DEF vars, process, database, locals, Behind, Holding, Loaded
<1> QED
  BY <1>1, <1>2, <1>3, <1>4, <1>5, <1>6, <1>7, <1>8, <1>9, Steps

-----------------------------------------------------------------------------
(***************************************************************************)
(* What a deployment builds, and what receipts name.                       *)
(***************************************************************************)

\* Histories only grow.
LEMMA HistoryGrows ==
    ASSUME TypeOK, [Next]_vars
    PROVE  /\ Len(history') \in Nat /\ Len(history) <= Len(history')
           /\ \A k \in 1..Len(history) : history'[k] = history[k]
<1>1. ASSUME NEW w \in Workers, Publish(w)
      PROVE  /\ Len(history') = Len(history) + 1
             /\ \A k \in 1..Len(history) : history'[k] = history[k]
  BY <1>1 DEF Publish, TypeOK
<1>2. CASE \A w \in Workers : ~Publish(w)
  <2>1. \A w \in Workers : Inside(w) => history' = history
    BY InsideMoves
  <2>2. history' = history
    BY <1>2, <2>1, Steps DEF vars, Retry, TakeLock, Complete, RecordFailure,
       Settle, AttachReceipt, LoseDatabase, Crash
  <2> QED
    BY <2>2 DEF TypeOK
<1> QED
  BY <1>1, <1>2 DEF TypeOK

\* What a deployment includes it goes on including.
LEMMA IncludesGrows ==
    ASSUME TypeOK, [Next]_vars, NEW target, NEW k \in Nat,
           Includes(target, k)
    PROVE  Includes(target, k)'
<1>1. PICK i \in (k + 1)..Len(history), j \in (k + 1)..Len(history) :
          /\ i <= j
          /\ target.pages = history[i].pages
          /\ target.redirects = history[j].redirects
  BY DEF Includes
<1>2. /\ i \in (k + 1)..Len(history') /\ j \in (k + 1)..Len(history')
      /\ history'[i] = history[i] /\ history'[j] = history[j]
  BY <1>1, HistoryGrows DEF TypeOK
<1> QED
  BY <1>1, <1>2 DEF Includes

LEMMA AttemptType ==
    ASSUME TypeOK, NEW n \in 1..Len(attempts)
    PROVE  attempts[n] \in Attempt
BY ElementOfSeq DEF TypeOK

\* Attempts are appended, and settled in place.
LEMMA AttemptsGrow ==
    ASSUME TypeOK, RequestsTracked, [Next]_vars
    PROVE  /\ Len(attempts') \in Nat /\ Len(attempts) <= Len(attempts')
           /\ \A n \in 1..Len(attempts) :
                 /\ attempts'[n].change = attempts[n].change
                 /\ attempts'[n].target = attempts[n].target
                 /\ attempts[n].status # "BUILDING" =>
                       attempts'[n].status # "BUILDING"
           /\ Len(attempts') = Len(attempts) \/ \E w \in Workers : LoadRoutes(w)
<1>1. ASSUME NEW w \in Workers, LoadRoutes(w)
      PROVE  /\ Len(attempts') = Len(attempts) + 1
             /\ \A n \in 1..Len(attempts) : attempts'[n] = attempts[n]
  BY <1>1 DEF LoadRoutes, TypeOK
<1>2. ASSUME NEW w \in Workers, Complete(w) \/ RecordFailure(w)
      PROVE  /\ Len(attempts') = Len(attempts)
             /\ \A n \in 1..Len(attempts) :
                   /\ attempts'[n].change = attempts[n].change
                   /\ attempts'[n].target = attempts[n].target
                   /\ attempts[n].status # "BUILDING" =>
                         attempts'[n].status # "BUILDING"
  <2>1. PICK st \in {"COMPLETED", "FAILED"} : Settle(w, st)
    BY <1>2 DEF Complete, RecordFailure
  <2>2. cycle[w] \in 1..Len(attempts)
    BY <1>2 DEF Complete, RecordFailure, RequestsTracked, Tracked,
           Loaded, Building
  <2> DEFINE m == cycle[w]
             done == [attempts[m] EXCEPT !.status = st]
  <2>3. attempts' = [attempts EXCEPT ![m] = done]
    BY <2>1 DEF Settle
  <2>4. done \in Attempt
    BY <2>2, AttemptType DEF Attempt
  <2>5. /\ Len(attempts') = Len(attempts)
        /\ \A n \in 1..Len(attempts) :
              attempts'[n] = IF n = m THEN done ELSE attempts[n]
    <3> HIDE DEF done
    <3> QED
      BY <2>2, <2>3, <2>4, ExceptSeq DEF TypeOK
  <2>6. /\ done.change = attempts[m].change
        /\ done.target = attempts[m].target
        /\ done.status # "BUILDING"
    BY <2>2, AttemptType DEF Attempt
  <2> HIDE DEF done
  <2> QED
    BY <2>5, <2>6
<1>3. CASE \A w \in Workers : ~LoadRoutes(w) /\ ~Complete(w) /\ ~RecordFailure(w)
  <2>1. attempts' = attempts
    BY <1>3 DEF Next, Work, vars, Publish, Retry, TakeLock, LoadPages, Check,
        UnlinkFile, WriteFile, PromoteFile, TruncateManifest, WriteManifest,
        WriteNav, BuildSite, EndPromotion, WriteIndex, Raise,
        AttachReceipt, LoseDatabase, Crash, database
  <2> QED
    BY <2>1 DEF TypeOK
<1>4. Len(attempts) \in Nat
  BY DEF TypeOK
<1>5. CASE \E w \in Workers : LoadRoutes(w)
  BY <1>1, <1>4, <1>5
<1>6. CASE \E w \in Workers : Complete(w) \/ RecordFailure(w)
  BY <1>2, <1>4, <1>6
<1> QED
  BY <1>3, <1>4, <1>5, <1>6

\* A worker that keeps its place keeps what is known of it.
LEMMA KeepsPlace ==
    ASSUME TypeOK, RequestsTracked, [Next]_vars, NEW v \in Workers,
           pc'[v] = pc[v], own'[v] = own[v], cycle'[v] = cycle[v],
           build'[v] = build[v]
    PROVE  Tracked(v)'
<1>1. own'[v] < Len(history')
  BY HistoryGrows DEF RequestsTracked, Tracked, TypeOK
<1>2. ASSUME pc'[v] = "loading"
      PROVE  \E i \in (own'[v] + 1)..Len(history') :
                 build'[v].pages = history'[i].pages
  <2>1. PICK i \in (own[v] + 1)..Len(history) :
            build[v].pages = history[i].pages
    BY <1>2 DEF RequestsTracked, Tracked
  <2>2. i \in (own[v] + 1)..Len(history') /\ history'[i] = history[i]
    BY <2>1, HistoryGrows DEF TypeOK
  <2> QED
    BY <2>1, <2>2
<1>3. ASSUME Loaded(v)' \/ pc'[v] = "attaching"
      PROVE  /\ cycle'[v] \in 1..Len(attempts')
             /\ attempts'[cycle'[v]].change = own'[v]
  <2>1. cycle[v] \in 1..Len(attempts) /\ attempts[cycle[v]].change = own[v]
    BY <1>3 DEF RequestsTracked, Tracked, Loaded
  <2> QED
    BY <2>1, AttemptsGrow DEF TypeOK
<1>4. ASSUME pc'[v] = "attaching"
      PROVE  own'[v] # 0 /\ attempts'[cycle'[v]].status # "BUILDING"
  <2>1. /\ cycle[v] \in 1..Len(attempts) /\ own[v] # 0
        /\ attempts[cycle[v]].status # "BUILDING"
    BY <1>4 DEF RequestsTracked, Tracked, Loaded
  <2> QED
    BY <2>1, AttemptsGrow
<1> QED
  BY <1>1, <1>2, <1>3, <1>4 DEF Tracked

\* A worker between requests has nothing to be tracked.
LEMMA IdleTracked ==
    ASSUME TypeOK, [Next]_vars, NEW w \in Workers, own'[w] = 0,
           pc'[w] \in {"idle", "waiting", "locked"}
    PROVE  Tracked(w)'
BY HistoryGrows DEF Tracked, Loaded, Building, TypeOK

LEMMA TrackedStep ==
    ASSUME TypeOK, LockHeld, RequestsTracked, [Next]_vars
    PROVE  RequestsTracked'
<1>1. ASSUME NEW w \in Workers, Publish(w) PROVE RequestsTracked'
  <2>1. /\ history' = Append(history, corpus')
        /\ own' = [own EXCEPT ![w] = Clock + 1]
        /\ pc' = [pc EXCEPT ![w] = "waiting"]
        /\ UNCHANGED <<cycle, build>>
    BY <1>1 DEF Publish, Reach
  <2>2. /\ Len(history') = Len(history) + 1
        /\ history'[Len(history')] = corpus'
    BY <2>1 DEF TypeOK
  <2>3. Tracked(w)'
    <3>1. own'[w] < Len(history') /\ pc'[w] = "waiting"
      BY <2>1, <2>2 DEF TypeOK, Clock
    <3> QED
      BY <3>1 DEF Tracked, Loaded, Building
  <2>4. \A v \in Workers : v # w => Tracked(v)'
    BY <2>1, KeepsPlace DEF TypeOK
  <2> QED
    BY <2>2, <2>3, <2>4 DEF RequestsTracked
<1> DEFINE Others(w) == \A v \in Workers : v # w =>
               /\ pc'[v] = pc[v] /\ own'[v] = own[v]
               /\ cycle'[v] = cycle[v] /\ build'[v] = build[v]
\* Every other step leaves the corpus alone and moves one worker.
<1>2. ASSUME NEW w \in Workers, UNCHANGED <<corpus, history>>, Others(w),
             Tracked(w)'
      PROVE  RequestsTracked'
  <2>1. \A v \in Workers : v # w => Tracked(v)'
    BY <1>2, KeepsPlace
  <2> QED
    BY <1>2, <2>1 DEF RequestsTracked
<1>3. ASSUME NEW w \in Workers, Retry(w) PROVE RequestsTracked'
  <2>1. UNCHANGED <<corpus, history>> /\ Others(w)
        /\ own'[w] = 0 /\ pc'[w] = "waiting"
    BY <1>3 DEF Retry, Reach, TypeOK, database
  <2> QED
    BY <2>1, <1>2, IdleTracked
<1>4. ASSUME NEW w \in Workers, TakeLock(w) PROVE RequestsTracked'
  <2>1. UNCHANGED <<corpus, history>> /\ Others(w)
        /\ own'[w] = own[w] /\ pc'[w] = "locked"
    BY <1>4 DEF TakeLock, Reach, TypeOK, database, locals
  <2>2. Tracked(w)'
    BY <2>1 DEF RequestsTracked, Tracked, Loaded, Building
  <2> QED
    BY <2>1, <2>2, <1>2
<1>5. ASSUME NEW w \in Workers, LoadPages(w) PROVE RequestsTracked'
  <2>1. UNCHANGED <<corpus, history, own, cycle>> /\ Others(w)
        /\ build'[w].pages = corpus.pages /\ pc'[w] = "loading"
    BY <1>5 DEF LoadPages, Reach, TypeOK, States, database
  <2>2. Len(history) \in (own[w] + 1)..Len(history)
    BY DEF RequestsTracked, Tracked, TypeOK
  <2>3. build'[w].pages = history[Len(history)].pages
    BY <2>1 DEF RequestsTracked
  <2>4. Tracked(w)'
    BY <2>1, <2>2, <2>3 DEF RequestsTracked, Tracked, Loaded, Building
  <2> QED
    BY <2>1, <2>4, <1>2
<1>6. ASSUME NEW w \in Workers, LoadRoutes(w) PROVE RequestsTracked'
  <2>1. UNCHANGED <<corpus, history, own>> /\ Others(w)
        /\ pc'[w] = "checking" /\ cycle'[w] = Len(attempts')
    BY <1>6 DEF LoadRoutes, Reach, TypeOK, States
  <2>2. /\ Len(attempts') = Len(attempts) + 1
        /\ attempts'[Len(attempts')].change = own[w]
    BY <1>6 DEF LoadRoutes, TypeOK
  <2>3. Tracked(w)'
    BY <2>1, <2>2 DEF RequestsTracked, Tracked, Loaded, Building, TypeOK
  <2> QED
    BY <2>1, <2>3, <1>2
<1>7. ASSUME NEW w \in Workers, Inside(w), ~LoadPages(w), ~LoadRoutes(w)
      PROVE  RequestsTracked'
  <2>1. /\ UNCHANGED <<corpus, history, attempts, locals>>
        /\ \A v \in Workers : v # w => pc'[v] = pc[v]
        /\ Loaded(w) /\ pc'[w] \in Building \cup {"failing"}
    BY <1>7 DEF Inside, Check, UnlinkFile, WriteFile, PromoteFile,
       TruncateManifest, WriteManifest, WriteNav, BuildSite, EndPromotion,
       WriteIndex, Raise, Loaded, Building, database, process, Reach, TypeOK
  <2>2. Tracked(w)'
    BY <2>1 DEF RequestsTracked, Tracked, Loaded, Building, locals
  <2> QED
    BY <2>1, <2>2, <1>2 DEF locals
<1>8. ASSUME NEW w \in Workers, Complete(w) \/ RecordFailure(w)
      PROVE  RequestsTracked'
  <2>1. PICK st \in {"COMPLETED", "FAILED"} : Settle(w, st)
    BY <1>8 DEF Complete, RecordFailure
  <2>2. UNCHANGED <<corpus, history>> /\ Others(w)
    BY <2>1 DEF Settle, Leave, Reach, TypeOK, locals
  <2>3. CASE own[w] = 0
    <3>1. own'[w] = 0 /\ pc'[w] = "idle"
      BY <2>1, <2>3 DEF Settle, Leave, Reach, TypeOK
    <3> QED
      BY <2>2, <3>1, <1>2, IdleTracked
  <2>4. CASE own[w] # 0
    <3>1. pc'[w] = "attaching" /\ UNCHANGED locals
      BY <2>1, <2>4 DEF Settle, Reach, TypeOK
    <3>2. cycle[w] \in 1..Len(attempts) /\ attempts[cycle[w]].change = own[w]
      BY <1>8 DEF Complete, RecordFailure, RequestsTracked, Tracked, Loaded,
                  Building
    <3>3. attempts'[cycle[w]].status # "BUILDING"
      <4> DEFINE m == cycle[w]
                 done == [attempts[m] EXCEPT !.status = st]
      <4>1. attempts' = [attempts EXCEPT ![m] = done]
        BY <2>1 DEF Settle
      <4>2. done \in Attempt /\ done.status # "BUILDING"
        BY <3>2, AttemptType DEF Attempt
      <4> HIDE DEF done
      <4>3. attempts'[m] = done
        BY <3>2, <4>1, <4>2, ExceptSeq DEF TypeOK
      <4> QED
        BY <4>2, <4>3
    <3>5. /\ cycle[w] \in 1..Len(attempts')
          /\ attempts'[cycle[w]].change = own[w]
      BY <3>2, AttemptsGrow DEF TypeOK
    <3>6. own[w] < Len(history')
      BY <2>2 DEF RequestsTracked, Tracked
    <3>4. Tracked(w)'
      BY <2>4, <3>1, <3>3, <3>5, <3>6 DEF Tracked, Loaded, Building, locals
    <3> QED
      BY <2>2, <3>4, <1>2
  <2> QED
    BY <2>3, <2>4
<1>9. ASSUME NEW w \in Workers, AttachReceipt(w) \/ LoseDatabase(w)
      PROVE  RequestsTracked'
  <2>1. UNCHANGED <<corpus, history>> /\ Others(w)
        /\ own'[w] = 0 /\ pc'[w] = "idle"
    BY <1>9 DEF AttachReceipt, LoseDatabase, Leave, Reach, TypeOK, database
  <2> QED
    BY <2>1, <1>2, IdleTracked
<1>10. CASE Crash
  <2>1. \A w \in Workers : own'[w] = 0 /\ pc'[w] = "idle"
    BY <1>10 DEF Crash, Idle
  <2>2. UNCHANGED <<corpus, history>>
    BY <1>10 DEF Crash, database
  <2> QED
    BY <2>1, <2>2, IdleTracked DEF RequestsTracked
<1>11. CASE UNCHANGED vars
  BY <1>11, KeepsPlace DEF vars, process, database, locals, RequestsTracked
<1> QED
  BY <1>1, <1>3, <1>4, <1>5, <1>6, <1>7, <1>8, <1>9, <1>10, <1>11, Steps

LEMMA ReceiptType ==
    ASSUME TypeOK, NEW k \in 1..MaxCommits
    PROVE  receipts[k] \in Nat
<1>1. receipts \in [1..MaxCommits -> Nat]
  BY DEF TypeOK
<1> QED
  BY <1>1

LEMMA ReleaseStep ==
    ASSUME TypeOK, RequestsTracked, ReleaseHasChange, [Next]_vars
    PROVE  ReleaseHasChange'
<1>1. ASSUME NEW n \in 1..Len(attempts)
      PROVE  Includes(attempts[n].target, attempts[n].change)'
  <2>1. PICK target, k : target = attempts[n].target /\ k = attempts[n].change
    OBVIOUS
  <2>2. Includes(target, k) /\ k \in Nat
    BY <2>1, AttemptType DEF ReleaseHasChange, TargetsInclude, Attempt
  <2>3. Includes(target, k)'
    BY <2>2, IncludesGrows
  <2>4. attempts'[n].target = target /\ attempts'[n].change = k
    BY <2>1, AttemptsGrow
  <2> QED
    BY <2>3, <2>4
\* The attempt LoadRoutes makes.
<1>2. ASSUME NEW w \in Workers, LoadRoutes(w)
      PROVE  Includes(attempts[Len(attempts)].target,
                      attempts[Len(attempts)].change)'
  <2>1. /\ attempts'[Len(attempts')].target = build'[w]
        /\ attempts'[Len(attempts')].change = own[w]
    BY <1>2 DEF LoadRoutes, TypeOK
  <2>2. /\ build'[w].pages = build[w].pages
        /\ build'[w].redirects = corpus.redirects
        /\ history' = history
    BY <1>2 DEF LoadRoutes, TypeOK, States
  <2>3. PICK i \in (own[w] + 1)..Len(history) :
            build[w].pages = history[i].pages
    BY <1>2 DEF LoadRoutes, RequestsTracked, Tracked
  <2>4. /\ Len(history) \in (own[w] + 1)..Len(history) /\ i <= Len(history)
        /\ corpus.redirects = history[Len(history)].redirects
    BY <2>3 DEF RequestsTracked, TypeOK
  <2> QED
    BY <2>1, <2>2, <2>3, <2>4 DEF Includes
<1>3. TargetsInclude'
  <2>1. CASE \E w \in Workers : LoadRoutes(w)
    <3>1. Len(attempts') = Len(attempts) + 1
      BY <2>1 DEF LoadRoutes, TypeOK
    <3>2. \A n \in 1..Len(attempts') : n \in 1..Len(attempts) \/ n = Len(attempts')
      BY <3>1 DEF TypeOK
    <3> QED
      BY <1>1, <1>2, <2>1, <3>2 DEF TargetsInclude
  <2>2. CASE \A w \in Workers : ~LoadRoutes(w)
    BY <1>1, <2>2, AttemptsGrow DEF TargetsInclude, TypeOK
  <2> QED
    BY <2>1, <2>2
<1>4. ASSUME NEW k \in 1..MaxCommits, receipts[k] # 0
      PROVE  /\ receipts[k] <= Len(attempts')
             /\ attempts'[receipts[k]].change = k
             /\ attempts'[receipts[k]].status # "BUILDING"
  <2>1. receipts[k] \in 1..Len(attempts)
    <3>1. receipts[k] \in Nat
      BY ReceiptType
    <3>4. Len(attempts) \in Nat
      BY DEF TypeOK
    <3>2. receipts[k] <= Len(attempts)
      BY <1>4 DEF ReleaseHasChange, ReceiptsName
    <3> QED
      BY <1>4, <3>1, <3>2, <3>4
  <2>2. /\ attempts[receipts[k]].change = k
        /\ attempts[receipts[k]].status # "BUILDING"
    BY <1>4 DEF ReleaseHasChange, ReceiptsName
  <2>3. Len(attempts) \in Nat
    BY DEF TypeOK
  <2> QED
    BY <2>1, <2>2, <2>3, AttemptsGrow
<1>5. ReceiptsName'
  <2>1. CASE receipts' = receipts
    BY <1>4, <2>1 DEF ReceiptsName
  <2>2. CASE \E w \in Workers : AttachReceipt(w)
    <3>1. PICK w \in Workers : AttachReceipt(w)
      BY <2>2
    <3>2. /\ receipts' = [receipts EXCEPT ![own[w]] = cycle[w]]
          /\ attempts' = attempts
      BY <3>1 DEF AttachReceipt
    <3>3. /\ cycle[w] \in 1..Len(attempts)
          /\ attempts[cycle[w]].change = own[w]
          /\ attempts[cycle[w]].status # "BUILDING"
      BY <3>1 DEF AttachReceipt, RequestsTracked, Tracked
    <3> QED
      BY <1>4, <3>2, <3>3 DEF ReceiptsName, TypeOK
  <2>3. receipts' = receipts \/ \E w \in Workers : AttachReceipt(w)
    BY InsideMoves, Steps DEF vars, database, Publish, Retry, TakeLock,
       Complete, RecordFailure, Settle, LoseDatabase, Crash
  <2> QED
    BY <2>1, <2>2, <2>3
<1> QED
  BY <1>3, <1>5 DEF ReleaseHasChange

-----------------------------------------------------------------------------
(***************************************************************************)
(* The files of a build.                                                   *)
(***************************************************************************)

\* Only the holder of the lock is inside a build.
LEMMA OneHolder ==
    ASSUME LockHeld, NEW v \in Workers, NEW w \in Workers,
           pc[v] \in Held, pc[w] \in Held
    PROVE  v = w
BY DEF LockHeld, Holding, Loaded, Held

\* A step outside a build leaves the files as they are.
LEMMA FilesStay ==
    ASSUME [Next]_vars, \A w \in Workers : ~Inside(w)
    PROVE  UNCHANGED files
BY Steps DEF vars, Publish, Retry, TakeLock, Complete, RecordFailure, Settle,
             AttachReceipt, LoseDatabase, Crash

\* Which worker ends a step inside a build was there already, with the state
\* it had loaded, unless the step is of its own.
LEMMA StagesKept ==
    ASSUME TypeOK, [Next]_vars, NEW v \in Workers, pc'[v] \in Building,
           ~Inside(v)
    PROVE  pc'[v] = pc[v] /\ build'[v] = build[v]
<1>1. ASSUME NEW w \in Workers, v # w, Inside(w)
      PROVE  pc'[v] = pc[v] /\ build'[v] = build[v]
  BY <1>1, InsideMoves
  DEF Inside, LoadPages, LoadRoutes, Check, UnlinkFile, WriteFile,
      PromoteFile, TruncateManifest, WriteManifest, WriteNav, BuildSite,
      EndPromotion, WriteIndex, Raise, process, locals, TypeOK
<1>2. ASSUME NEW w \in Workers, Complete(w) \/ RecordFailure(w)
      PROVE  pc'[v] = pc[v] /\ build'[v] = build[v]
  BY <1>2 DEF Complete, RecordFailure, Settle, Leave, Reach, Building, locals,
              TypeOK
<1>3. ASSUME NEW w \in Workers,
             \/ Publish(w) \/ Retry(w) \/ TakeLock(w)
             \/ AttachReceipt(w) \/ LoseDatabase(w)
      PROVE  pc'[v] = pc[v] /\ build'[v] = build[v]
  BY <1>3 DEF Publish, Retry, TakeLock, AttachReceipt, LoseDatabase, Leave,
              Reach, Building, locals, TypeOK
<1>4. CASE Crash
  BY <1>4 DEF Crash, Idle, Building
<1>5. CASE UNCHANGED vars
  BY <1>5 DEF vars, process, locals
<1> QED
  BY <1>1, <1>2, <1>3, <1>4, <1>5, Steps

LEMMA StagesStep ==
    ASSUME TypeOK, LockHeld, BuildStages, [Next]_vars
    PROVE  BuildStages'
<1> USE DEF Indexed, Promoted, Staged, Routed, Listed, Copied
\* What BuildStages says of one worker.
<1> DEFINE Stage(v) ==
        /\ pc[v] \in Copied => \A p \in Active(build[v].pages) :
                                   content[p] = build[v].pages[p]
        /\ pc[v] \in Listed => manifest = Active(build[v].pages)
        /\ pc[v] \in Routed => nav = build[v].redirects
        /\ pc[v] \in Staged => staging = Rendered(content, nav)
        /\ pc[v] \in Promoted => site = staging
        /\ pc[v] \in Indexed => index = build[v].pages
<1>1. ASSUME NEW v \in Workers, \A w \in Workers : ~Inside(w) PROVE Stage(v)'
  <2>1. UNCHANGED files
    BY <1>1, FilesStay
  <2>2. pc'[v] \in Building => pc'[v] = pc[v] /\ build'[v] = build[v]
    BY <1>1, StagesKept
  <2>3. Copied \subseteq Building
    BY DEF Building
  <2> QED
    BY <2>1, <2>2, <2>3 DEF BuildStages, files, Active
<1>2. ASSUME NEW v \in Workers, NEW w \in Workers, Inside(w), v # w
      PROVE  Stage(v)'
  <2>1. pc'[v] = pc[v] /\ pc[w] \in Held
    BY <1>2, InsideMoves
  <2>2. pc'[v] \notin Held
    BY <1>2, <2>1, OneHolder
  <2> QED
    BY <2>2 DEF Held, Building
<1>3. ASSUME NEW w \in Workers, Inside(w) PROVE Stage(w)'
  <2>1. CASE LoadPages(w) \/ LoadRoutes(w) \/ Check(w) \/ Raise(w)
    <3>1. pc'[w] \in {"loading", "checking", "writing", "failing"}
      BY <2>1 DEF LoadPages, LoadRoutes, Check, Raise, Reach, TypeOK
    <3> QED
      BY <3>1
  <2>2. CASE \E p \in Paths : UnlinkFile(w, p) \/ WriteFile(w, p)
    <3>1. pc'[w] = "writing"
      BY <2>2 DEF UnlinkFile, WriteFile, process
    <3> QED
      BY <3>1
  <2>3. CASE TruncateManifest(w)
    <3>1. /\ pc'[w] = "listing" /\ UNCHANGED <<content, build>>
          /\ Missing(w) = {}
      BY <2>3 DEF TruncateManifest, Reach, TypeOK, locals
    <3>2. \A p \in Active(build[w].pages) : content[p] = build[w].pages[p]
      BY <3>1 DEF Missing
    <3> QED
      BY <3>1, <3>2 DEF Active
  <2>4. CASE WriteManifest(w)
    <3>1. /\ pc[w] = "listing" /\ pc'[w] = "routing"
          /\ UNCHANGED <<content, build>>
          /\ manifest' = Active(build[w].pages)
      BY <2>4 DEF WriteManifest, Reach, TypeOK, locals
    <3> QED
      BY <3>1 DEF BuildStages, Active
  <2>5. CASE WriteNav(w)
    <3>1. /\ pc[w] = "routing" /\ pc'[w] = "building"
          /\ UNCHANGED <<content, build, manifest>>
          /\ nav' = build[w].redirects
      BY <2>5 DEF WriteNav, Reach, TypeOK, locals
    <3> QED
      BY <3>1 DEF BuildStages, Active
  <2>6. CASE BuildSite(w)
    <3>1. /\ pc[w] = "building" /\ pc'[w] = "promoting"
          /\ UNCHANGED <<content, build, manifest, nav>>
          /\ staging' = Rendered(content, nav)
      BY <2>6 DEF BuildSite, Reach, TypeOK, locals
    <3> QED
      BY <3>1 DEF BuildStages, Active, Rendered
  <2>7. CASE \E p \in Paths : PromoteFile(w, p)
    <3>1. /\ pc[w] = "promoting" /\ pc'[w] = "promoting"
          /\ UNCHANGED <<content, build, manifest, nav, staging>>
      BY <2>7 DEF PromoteFile, process, locals
    <3> QED
      BY <3>1 DEF BuildStages, Active, Rendered
  <2>8. CASE EndPromotion(w)
    <3>1. /\ pc[w] = "promoting" /\ pc'[w] = "indexing" /\ site = staging
          /\ UNCHANGED <<content, build, manifest, nav, staging, site>>
      BY <2>8 DEF EndPromotion, Reach, TypeOK, files, locals
    <3> QED
      BY <3>1 DEF BuildStages, Active, Rendered
  <2>9. CASE WriteIndex(w)
    <3>1. /\ pc[w] = "indexing" /\ pc'[w] = "recording"
          /\ index' = build[w].pages
          /\ UNCHANGED <<content, build, manifest, nav, staging, site>>
      BY <2>9 DEF WriteIndex, Reach, TypeOK, files, locals
    <3> QED
      BY <3>1 DEF BuildStages, Active, Rendered
  <2> QED
    BY <1>3, <2>1, <2>2, <2>3, <2>4, <2>5, <2>6, <2>7, <2>8, <2>9 DEF Inside
<1>4. \A v \in Workers : Stage(v)'
  BY <1>1, <1>2, <1>3
<1> QED
  BY <1>4 DEF BuildStages

LEMMA ServedStep ==
    ASSUME TypeOK, LockHeld, BuildStages, CertifiedIsServed, [Next]_vars
    PROVE  CertifiedIsServed'
<1>1. CASE UNCHANGED <<cert, lock, interrupted, files>>
  BY <1>1 DEF CertifiedIsServed, files, Rendered, Orphan
<1>2. CASE cert'.state # "CURRENT" \/ lock' # None \/ interrupted'
  BY <1>2 DEF CertifiedIsServed
<1>3. ASSUME NEW w \in Workers, Complete(w) PROVE CertifiedIsServed'
  <2>1. /\ pc[w] = "recording" /\ UNCHANGED files
        /\ cert'.deployed = build[w]
    BY <1>3 DEF Complete, Settle
  <2>2. /\ index = build[w].pages
        /\ site = Rendered(content, build[w].redirects)
        /\ manifest = Active(build[w].pages)
        /\ \A p \in Active(build[w].pages) : content[p] = build[w].pages[p]
    BY <2>1 DEF BuildStages, Copied, Listed, Routed, Staged, Promoted, Indexed
  <2>3. ASSUME NEW p \in Paths, ~Orphan(p)
        PROVE  content[p] = build[w].pages[p]
    BY <2>2, <2>3 DEF Orphan, Active
  <2>4. \A p \in Paths :
            \/ site[p] = Rendered(build[w].pages, build[w].redirects)[p]
            \/ Orphan(p)
    BY <2>2, <2>3 DEF Rendered
  <2> QED
    BY <2>1, <2>2, <2>4 DEF CertifiedIsServed, files, Rendered, Orphan
<1>4. ASSUME NEW w \in Workers, Inside(w) PROVE lock' # None
  <2>1. pc[w] \in Held /\ lock' = lock
    BY <1>4, InsideMoves
  <2> QED
    BY <2>1, DeploymentAssumption DEF LockHeld, Holding, Loaded, Held
<1>5. ASSUME NEW w \in Workers, TakeLock(w) PROVE lock' # None
  BY <1>5, DeploymentAssumption DEF TakeLock
<1>6. ASSUME NEW w \in Workers, RecordFailure(w)
      PROVE  cert'.state # "CURRENT"
  BY <1>6 DEF RecordFailure, TypeOK
<1>7. ASSUME NEW w \in Workers, LoseDatabase(w) PROVE interrupted'
  BY <1>7 DEF LoseDatabase
<1>8. ASSUME Crash PROVE interrupted'
  BY <1>8 DEF Crash
<1>9. ASSUME NEW w \in Workers, Publish(w) \/ Retry(w) \/ AttachReceipt(w)
      PROVE  UNCHANGED <<cert, lock, interrupted, files>>
  BY <1>9 DEF Publish, Retry, AttachReceipt, database
<1>10. ASSUME UNCHANGED vars PROVE UNCHANGED <<cert, lock, interrupted, files>>
  BY <1>10 DEF vars, database, process
<1> QED
  BY <1>1, <1>2, <1>3, <1>4, <1>5, <1>6, <1>7, <1>8, <1>9, <1>10, Steps

-----------------------------------------------------------------------------
(***************************************************************************)
(* Revisions.                                                              *)
(***************************************************************************)

\* A step that leaves corpus, files and history alone, and a worker that
\* keeps what it loaded or drops it.
LEMMA AgesKept ==
    ASSUME TypeOK, Ages, UNCHANGED <<corpus, history, files>>,
           \A w \in Workers :
              \/ /\ build'[w].pages = build[w].pages
                 /\ pc'[w] = "loading" \/ Loaded(w)' =>
                       pc[w] = "loading" \/ Loaded(w)
                 /\ pc'[w] = "promoting" => pc[w] = "promoting"
              \/ /\ build'[w] = NoCorpus
                 /\ pc'[w] = "idle"
    PROVE  Ages'
<1>1. ASSUME NEW p \in Paths PROVE FileAges(p)'
  BY DEF Ages, FileAges, NotNewer, Clock, files
<1>2. ASSUME NEW p \in Paths, NEW w \in Workers PROVE BuildAges(w, p)'
  <2>1. CASE build'[w] = NoCorpus /\ pc'[w] = "idle"
    <3>1. build'[w].pages[p] = 0 /\ Clock' \in Nat
      BY <2>1 DEF NoCorpus, NoPages, Clock, TypeOK
    <3> QED
      BY <2>1, <3>1 DEF BuildAges, NotNewer, Loaded, Building
  <2>2. CASE ~(build'[w] = NoCorpus /\ pc'[w] = "idle")
    BY <2>2 DEF Ages, BuildAges, NotNewer, Clock, files
  <2> QED
    BY <2>1, <2>2
<1> QED
  BY <1>1, <1>2 DEF Ages

LEMMA Revisions ==
    ASSUME TypeOK, NEW p \in Paths
    PROVE  /\ corpus.pages[p] \in Nat /\ content[p] \in Nat
           /\ \A w \in Workers : build[w].pages[p] \in Nat
           /\ Clock \in Nat
BY DEF TypeOK, States, Pages, Clock

\* A step that changes files only, by the holder of the lock.
LEMMA FilesAge ==
    ASSUME TypeOK, LockHeld, Ages, NEW w \in Workers, Loaded(w), Loaded(w)',
           \A v \in Workers : v # w => pc'[v] = pc[v],
           UNCHANGED <<corpus, history, build>>,
           \A p \in Paths : FileAges(p)',
           \A p \in Paths : pc'[w] = "promoting" => NotNewer(site[p], staging[p])',
           \A p \in Paths : \A x \in {content'[p], staging'[p], site'[p]} :
               NotNewer(x, build[w].pages[p])
    PROVE  Ages'
<1>1. ASSUME NEW p \in Paths PROVE BuildAges(w, p)'
  BY DEF Ages, BuildAges, NotNewer, Clock
<1>2. ASSUME NEW p \in Paths, NEW v \in Workers, v # w
      PROVE  BuildAges(v, p)'
  <2>1. pc'[v] = pc[v] /\ pc[v] \notin Held
    BY <1>2, OneHolder DEF Loaded, Held
  <2> QED
    BY <2>1 DEF Ages, BuildAges, NotNewer, Clock, Loaded, Held, Building
<1> QED
  BY <1>1, <1>2 DEF Ages

LEMMA AgesStep ==
    ASSUME TypeOK, LockHeld, BuildStages, Ages, [Next]_vars
    PROVE  Ages'
\* A publication writes revisions newer than all there are.
<1>1. ASSUME NEW w \in Workers, Publish(w) PROVE Ages'
  <2>1. /\ Clock' = Clock + 1 /\ UNCHANGED <<build, files>>
        /\ \A v \in Workers : pc'[v] = pc[v] \/ pc'[v] = "waiting"
    BY <1>1 DEF Publish, Clock, Reach, TypeOK
  <2>2. ASSUME NEW p \in Paths
        PROVE  corpus'.pages[p] \in {Clock + 1, corpus.pages[p], 0}
    BY <1>1 DEF Publish
  <2>3. ASSUME NEW p \in Paths PROVE FileAges(p)'
    BY <2>1, <2>2, Revisions DEF Ages, FileAges, NotNewer, files
  <2>4. ASSUME NEW p \in Paths, NEW v \in Workers PROVE BuildAges(v, p)'
    <3>1. build[v].pages[p] <= Clock'
          /\ NotNewer(build[v].pages[p], corpus'.pages[p])
      BY <2>1, <2>2, Revisions DEF Ages, BuildAges, NotNewer
    <3> QED
      BY <2>1, <3>1 DEF Ages, BuildAges, NotNewer, files, Loaded, Building
  <2> QED
    BY <2>3, <2>4 DEF Ages
\* The pages loaded are those of the corpus, and no file is newer.
<1>2. ASSUME NEW w \in Workers, LoadPages(w) PROVE Ages'
  <2>1. /\ UNCHANGED <<corpus, history, files>>
        /\ build'[w].pages = corpus.pages /\ pc'[w] = "loading"
        /\ \A v \in Workers : v # w => pc'[v] = pc[v] /\ build'[v] = build[v]
    BY <1>2 DEF LoadPages, Reach, TypeOK, States, database
  <2>2. ASSUME NEW p \in Paths PROVE FileAges(p)'
    BY <2>1 DEF Ages, FileAges, NotNewer, Clock, files
  <2>3. ASSUME NEW p \in Paths PROVE BuildAges(w, p)'
    BY <2>1, Revisions DEF Ages, FileAges, BuildAges, NotNewer, Clock, files
  <2>4. ASSUME NEW p \in Paths, NEW v \in Workers, v # w
        PROVE  BuildAges(v, p)'
    BY <2>1, <2>4 DEF Ages, BuildAges, NotNewer, Clock, files, Loaded
  <2> QED
    BY <2>2, <2>3, <2>4 DEF Ages
<1>3. ASSUME NEW w \in Workers, NEW q \in Paths,
             UnlinkFile(w, q) \/ WriteFile(w, q)
      PROVE  Ages'
  <2>1. /\ UNCHANGED <<corpus, history, build, staging, site, pc>>
        /\ pc[w] = "writing"
        /\ \A p \in Paths : content'[p] \in {content[p], 0, build[w].pages[p]}
    BY <1>3 DEF UnlinkFile, WriteFile, database, process, locals, TypeOK,
                Pages, Missing, Active
  <2>2. Loaded(w) /\ Loaded(w)'
    BY <2>1 DEF Loaded, Building
  <2>3. ASSUME NEW p \in Paths PROVE FileAges(p)'
    BY <2>1, <2>2, Revisions
    DEF Ages, FileAges, BuildAges, NotNewer, Clock
  <2>4. ASSUME NEW p \in Paths,
               NEW x \in {content'[p], staging'[p], site'[p]}
        PROVE  NotNewer(x, build[w].pages[p])
    BY <2>1, <2>2, Revisions DEF Ages, BuildAges, NotNewer
  <2> QED
    BY <2>1, <2>2, <2>3, <2>4, FilesAge
<1>4. ASSUME NEW w \in Workers, BuildSite(w) PROVE Ages'
  <2>1. /\ UNCHANGED <<corpus, history, build, content, site>>
        /\ pc[w] = "building" /\ pc'[w] = "promoting"
        /\ \A v \in Workers : v # w => pc'[v] = pc[v]
        /\ \A p \in Paths : staging'[p] \in {Redirect, content[p]}
    BY <1>4 DEF BuildSite, database, locals, TypeOK, Reach, Rendered
  <2>2. Loaded(w) /\ Loaded(w)'
    BY <2>1 DEF Loaded, Building
  <2>3. ASSUME NEW p \in Paths PROVE FileAges(p)'
    BY <2>1, <2>2, Revisions, DeploymentAssumption
    DEF Ages, FileAges, NotNewer, Clock
  <2>4. ASSUME NEW p \in Paths,
               NEW x \in {content'[p], staging'[p], site'[p]}
        PROVE  NotNewer(x, build[w].pages[p])
    BY <2>1, <2>2, DeploymentAssumption DEF Ages, BuildAges, NotNewer
  <2>5. ASSUME NEW p \in Paths PROVE NotNewer(site[p], staging[p])'
    BY <2>1, DeploymentAssumption DEF Ages, FileAges, NotNewer
  <2> QED
    BY <2>1, <2>2, <2>3, <2>4, <2>5, FilesAge
<1>5. ASSUME NEW w \in Workers, NEW q \in Paths, PromoteFile(w, q)
      PROVE  Ages'
  <2>1. /\ UNCHANGED <<corpus, history, build, content, staging, pc>>
        /\ pc[w] = "promoting"
        /\ \A p \in Paths : site'[p] \in {site[p], staging[p]}
    BY <1>5 DEF PromoteFile, database, process, locals, TypeOK
  <2>2. Loaded(w) /\ Loaded(w)'
    BY <2>1 DEF Loaded, Building
  <2>3. ASSUME NEW p \in Paths PROVE FileAges(p)'
    BY <2>1, <2>2 DEF Ages, FileAges, NotNewer, Clock
  <2>4. ASSUME NEW p \in Paths,
               NEW x \in {content'[p], staging'[p], site'[p]}
        PROVE  NotNewer(x, build[w].pages[p])
    BY <2>1, <2>2 DEF Ages, BuildAges, NotNewer
  <2>5. ASSUME NEW p \in Paths PROVE NotNewer(site[p], staging[p])'
    BY <2>1 DEF Ages, BuildAges, NotNewer
  <2> QED
    BY <2>1, <2>2, <2>3, <2>4, <2>5, FilesAge
<1>6. ASSUME NEW w \in Workers,
             TruncateManifest(w) \/ WriteManifest(w) \/ WriteNav(w)
             \/ EndPromotion(w) \/ WriteIndex(w)
      PROVE  Ages'
  <2>1. /\ UNCHANGED <<corpus, history, build, content, staging, site>>
        /\ Loaded(w) /\ Loaded(w)' /\ pc'[w] # "promoting"
        /\ \A v \in Workers : v # w => pc'[v] = pc[v]
    BY <1>6 DEF TruncateManifest, WriteManifest, WriteNav, EndPromotion,
       WriteIndex, database, locals, files, TypeOK, Reach, Loaded, Building
  <2>2. ASSUME NEW p \in Paths PROVE FileAges(p)'
    BY <2>1 DEF Ages, FileAges, NotNewer, Clock
  <2>3. ASSUME NEW p \in Paths,
               NEW x \in {content'[p], staging'[p], site'[p]}
        PROVE  NotNewer(x, build[w].pages[p])
    BY <2>1 DEF Ages, BuildAges, NotNewer
  <2>4. \A p \in Paths : pc'[w] = "promoting" => NotNewer(site[p], staging[p])'
    BY <2>1
  <2> QED
    BY <2>1, <2>2, <2>3, <2>4, FilesAge
<1>7. ASSUME NEW w \in Workers,
             Retry(w) \/ TakeLock(w) \/ LoadRoutes(w) \/ Check(w) \/ Raise(w)
      PROVE  Ages'
  <2>1. /\ UNCHANGED <<corpus, history, files>>
        /\ \A v \in Workers : build'[v].pages = build[v].pages
        /\ \A v \in Workers : v # w => pc'[v] = pc[v]
        /\ pc'[w] \in {"waiting", "locked"} \/
              /\ pc[w] = "loading" \/ Loaded(w)
              /\ pc'[w] \in {"checking", "writing", "failing"}
    <3>1. CASE Retry(w) \/ TakeLock(w) \/ Check(w) \/ Raise(w)
      BY <3>1 DEF Retry, TakeLock, Check, Raise, database, locals, TypeOK,
                  Reach, Loaded, Building
    <3>2. CASE LoadRoutes(w)
      <4>1. \A v \in Workers : build'[v].pages = build[v].pages
        BY <3>2 DEF LoadRoutes, TypeOK, States
      <4> QED
        BY <3>2, <4>1 DEF LoadRoutes, TypeOK, Reach
    <3> QED
      BY <1>7, <3>1, <3>2
  <2> QED
    BY <2>1, AgesKept DEF Loaded, Building
<1>8. ASSUME NEW w \in Workers, Complete(w) \/ RecordFailure(w)
                                \/ AttachReceipt(w) \/ LoseDatabase(w)
      PROVE  Ages'
  <2>1. /\ UNCHANGED <<corpus, history, files>>
        /\ \A v \in Workers : v # w => pc'[v] = pc[v] /\ build'[v] = build[v]
        /\ \/ pc'[w] = "idle" /\ build'[w] = NoCorpus
           \/ pc'[w] = "attaching" /\ build'[w] = build[w]
    <3>1. CASE Complete(w) \/ RecordFailure(w)
      BY <3>1 DEF Complete, RecordFailure, Settle, Leave, Reach, locals, TypeOK
    <3>2. CASE AttachReceipt(w) \/ LoseDatabase(w)
      BY <3>2 DEF AttachReceipt, LoseDatabase, Leave, Reach, TypeOK, database
    <3> QED
      BY <1>8, <3>1, <3>2
  <2> QED
    BY <2>1, AgesKept DEF Loaded, Building
<1>9. CASE Crash
  <2>1. /\ UNCHANGED <<corpus, history, files>>
        /\ \A v \in Workers : pc'[v] = "idle" /\ build'[v] = NoCorpus
    BY <1>9 DEF Crash, Idle, database
  <2> QED
    BY <2>1, AgesKept
<1>10. CASE UNCHANGED vars
  BY <1>10, AgesKept DEF vars, database, process, locals, Loaded
<1> QED
  BY <1>1, <1>2, <1>3, <1>4, <1>5, <1>6, <1>7, <1>8, <1>9, <1>10, Steps
  DEF Inside

-----------------------------------------------------------------------------
(***************************************************************************)
(* The theorems.                                                           *)
(***************************************************************************)
LEMMA InitInductive == Init => Inductive
<1> SUFFICES ASSUME Init PROVE Inductive
  OBVIOUS
<1>1. TypeOK
  BY InitType
<1>2. LockHeld /\ NothingMissed
  BY DeploymentAssumption
  DEF Init, LockHeld, NothingMissed, Holding, Loaded, Behind, Building, Idle
<1>3. RequestsTracked /\ ReleaseHasChange
  BY DEF Init, RequestsTracked, Tracked, ReleaseHasChange, TargetsInclude,
         ReceiptsName, Loaded, Building, Idle
<1>4. Ages
  BY DEF Init, Ages, FileAges, BuildAges, NotNewer, Clock, NoCorpus, NoPages,
         Loaded, Building, Idle
<1>5. BuildStages /\ CertifiedIsServed
  BY DEF Init, BuildStages, CertifiedIsServed, Idle, Indexed, Promoted,
         Staged, Routed, Listed, Copied
<1> QED
  BY <1>1, <1>2, <1>3, <1>4, <1>5 DEF Inductive

LEMMA NextInductive == Inductive /\ [Next]_vars => Inductive'
<1> SUFFICES ASSUME Inductive, [Next]_vars PROVE Inductive'
  OBVIOUS
<1> USE DEF Inductive
<1>1. TypeOK'
  BY NextType
<1>2. LockHeld' /\ NothingMissed'
  BY LockStep, MissedStep
<1>3. RequestsTracked' /\ ReleaseHasChange'
  BY TrackedStep, ReleaseStep
<1>4. Ages' /\ BuildStages' /\ CertifiedIsServed'
  BY AgesStep, StagesStep, ServedStep
<1> QED
  BY <1>1, <1>2, <1>3, <1>4

\* The inductive invariant of deployments.
THEOREM Invariant == Spec => []Inductive
BY InitInductive, NextInductive, PTL DEF Spec

\* No commit is forgotten: the certification names another state than the
\* committed one only while a request is on its way or after one died.
THEOREM DriftAccounted == Spec => []DriftIsAccounted
<1>1. Inductive => DriftIsAccounted
  BY DEF Inductive, NothingMissed, Waiting, DriftIsAccounted, Deploying,
         Holding, Loaded, Building
<1> QED
  BY <1>1, Invariant, PTL

\* What a CURRENT certification names is what is served, but for orphans.
THEOREM ServedAsCertified == Spec => []CertifiedIsServed
<1>1. Inductive => CertifiedIsServed
  BY DEF Inductive
<1> QED
  BY <1>1, Invariant, PTL

\* The deployment of a change builds a corpus that has the change in it.
THEOREM ReleasesHaveTheirChange == Spec => []ReleaseHasChange
<1>1. Inductive => ReleaseHasChange
  BY DEF Inductive
<1> QED
  BY <1>1, Invariant, PTL

\* No release takes a page back to an older revision.
THEOREM ReleasesAdvance == Spec => NoOlderRelease
<1> DEFINE Advances == \A p \in Paths : {site[p], site'[p]} \subseteq Nat \ {0}
                                            => site'[p] >= site[p]
<1>1. Inductive /\ [Next]_vars => [Advances]_vars
  <2> SUFFICES ASSUME Inductive, Next PROVE Advances
    BY DEF vars, files
  <2>1. ASSUME NEW w \in Workers, NEW q \in Paths, PromoteFile(w, q)
        PROVE  Advances
    <3>1. /\ pc[w] = "promoting"
          /\ \A p \in Paths : site'[p] \in {site[p], staging[p]}
      BY <2>1 DEF PromoteFile, Inductive, TypeOK
    <3> QED
      BY <3>1 DEF Inductive, Ages, BuildAges, NotNewer
  <2>2. CASE site' = site
    BY <2>2
  <2>3. site' = site \/ \E w \in Workers : \E q \in Paths : PromoteFile(w, q)
    BY ZenonT(60) DEF Next, Work, Publish, Retry, TakeLock, LoadPages, LoadRoutes, Check,
       UnlinkFile, WriteFile, TruncateManifest, WriteManifest, WriteNav,
       BuildSite, EndPromotion, WriteIndex, Raise, Complete, RecordFailure,
       Settle, AttachReceipt, LoseDatabase, Crash, files
  <2> QED
    BY <2>1, <2>2, <2>3
<1> QED
  BY <1>1, Invariant, PTL DEF Spec, NoOlderRelease
=============================================================================

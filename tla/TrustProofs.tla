---------------------------- MODULE TrustProofs ----------------------------
(***************************************************************************)
(* Proofs about Trust, for every value of its constants.                   *)
(***************************************************************************)
EXTENDS Trust, SequenceTheorems, TLAPS

-----------------------------------------------------------------------------
(***************************************************************************)
(* Types.                                                                  *)
(***************************************************************************)
LEMMA NewPageType == NewPage \in Row
BY TrustAssumption DEF NewPage, Row, Dates

LEMMA InitType == Init => TypeOK
<1> SUFFICES ASSUME Init PROVE TypeOK
  OBVIOUS
<1>1. /\ page \in [Pages -> Row]
      /\ verifications \in [Pages -> Seq(Verification)]
      /\ history \in [Pages -> Seq(Row)]
  BY NewPageType DEF Init
<1>2. /\ pageLock \in [Pages -> Workers \cup {None}]
      /\ rowLock \in [Pages -> Workers \cup {None}]
      /\ pc \in [Workers -> Stages]
  BY DEF Init, Stages
<1>3. /\ subject \in [Workers -> Pages \cup {None}]
      /\ seen \in [Workers -> Row]
      /\ loaded \in [Workers -> [Pages -> Row]]
  BY NewPageType DEF Init, NothingLoaded
<1>4. /\ todo \in [Workers -> SUBSET Pages]
      /\ scope \in [Workers -> SUBSET Pages]
      /\ cutoff \in [Workers -> 0..MaxTime]
      /\ known \in [Workers -> [Pages -> Nat]]
  BY TrustAssumption DEF Init, NoneSeen
<1> QED
  BY <1>1, <1>2, <1>3, <1>4 DEF TypeOK

\* The end of a request keeps types, frees its locks and no others.
LEMMA FinishType ==
    ASSUME TypeOK, NEW w \in Workers, Finish(w)
    PROVE  /\ pageLock' \in [Pages -> Workers \cup {None}]
           /\ rowLock' \in [Pages -> Workers \cup {None}]
           /\ pc' \in [Workers -> Stages]
           /\ subject' \in [Workers -> Pages \cup {None}]
           /\ seen' \in [Workers -> Row]
           /\ loaded' \in [Workers -> [Pages -> Row]]
           /\ todo' \in [Workers -> SUBSET Pages]
           /\ scope' \in [Workers -> SUBSET Pages]
           /\ cutoff' \in [Workers -> 0..MaxTime]
           /\ known' \in [Workers -> [Pages -> Nat]]
<1>1. /\ pageLock' \in [Pages -> Workers \cup {None}]
      /\ rowLock' \in [Pages -> Workers \cup {None}]
      /\ pc' \in [Workers -> Stages]
  BY DEF TypeOK, Finish, Released, Reach, Stages
<1>2. /\ subject' \in [Workers -> Pages \cup {None}]
      /\ seen' \in [Workers -> Row]
      /\ loaded' \in [Workers -> [Pages -> Row]]
  BY NewPageType DEF TypeOK, Finish, NothingLoaded
<1>3. /\ todo' \in [Workers -> SUBSET Pages]
      /\ scope' \in [Workers -> SUBSET Pages]
      /\ cutoff' \in [Workers -> 0..MaxTime]
      /\ known' \in [Workers -> [Pages -> Nat]]
  BY TrustAssumption DEF TypeOK, Finish, NoneSeen
<1> QED
  BY <1>1, <1>2, <1>3

\* What marking does to the verifications of a page.
LEMMA MarkedType ==
    ASSUME TypeOK, NEW p \in Pages,
           NEW state \in {"REVOKED", "EXPIRED", "OUTDATED"}
    PROVE  /\ Marked(p, state) \in Seq(Verification)
           /\ Len(Marked(p, state)) = Len(verifications[p])
           /\ \A n \in 1..Len(verifications[p]) :
                 /\ Marked(p, state)[n].state # "VERIFIED"
                 /\ Marked(p, state)[n].revision = verifications[p][n].revision
                 /\ Marked(p, state)[n].expires = verifications[p][n].expires
<1> DEFINE rows == verifications[p]
<1>1. rows \in Seq(Verification)
  BY DEF TypeOK
<1>2. /\ Len(rows) \in Nat
      /\ \A n \in 1..Len(rows) : rows[n] \in Verification
  BY <1>1, ElementOfSeq, LenProperties
<1>3. \A n \in 1..Len(rows) :
          [rows[n] EXCEPT !.state = state] \in Verification
  BY <1>2 DEF Verification
<1>4. Marked(p, state) = [n \in 1..Len(rows) |->
          IF n \in Verified(p) THEN [rows[n] EXCEPT !.state = state]
          ELSE rows[n]]
  BY DEF Marked
<1>5. Marked(p, state) \in [1..Len(rows) -> Verification]
  BY <1>2, <1>3, <1>4
<1>6. /\ Marked(p, state) \in Seq(Verification)
      /\ Len(Marked(p, state)) = Len(rows)
  BY <1>2, <1>5, IsASeq, LenProperties, <1>4
<1>7. ASSUME NEW n \in 1..Len(rows)
      PROVE  /\ Marked(p, state)[n].state # "VERIFIED"
             /\ Marked(p, state)[n].revision = rows[n].revision
             /\ Marked(p, state)[n].expires = rows[n].expires
  <2>1. rows[n] \in Verification
    BY <1>2
  <2>2. n \in Verified(p) <=> rows[n].state = "VERIFIED"
    BY DEF Verified
  <2> QED
    BY <2>1, <2>2, <1>4 DEF Verification
<1> QED
  BY <1>6, <1>7

\* What an edit of metadata leaves in the tables.
LEMMA ReplaceType ==
    ASSUME TypeOK, NEW p \in Pages, NEW old \in Row, NEW new \in Row,
           Replace(p, old, new)
    PROVE  /\ page' \in [Pages -> Row]
           /\ history' \in [Pages -> Seq(Row)]
BY AppendProperties DEF TypeOK, Replace

LEMMA EditedType ==
    ASSUME NEW row \in Row
    PROVE  /\ Edited(row) \in Row
           /\ Edited(row).revision = row.revision + 1
           /\ Edited(row).version = row.version
           /\ Edited(row).owner = row.owner
           /\ Edited(row).verifiable = row.verifiable
           /\ Edited(row).verification =
                 IF row.verification = "VERIFIED" THEN "OUTDATED"
                 ELSE row.verification
<1> DEFINE state == IF row.verification = "VERIFIED" THEN "OUTDATED"
                    ELSE row.verification
           due == IF row.verification = "VERIFIED" THEN 0 ELSE row.due
           result == [row EXCEPT !.revision = row.revision + 1,
                                 !.verification = state, !.due = due]
<1>1. /\ row.revision + 1 \in Nat
      /\ state \in {"UNVERIFIED", "VERIFIED", "OUTDATED", "EXPIRED"}
      /\ due \in Dates
  BY TrustAssumption DEF Row, Dates
<1>2. Edited(row) = result
  BY DEF Edited
<1> HIDE DEF state, due
<1>3. /\ result \in Row
      /\ result.revision = row.revision + 1
      /\ result.version = row.version
      /\ result.owner = row.owner
      /\ result.verifiable = row.verifiable
      /\ result.verification = state
  BY <1>1 DEF Row
<1> HIDE DEF result
<1> QED
  BY <1>2, <1>3 DEF state

\* The request variables keep their types at each step that is not its last.
LEMMA StepTypes ==
    ASSUME TypeOK, NEW w \in Workers
    PROVE  /\ \A at \in Stages : Reach(w, at) => pc' \in [Workers -> Stages]
           /\ \A p \in Pages :
                 /\ todo' = [todo EXCEPT ![w] = @ \ {p}] =>
                       todo' \in [Workers -> SUBSET Pages]
                 /\ scope' = [scope EXCEPT ![w] = @ \cup {p}] =>
                       scope' \in [Workers -> SUBSET Pages]
                 /\ pageLock' = [pageLock EXCEPT ![p] = w] =>
                       pageLock' \in [Pages -> Workers \cup {None}]
                 /\ rowLock' = [rowLock EXCEPT ![p] = w] =>
                       rowLock' \in [Pages -> Workers \cup {None}]
                 /\ loaded' = [loaded EXCEPT ![w][p] = page[p]] =>
                       loaded' \in [Workers -> [Pages -> Row]]
           /\ todo' = [todo EXCEPT ![w] = scope[w]] =>
                 todo' \in [Workers -> SUBSET Pages]
<1>1. \A at \in Stages : Reach(w, at) => pc' \in [Workers -> Stages]
  BY DEF TypeOK, Reach
<1>2. todo' = [todo EXCEPT ![w] = scope[w]] => todo' \in [Workers -> SUBSET Pages]
  BY DEF TypeOK
<1>3. ASSUME NEW p \in Pages
      PROVE  /\ todo' = [todo EXCEPT ![w] = @ \ {p}] =>
                    todo' \in [Workers -> SUBSET Pages]
             /\ scope' = [scope EXCEPT ![w] = @ \cup {p}] =>
                    scope' \in [Workers -> SUBSET Pages]
             /\ pageLock' = [pageLock EXCEPT ![p] = w] =>
                    pageLock' \in [Pages -> Workers \cup {None}]
             /\ rowLock' = [rowLock EXCEPT ![p] = w] =>
                    rowLock' \in [Pages -> Workers \cup {None}]
             /\ loaded' = [loaded EXCEPT ![w][p] = page[p]] =>
                    loaded' \in [Workers -> [Pages -> Row]]
  <2>1. /\ todo' = [todo EXCEPT ![w] = @ \ {p}] =>
              todo' \in [Workers -> SUBSET Pages]
        /\ scope' = [scope EXCEPT ![w] = @ \cup {p}] =>
              scope' \in [Workers -> SUBSET Pages]
    <3>1. todo[w] \ {p} \in SUBSET Pages /\ scope[w] \cup {p} \in SUBSET Pages
      BY DEF TypeOK
    <3> DEFINE left == todo[w] \ {p}
               right == scope[w] \cup {p}
    <3>2. /\ [todo EXCEPT ![w] = @ \ {p}] = [todo EXCEPT ![w] = left]
          /\ [scope EXCEPT ![w] = @ \cup {p}] = [scope EXCEPT ![w] = right]
      BY DEF TypeOK
    <3> HIDE DEF left, right
    <3>3. /\ [todo EXCEPT ![w] = left] \in [Workers -> SUBSET Pages]
          /\ [scope EXCEPT ![w] = right] \in [Workers -> SUBSET Pages]
      BY <3>1 DEF TypeOK, left, right
    <3> QED
      BY <3>2, <3>3
  <2>2. /\ pageLock' = [pageLock EXCEPT ![p] = w] =>
              pageLock' \in [Pages -> Workers \cup {None}]
        /\ rowLock' = [rowLock EXCEPT ![p] = w] =>
              rowLock' \in [Pages -> Workers \cup {None}]
    BY DEF TypeOK
  <2> DEFINE mine == [loaded[w] EXCEPT ![p] = page[p]]
  <2>3. mine \in [Pages -> Row]
    BY DEF TypeOK
  <2>4. [loaded EXCEPT ![w][p] = page[p]] = [loaded EXCEPT ![w] = mine]
    BY DEF TypeOK
  <2> HIDE DEF mine
  <2>5. [loaded EXCEPT ![w] = mine] \in [Workers -> [Pages -> Row]]
    BY <2>3 DEF TypeOK
  <2> QED
    BY <2>1, <2>2, <2>4, <2>5
<1> QED
  BY <1>1, <1>2, <1>3

\* The rows that the two kinds of metadata edits write.
LEMMA EditRows ==
    ASSUME TypeOK, NEW p \in Pages
    PROVE  /\ \A verifiable \in BOOLEAN, owner \in Owners \cup {None},
                 due \in 1..MaxTime \cup {None} :
                 [page[p] EXCEPT !.verifiable = verifiable, !.owner = owner,
                                 !.due = due, !.version = @ + 1] \in Row
           /\ \A owner \in Owners :
                 [page[p] EXCEPT !.owner = owner, !.version = @ + 1] \in Row
           /\ \A due \in 1..MaxTime \cup {None} :
                 [page[p] EXCEPT !.verification = "VERIFIED", !.due = due,
                                 !.version = @ + 1] \in Row
<1>1. page[p] \in Row
  BY DEF TypeOK
<1>2. /\ page[p].version + 1 \in Nat
      /\ 1..MaxTime \cup {None} \subseteq Dates
  BY <1>1, TrustAssumption DEF Dates, Row
<1>3. ASSUME NEW verifiable \in BOOLEAN, NEW owner \in Owners \cup {None},
             NEW due \in 1..MaxTime \cup {None}
      PROVE  [page[p] EXCEPT !.verifiable = verifiable, !.owner = owner,
                             !.due = due, !.version = @ + 1] \in Row
  BY <1>1, <1>2 DEF Row
<1>4. ASSUME NEW owner \in Owners
      PROVE  [page[p] EXCEPT !.owner = owner, !.version = @ + 1] \in Row
  BY <1>1, <1>2 DEF Row
<1>5. ASSUME NEW due \in 1..MaxTime \cup {None}
      PROVE  [page[p] EXCEPT !.verification = "VERIFIED", !.due = due,
                             !.version = @ + 1] \in Row
  BY <1>1, <1>2 DEF Row
<1> QED
  BY <1>3, <1>4, <1>5

LEMMA NextType ==
    ASSUME TypeOK, PageLocksHeld, [Next]_vars
    PROVE  TypeOK'
<1>1. CASE UNCHANGED vars
  BY <1>1 DEF TypeOK, vars, tables, locks, request
<1>2. ASSUME NEW w \in Workers, NEW p \in Pages, ReadPage(w, p)
      PROVE  TypeOK'
  <2>1. /\ subject' \in [Workers -> Pages \cup {None}]
        /\ seen' \in [Workers -> Row]
    BY <1>2 DEF ReadPage, TypeOK
  <2> QED
    BY <1>2, <2>1, StepTypes DEF ReadPage, TypeOK, Stages, tables, locks
<1>3. ASSUME NEW w \in Workers, NEW verifiable \in BOOLEAN,
             NEW owner \in Owners \cup {None},
             NEW due \in 1..MaxTime \cup {None},
             Classify(w, verifiable, owner, due)
      PROVE  TypeOK'
  <2>1. subject[w] \in Pages
    BY <1>3 DEF Classify, PageLocksHeld
  <2>2. page[subject[w]] \in Row
    BY <2>1 DEF TypeOK
  <2>3. /\ page' \in [Pages -> Row]
        /\ history' \in [Pages -> Seq(Row)]
    BY <1>3, <2>1, <2>2, EditRows, ReplaceType DEF Classify
  <2> QED
    BY <1>3, <2>3, FinishType DEF Classify, TypeOK
<1>4. ASSUME NEW w \in Workers, NEW owner \in Owners, AssignOwner(w, owner)
      PROVE  TypeOK'
  <2>1. subject[w] \in Pages
    BY <1>4 DEF AssignOwner, PageLocksHeld
  <2>2. page[subject[w]] \in Row
    BY <2>1 DEF TypeOK
  <2>3. /\ page' \in [Pages -> Row]
        /\ history' \in [Pages -> Seq(Row)]
    BY <1>4, <2>1, <2>2, EditRows, ReplaceType DEF AssignOwner
  <2> QED
    BY <1>4, <2>3, FinishType DEF AssignOwner, TypeOK
<1>5. ASSUME NEW w \in Workers, LockToVerify(w)
      PROVE  TypeOK'
  <2>1. subject[w] \in Pages
    BY <1>5 DEF LockToVerify, PageLocksHeld
  <2> QED
    BY <1>5, <2>1, StepTypes DEF LockToVerify, TypeOK, Stages, tables
<1>6. ASSUME NEW w \in Workers, NEW expires \in 1..MaxTime \cup {None},
             CommitVerify(w, expires)
      PROVE  TypeOK'
  <2>1. subject[w] \in Pages
    BY <1>6 DEF CommitVerify, PageLocksHeld
  <2>2. loaded[w][subject[w]] \in Row
    BY <2>1 DEF TypeOK
  <2>3. /\ page' \in [Pages -> Row]
        /\ history' \in [Pages -> Seq(Row)]
    BY <1>6, <2>1, <2>2, EditRows, ReplaceType DEF CommitVerify
  <2> DEFINE row == [revision |-> loaded[w][subject[w]].revision,
                     state |-> "VERIFIED", expires |-> expires]
             rows == Append(Marked(subject[w], "REVOKED"), row)
  <2>4. row \in Verification
    BY <2>2, TrustAssumption DEF Row, Verification, Dates
  <2> HIDE DEF row
  <2>5. rows \in Seq(Verification)
    BY <2>1, <2>4, MarkedType, AppendProperties
  <2> HIDE DEF rows
  <2>6. verifications' = [verifications EXCEPT ![subject[w]] = rows]
    BY <1>6 DEF CommitVerify, rows, row
  <2>7. verifications' \in [Pages -> Seq(Verification)]
    BY <2>5, <2>6 DEF TypeOK
  <2> QED
    BY <1>6, <2>3, <2>7, FinishType DEF CommitVerify, TypeOK
<1>7. ASSUME NEW w \in Workers, NEW date \in 1..MaxTime, StartExpire(w, date)
      PROVE  TypeOK'
  <2>1. /\ cutoff' \in [Workers -> 0..MaxTime]
        /\ todo' \in [Workers -> SUBSET Pages]
    BY <1>7, TrustAssumption DEF StartExpire, TypeOK, DuePages
  <2>2. [p \in Pages |-> Len(verifications[p])] \in [Pages -> Nat]
    BY LenProperties DEF TypeOK
  <2>3. known' \in [Workers -> [Pages -> Nat]]
    BY <1>7, <2>2 DEF StartExpire, TypeOK
  <2> QED
    BY <1>7, <2>1, <2>3, StepTypes
    DEF StartExpire, TypeOK, Stages, tables, locks
<1>8. ASSUME NEW w \in Workers, NEW touched \in SUBSET Pages,
             StartPublish(w, touched)
      PROVE  TypeOK'
  <2>1. /\ todo' \in [Workers -> SUBSET Pages]
        /\ scope' \in [Workers -> SUBSET Pages]
    BY <1>8 DEF StartPublish, TypeOK
  <2> QED
    BY <1>8, <2>1, StepTypes DEF StartPublish, TypeOK, Stages, tables, locks
<1>9. ASSUME NEW w \in Workers, Finish(w), UNCHANGED tables
      PROVE  TypeOK'
  BY <1>9, FinishType DEF TypeOK, tables
<1>10. ASSUME NEW w \in Workers, NEW p \in Pages, ExpireRow(w, p)
       PROVE  TypeOK'
  <2>1. /\ todo' \in [Workers -> SUBSET Pages]
        /\ scope' \in [Workers -> SUBSET Pages]
        /\ rowLock' \in [Pages -> Workers \cup {None}]
    BY <1>10, StepTypes DEF ExpireRow, TypeOK
  <2> QED
    BY <1>10, <2>1 DEF ExpireRow, TypeOK, tables
<1>11. ASSUME NEW w \in Workers, NEW p \in Pages, ExpirePage(w, p)
       PROVE  TypeOK'
  <2>1. /\ todo' \in [Workers -> SUBSET Pages]
        /\ pageLock' \in [Pages -> Workers \cup {None}]
    BY <1>11, StepTypes DEF ExpirePage, TypeOK
  <2> QED
    BY <1>11, <2>1 DEF ExpirePage, TypeOK, tables
<1>12. ASSUME NEW w \in Workers, NEW p \in Pages, LockPage(w, p)
       PROVE  TypeOK'
  <2>1. /\ todo' \in [Workers -> SUBSET Pages]
        /\ pageLock' \in [Pages -> Workers \cup {None}]
        /\ loaded' \in [Workers -> [Pages -> Row]]
    BY <1>12, StepTypes DEF LockPage
  <2> QED
    BY <1>12, <2>1 DEF LockPage, TypeOK, tables
<1>13. ASSUME NEW w \in Workers, NEW p \in Pages, OutdateRow(w, p)
       PROVE  TypeOK'
  <2>1. /\ todo' \in [Workers -> SUBSET Pages]
        /\ rowLock' \in [Pages -> Workers \cup {None}]
    BY <1>13, StepTypes DEF OutdateRow, TypeOK
  <2> QED
    BY <1>13, <2>1 DEF OutdateRow, TypeOK, tables
<1>14. ASSUME NEW w \in Workers, RowsExpired(w) \/ PagesLocked(w)
       PROVE  TypeOK'
  BY <1>14, StepTypes DEF RowsExpired, PagesLocked, TypeOK, Stages, tables, locks
<1>15. ASSUME NEW w \in Workers, CommitExpire(w)
       PROVE  TypeOK'
  <2>1. verifications' \in [Pages -> Seq(Verification)]
    BY <1>15, MarkedType DEF CommitExpire, TypeOK
  <2>2. cutoff[w] \in Dates
    BY DEF TypeOK, Dates
  <2>3. ASSUME NEW p \in Pages
        PROVE  [page[p] EXCEPT !.verification = "EXPIRED",
                      !.due = IF @ = None THEN cutoff[w] ELSE @] \in Row
    <3> DEFINE due == IF page[p].due = None THEN cutoff[w] ELSE page[p].due
    <3>1. page[p] \in Row
      BY DEF TypeOK
    <3>2. due \in Dates
      BY <2>2, <3>1 DEF Row
    <3> HIDE DEF due
    <3>3. [page[p] EXCEPT !.verification = "EXPIRED", !.due = due] \in Row
      BY <3>1, <3>2 DEF Row
    <3> QED
      BY <3>3 DEF due
  <2>4. page' \in [Pages -> Row]
    BY <1>15, <2>3 DEF CommitExpire, TypeOK
  <2> QED
    BY <1>15, <2>1, <2>4, FinishType DEF CommitExpire, TypeOK
<1>16. ASSUME NEW w \in Workers, CommitPublish(w)
       PROVE  TypeOK'
  <2>1. verifications' \in [Pages -> Seq(Verification)]
    BY <1>16, MarkedType DEF CommitPublish, TypeOK
  <2>2. \A p \in Pages : Edited(loaded[w][p]) \in Row
    BY EditedType DEF TypeOK
  <2>3. page' \in [Pages -> Row]
    BY <1>16, <2>2 DEF CommitPublish, TypeOK
  <2> QED
    BY <1>16, <2>1, <2>3, FinishType DEF CommitPublish, TypeOK
<1> QED
  BY <1>1, <1>2, <1>3, <1>4, <1>5, <1>6, <1>7, <1>8, <1>9, <1>10, <1>11,
     <1>12, <1>13, <1>14, <1>15, <1>16
  DEF Next, Client, Step, Crash, BreakDeadlock, Refuse

-----------------------------------------------------------------------------
(***************************************************************************)
(* Who is affected by a step.                                              *)
(***************************************************************************)
Act(w) == Client(w) \/ Step(w) \/ Crash(w)

\* What a step of w leaves alone of another request.
Spares(w, u) ==
    /\ pc'[u] = pc[u] /\ subject'[u] = subject[u] /\ seen'[u] = seen[u]
    /\ loaded'[u] = loaded[u] /\ todo'[u] = todo[u] /\ scope'[u] = scope[u]
    /\ cutoff'[u] = cutoff[u] /\ known'[u] = known[u]
    /\ \A p \in Pages : /\ pageLock'[p] = u <=> pageLock[p] = u
                        /\ rowLock'[p] = u <=> rowLock[p] = u

\* What the end of a request does to it.
Ended(w) ==
    /\ pc'[w] = "idle"
    /\ \A p \in Pages : pageLock'[p] # w /\ rowLock'[p] # w

LEMMA FinishSpares ==
    ASSUME TypeOK, NEW w \in Workers, Finish(w)
    PROVE  Ended(w) /\ \A u \in Workers \ {w} : Spares(w, u)
<1>1. Ended(w)
  BY TrustAssumption DEF Finish, Ended, Reach, Released, TypeOK
<1>2. ASSUME NEW u \in Workers \ {w}
      PROVE  Spares(w, u)
  <2>1. /\ pc'[u] = pc[u] /\ subject'[u] = subject[u] /\ seen'[u] = seen[u]
        /\ loaded'[u] = loaded[u] /\ todo'[u] = todo[u]
        /\ scope'[u] = scope[u]
        /\ cutoff'[u] = cutoff[u] /\ known'[u] = known[u]
    BY DEF Finish, Reach, TypeOK
  <2>2. ASSUME NEW p \in Pages
        PROVE  /\ pageLock'[p] = u <=> pageLock[p] = u
               /\ rowLock'[p] = u <=> rowLock[p] = u
    <3>1. u # None
      BY TrustAssumption
    <3> QED
      BY <3>1 DEF Finish, Released
  <2> QED
    BY <2>1, <2>2 DEF Spares
<1> QED
  BY <1>1, <1>2

\* No step touches another request's stage, memory or locks.
LEMMA OthersSpared ==
    ASSUME TypeOK, NEW w \in Workers, Act(w)
    PROVE  \A u \in Workers \ {w} : Spares(w, u)
<1> SUFFICES ASSUME NEW u \in Workers \ {w} PROVE Spares(w, u)
  OBVIOUS
<1>1. u # None /\ u # w
  BY TrustAssumption
<1>2. ASSUME NEW p \in Pages, ReadPage(w, p) PROVE Spares(w, u)
  BY <1>1, <1>2 DEF ReadPage, Spares, Reach, TypeOK, locks
<1>3. ASSUME LockToVerify(w) PROVE Spares(w, u)
  BY <1>1, <1>3 DEF LockToVerify, Spares, Reach, TypeOK
<1>4. ASSUME NEW date \in 1..MaxTime, StartExpire(w, date) PROVE Spares(w, u)
  BY <1>1, <1>4 DEF StartExpire, Spares, Reach, TypeOK, locks
<1>5. ASSUME NEW touched \in SUBSET Pages, StartPublish(w, touched)
      PROVE  Spares(w, u)
  BY <1>1, <1>5 DEF StartPublish, Spares, Reach, TypeOK, locks
<1>6. ASSUME NEW p \in Pages, ExpireRow(w, p) PROVE Spares(w, u)
  BY <1>1, <1>6 DEF ExpireRow, Spares, TypeOK
<1>7. ASSUME NEW p \in Pages, ExpirePage(w, p) PROVE Spares(w, u)
  BY <1>1, <1>7 DEF ExpirePage, Spares, TypeOK
<1>8. ASSUME NEW p \in Pages, LockPage(w, p) PROVE Spares(w, u)
  BY <1>1, <1>8 DEF LockPage, Spares, TypeOK
<1>9. ASSUME NEW p \in Pages, OutdateRow(w, p) PROVE Spares(w, u)
  BY <1>1, <1>9 DEF OutdateRow, Spares, TypeOK
<1>10. ASSUME RowsExpired(w) \/ PagesLocked(w) PROVE Spares(w, u)
  BY <1>1, <1>10 DEF RowsExpired, PagesLocked, Spares, Reach, TypeOK, locks
<1>11. Finish(w) => Spares(w, u)
  BY FinishSpares
<1> QED
  BY <1>2, <1>3, <1>4, <1>5, <1>6, <1>7, <1>8, <1>9, <1>10, <1>11
  DEF Act, Client, Step, Crash, BreakDeadlock, Refuse, Classify, AssignOwner,
      CommitVerify, CommitExpire, CommitPublish

LEMMA PageLocksStep ==
    ASSUME TypeOK, PageLocksHeld, RowLocksHeld, NEW w \in Workers, Act(w)
    PROVE  PageLocksHeld'
<1> DEFINE Held(u) ==
        /\ pc[u] \in {"read", "verifying"} => subject[u] \in Pages
        /\ pc[u] \in {"idle", "read", "expiring"} =>
              \A p \in Pages : pageLock[p] # u
        /\ pc[u] = "verifying" => pageLock[subject[u]] = u
        /\ pc[u] = "closing" => \A p \in Pages :
              pageLock[p] = u <=> p \in scope[u] \ todo[u]
        /\ pc[u] = "locking" => \A p \in Pages \ todo[u] : pageLock[p] = u
        /\ pc[u] = "outdating" => \A p \in Pages : pageLock[p] = u
        /\ pc[u] \in {"closing", "outdating"} => todo[u] \subseteq scope[u]
<1>a. \A u \in Workers : Held(u)
  BY DEF PageLocksHeld
<1>b. w # None
  BY TrustAssumption
<1>1. \A u \in Workers \ {w} : Held(u)'
  BY <1>a, OthersSpared DEF Spares
<1>2. ASSUME NEW p \in Pages, ReadPage(w, p) PROVE Held(w)'
  BY <1>a, <1>2 DEF ReadPage, Reach, TypeOK, locks
<1>3. ASSUME LockToVerify(w) PROVE Held(w)'
  BY <1>a, <1>3 DEF LockToVerify, Reach, TypeOK
<1>4. ASSUME NEW date \in 1..MaxTime, StartExpire(w, date) PROVE Held(w)'
  BY <1>a, <1>4 DEF StartExpire, Reach, TypeOK, locks
<1>5. ASSUME NEW touched \in SUBSET Pages, StartPublish(w, touched)
      PROVE  Held(w)'
  BY <1>a, <1>5 DEF StartPublish, Reach, TypeOK, locks
<1>6. ASSUME NEW p \in Pages, ExpireRow(w, p) PROVE Held(w)'
  BY <1>a, <1>6 DEF ExpireRow, TypeOK
<1>7. ASSUME NEW p \in Pages, ExpirePage(w, p) PROVE Held(w)'
  <2>1. p \in scope[w] /\ rowLock[p] = w
    BY <1>a, <1>7 DEF ExpirePage, RowLocksHeld
  <2>2. page[p].verification = "VERIFIED"
    BY <1>b, <2>1 DEF RowLocksHeld
  <2>3. pageLock' = [pageLock EXCEPT ![p] = w]
    BY <1>7, <2>2 DEF ExpirePage
  <2> QED
    BY <1>a, <1>7, <2>1, <2>3 DEF ExpirePage, TypeOK
<1>8. ASSUME NEW p \in Pages, LockPage(w, p) PROVE Held(w)'
  BY <1>a, <1>8 DEF LockPage, TypeOK
<1>9. ASSUME NEW p \in Pages, OutdateRow(w, p) PROVE Held(w)'
  BY <1>a, <1>9 DEF OutdateRow, TypeOK
<1>10. ASSUME RowsExpired(w) \/ PagesLocked(w) PROVE Held(w)'
  BY <1>a, <1>10 DEF RowsExpired, PagesLocked, Reach, TypeOK, locks
<1>11. Finish(w) => Held(w)'
  BY FinishSpares DEF Ended
<1>12. Held(w)'
  BY <1>2, <1>3, <1>4, <1>5, <1>6, <1>7, <1>8, <1>9, <1>10, <1>11
  DEF Act, Client, Step, Crash, BreakDeadlock, Refuse, Classify, AssignOwner,
      CommitVerify, CommitExpire, CommitPublish
<1> QED
  BY <1>1, <1>12 DEF PageLocksHeld
-----------------------------------------------------------------------------
(***************************************************************************)
(* What a step makes of a page and its verifications.                      *)
(***************************************************************************)
Kept(p) == /\ page'[p] = page[p]
           /\ verifications'[p] = verifications[p]
           /\ history'[p] = history[p]

\* One more version of the metadata, the row before it kept.
NextVersion(p) ==
    /\ page'[p].version = page[p].version + 1
    /\ page'[p].revision = page[p].revision
    /\ history'[p] = Append(history[p], page[p])

\* classify and assign_owner
Described(p) ==
    /\ NextVersion(p)
    /\ page'[p].verification = page[p].verification
    /\ verifications'[p] = verifications[p]

\* verify
Certified(p) ==
    /\ NextVersion(p)
    /\ page'[p].verification = "VERIFIED"
    /\ page'[p].owner = page[p].owner
    /\ page'[p].verifiable = page[p].verifiable
    /\ Len(verifications'[p]) = Len(verifications[p]) + 1
    /\ \A n \in 1..Len(verifications[p]) :
          verifications'[p][n].state # "VERIFIED"
    /\ verifications'[p][Len(verifications[p]) + 1].state = "VERIFIED"
    /\ verifications'[p][Len(verifications[p]) + 1].revision
          = page[p].revision

\* The page stops being verified.
Withdrawn(p) ==
    /\ page'[p].verification # "VERIFIED"
    /\ page'[p].version = page[p].version
    /\ page'[p].owner = page[p].owner
    /\ page'[p].verifiable = page[p].verifiable
    /\ history'[p] = history[p]
    /\ Len(verifications'[p]) = Len(verifications[p])
    /\ \A n \in 1..Len(verifications[p]) :
          verifications'[p][n].state # "VERIFIED"

\* An edit of a page that is not verified.
Touched(p) ==
    /\ page[p].verification # "VERIFIED"
    /\ page'[p].verification = page[p].verification
    /\ page'[p].version = page[p].version
    /\ page'[p].owner = page[p].owner
    /\ page'[p].verifiable = page[p].verifiable
    /\ history'[p] = history[p]
    /\ verifications'[p] = verifications[p]

\* A step of w writes only where it may.
Effect(w, p) ==
    \/ Kept(p)
    \/ /\ pageLock[p] \in {w, None}
       /\ \/ Described(p) \/ Touched(p)
          \/ rowLock[p] \in {w, None} /\ (Certified(p) \/ Withdrawn(p))

LEMMA EditEffect ==
    ASSUME TypeOK, PageLocksHeld, NEW w \in Workers,
           \/ \E verifiable \in BOOLEAN, owner \in Owners \cup {None},
                 due \in 1..MaxTime \cup {None} :
                 Classify(w, verifiable, owner, due)
           \/ \E owner \in Owners : AssignOwner(w, owner)
    PROVE  /\ pc[w] = "read" /\ pc'[w] = "idle" /\ Fresh(w)
           /\ \A p \in Pages : Effect(w, p)
           /\ subject[w] \in Pages
<1> DEFINE s == subject[w]
<1>1. pc[w] = "read" /\ pc'[w] = "idle" /\ Fresh(w)
  BY FinishSpares DEF Classify, AssignOwner, Ended
<1>2. s \in Pages
  BY <1>1 DEF PageLocksHeld
<1>3. page[s] \in Row /\ history[s] \in Seq(Row)
  BY <1>2 DEF TypeOK
<1>4. PICK new : /\ pageLock[s] = None
                 /\ Replace(s, page[s], new)
                 /\ verifications' = verifications
                 /\ new.version = page[s].version + 1
                 /\ new.revision = page[s].revision
                 /\ new.verification = page[s].verification
  <2>1. ASSUME NEW verifiable \in BOOLEAN, NEW owner \in Owners \cup {None},
               NEW due \in 1..MaxTime \cup {None},
               Classify(w, verifiable, owner, due)
        PROVE  \E new : /\ pageLock[s] = None
                        /\ Replace(s, page[s], new)
                        /\ verifications' = verifications
                        /\ new.version = page[s].version + 1
                        /\ new.revision = page[s].revision
                        /\ new.verification = page[s].verification
    <3> DEFINE new == [page[s] EXCEPT !.verifiable = verifiable,
                                      !.owner = owner, !.due = due,
                                      !.version = @ + 1]
    <3>1. /\ new.version = page[s].version + 1
          /\ new.revision = page[s].revision
          /\ new.verification = page[s].verification
      BY <1>3 DEF Row
    <3>2. /\ pageLock[s] = None
          /\ Replace(s, page[s], new)
          /\ verifications' = verifications
      BY <2>1 DEF Classify
    <3> HIDE DEF new, s
    <3> QED
      BY <3>1, <3>2
  <2>2. ASSUME NEW owner \in Owners, AssignOwner(w, owner)
        PROVE  \E new : /\ pageLock[s] = None
                        /\ Replace(s, page[s], new)
                        /\ verifications' = verifications
                        /\ new.version = page[s].version + 1
                        /\ new.revision = page[s].revision
                        /\ new.verification = page[s].verification
    <3> DEFINE new == [page[s] EXCEPT !.owner = owner, !.version = @ + 1]
    <3>1. /\ new.version = page[s].version + 1
          /\ new.revision = page[s].revision
          /\ new.verification = page[s].verification
      BY <1>3 DEF Row
    <3>2. /\ pageLock[s] = None
          /\ Replace(s, page[s], new)
          /\ verifications' = verifications
      BY <2>2 DEF AssignOwner
    <3> HIDE DEF new, s
    <3> QED
      BY <3>1, <3>2
  <2> QED
    BY <2>1, <2>2
<1>5. ASSUME NEW p \in Pages
      PROVE  Effect(w, p)
  <2>1. CASE p = s
    BY <1>2, <1>4, <2>1 DEF Replace, Effect, Described, NextVersion, TypeOK
  <2>2. CASE p # s
    BY <1>4, <2>2 DEF Replace, Effect, Kept, TypeOK
  <2> QED
    BY <2>1, <2>2
<1> QED
  BY <1>1, <1>2, <1>5

LEMMA VerifyEffect ==
    ASSUME TypeOK, PageLocksHeld, LoadedIsCurrent, NEW w \in Workers,
           NEW expires \in 1..MaxTime \cup {None}, CommitVerify(w, expires)
    PROVE  /\ pc[w] = "verifying" /\ subject[w] \in Pages
           /\ pageLock[subject[w]] = w
           /\ Certified(subject[w])
           /\ \A p \in Pages : Effect(w, p)
<1> DEFINE s == subject[w]
           row == [revision |-> loaded[w][s].revision, state |-> "VERIFIED",
                   expires |-> expires]
           new == [page[s] EXCEPT !.verification = "VERIFIED",
                                  !.due = expires, !.version = @ + 1]
           marked == Marked(s, "REVOKED")
<1>1. pc[w] = "verifying" /\ s \in Pages /\ pageLock[s] = w
  BY DEF CommitVerify, PageLocksHeld
<1>2. loaded[w][s] = page[s] /\ page[s] \in Row
  BY <1>1 DEF LoadedIsCurrent, TypeOK
<1>3. /\ rowLock[s] = None
      /\ page' = [page EXCEPT ![s] = new]
      /\ history' = [history EXCEPT ![s] = Append(history[s], page[s])]
      /\ verifications' = [verifications EXCEPT ![s] = Append(marked, row)]
  BY <1>2 DEF CommitVerify, Replace
<1>4. /\ new.version = page[s].version + 1
      /\ new.revision = page[s].revision
      /\ new.verification = "VERIFIED"
      /\ new.owner = page[s].owner
      /\ new.verifiable = page[s].verifiable
  BY <1>2 DEF Row
<1>5. row \in Verification /\ row.state = "VERIFIED"
      /\ row.revision = page[s].revision
  BY <1>2, TrustAssumption DEF Row, Verification, Dates
<1>6. /\ marked \in Seq(Verification)
      /\ Len(marked) = Len(verifications[s])
      /\ \A n \in 1..Len(verifications[s]) : marked[n].state # "VERIFIED"
  BY <1>1, MarkedType
<1> HIDE DEF row, new, marked, s
<1>7. /\ Len(Append(marked, row)) = Len(marked) + 1
      /\ Append(marked, row)[Len(marked) + 1] = row
      /\ \A n \in 1..Len(marked) : Append(marked, row)[n] = marked[n]
  BY <1>5, <1>6, AppendProperties
<1>8. /\ page'[s] = new
      /\ history'[s] = Append(history[s], page[s])
      /\ verifications'[s] = Append(marked, row)
  BY <1>1, <1>3 DEF TypeOK
<1>9. Certified(s)
  BY <1>4, <1>5, <1>6, <1>7, <1>8 DEF Certified, NextVersion
<1>10. ASSUME NEW p \in Pages, p # s
       PROVE  Kept(p)
  BY <1>3, <1>10 DEF Kept, TypeOK
<1> QED
  BY <1>1, <1>3, <1>9, <1>10 DEF Effect, s

LEMMA ExpireEffect ==
    ASSUME TypeOK, PageLocksHeld, RowLocksHeld, NEW w \in Workers,
           CommitExpire(w), NEW p \in Pages
    PROVE  Effect(w, p)
<1>1. /\ pageLock[p] = w <=> p \in scope[w]
      /\ rowLock[p] = w <=> p \in scope[w]
  BY DEF CommitExpire, PageLocksHeld, RowLocksHeld
<1>2. history'[p] = history[p] /\ page[p] \in Row
  BY DEF CommitExpire, TypeOK
<1>3. CASE p \in scope[w]
  <2> DEFINE due == IF page[p].due = None THEN cutoff[w] ELSE page[p].due
             new == [page[p] EXCEPT !.verification = "EXPIRED", !.due = due]
  <2>1. page'[p] = new /\ verifications'[p] = Marked(p, "EXPIRED")
    BY <1>1, <1>3 DEF CommitExpire
  <2> HIDE DEF due
  <2>2. /\ new.verification = "EXPIRED"
        /\ new.version = page[p].version
        /\ new.owner = page[p].owner
        /\ new.verifiable = page[p].verifiable
    BY <1>2 DEF Row
  <2>3. Withdrawn(p)
    BY <1>2, <2>1, <2>2, MarkedType DEF Withdrawn
  <2> QED
    BY <1>1, <1>3, <2>3 DEF Effect
<1>4. CASE p \notin scope[w]
  BY <1>1, <1>2, <1>4 DEF CommitExpire, Effect, Kept
<1> QED
  BY <1>3, <1>4

LEMMA PublishEffect ==
    ASSUME TypeOK, PageLocksHeld, RowLocksHeld, LoadedIsCurrent,
           NEW w \in Workers, CommitPublish(w), NEW p \in Pages
    PROVE  Effect(w, p)
<1>1. /\ pageLock[p] = w /\ loaded[w][p] = page[p]
      /\ rowLock[p] = w <=> /\ p \in scope[w]
                            /\ page[p].verification = "VERIFIED"
  BY DEF CommitPublish, PageLocksHeld, RowLocksHeld, LoadedIsCurrent
<1>2. history'[p] = history[p] /\ page[p] \in Row
  BY DEF CommitPublish, TypeOK
<1>3. CASE p \notin scope[w]
  BY <1>1, <1>2, <1>3 DEF CommitPublish, Effect, Kept
<1>4. CASE p \in scope[w]
  <2>1. page'[p] = Edited(page[p])
    BY <1>1, <1>4 DEF CommitPublish
  <2>2. CASE page[p].verification = "VERIFIED"
    <3>1. verifications'[p] = Marked(p, "OUTDATED")
      BY <1>1, <1>4, <2>2 DEF CommitPublish
    <3>2. Withdrawn(p)
      BY <1>2, <2>1, <2>2, <3>1, EditedType, MarkedType DEF Withdrawn
    <3> QED
      BY <1>1, <1>4, <2>2, <3>2 DEF Effect
  <2>3. CASE page[p].verification # "VERIFIED"
    <3>1. verifications'[p] = verifications[p]
      BY <1>1, <2>3 DEF CommitPublish
    <3>2. Touched(p)
      BY <1>2, <2>1, <2>3, <3>1, EditedType DEF Touched
    <3> QED
      BY <1>1, <3>2 DEF Effect
  <2> QED
    BY <2>2, <2>3
<1> QED
  BY <1>3, <1>4

\* All other steps leave the tables alone.
LEMMA Effects ==
    ASSUME TypeOK, PageLocksHeld, RowLocksHeld, LoadedIsCurrent,
           NEW w \in Workers, Act(w), NEW p \in Pages
    PROVE  Effect(w, p)
<1>1. UNCHANGED tables => Effect(w, p)
  BY DEF tables, Effect, Kept
<1> QED
  BY <1>1, EditEffect, VerifyEffect, ExpireEffect, PublishEffect
  DEF Act, Client, Step, Crash, BreakDeadlock, Refuse, ReadPage, LockToVerify,
      StartExpire, StartPublish, ExpireRow, ExpirePage, LockPage, OutdateRow,
      RowsExpired, PagesLocked
-----------------------------------------------------------------------------
(***************************************************************************)
(* The inductive invariant.                                                *)
(***************************************************************************)
LEMMA RowLocksStep ==
    ASSUME TypeOK, PageLocksHeld, RowLocksHeld, LoadedIsCurrent,
           VerifiedIsCurrent, NEW w \in Workers, Act(w)
    PROVE  RowLocksHeld'
<1> DEFINE Held(u) == (pc[u] = "idle" => scope[u] = {}) /\ \A p \in Pages :
          /\ pc[u] \in {"idle", "read", "verifying", "locking"} =>
                rowLock[p] # u
          /\ pc[u] \in {"expiring", "closing"} =>
                (rowLock[p] = u <=> p \in scope[u])
          /\ pc[u] = "outdating" =>
                (rowLock[p] = u <=> /\ p \in scope[u] \ todo[u]
                                   /\ page[p].verification = "VERIFIED")
<1>a. \A u \in Workers : Held(u)
  BY DEF RowLocksHeld
<1>b. w # None
  BY TrustAssumption
<1>1. ASSUME NEW u \in Workers \ {w}
      PROVE  Held(u)'
  <2>1. Spares(w, u) /\ Held(u)
    BY <1>a, OthersSpared
  <2>2. pc[u] = "outdating" => \A p \in Pages : page'[p] = page[p]
    <3>1. pc[u] = "outdating" => \A p \in Pages : pageLock[p] = u
      BY DEF PageLocksHeld
    <3>2. u # None /\ u # w
      BY TrustAssumption
    <3> QED
      BY <3>1, <3>2, Effects DEF Effect, Kept
  <2> QED
    BY <2>1, <2>2 DEF Spares
<1>2. ASSUME NEW p \in Pages, ReadPage(w, p) PROVE Held(w)'
  BY <1>a, <1>2 DEF ReadPage, Reach, TypeOK, locks
<1>3. ASSUME LockToVerify(w) PROVE Held(w)'
  BY <1>a, <1>3 DEF LockToVerify, Reach, TypeOK
<1>4. ASSUME NEW date \in 1..MaxTime, StartExpire(w, date) PROVE Held(w)'
  <2>1. scope[w] = {}
    BY <1>a, <1>4 DEF StartExpire
  <2> QED
    BY <1>a, <1>4, <2>1 DEF StartExpire, Reach, TypeOK, locks
<1>5. ASSUME NEW touched \in SUBSET Pages, StartPublish(w, touched)
      PROVE  Held(w)'
  BY <1>a, <1>5 DEF StartPublish, Reach, TypeOK, locks
<1>6. ASSUME NEW p \in Pages, ExpireRow(w, p) PROVE Held(w)'
  BY <1>a, <1>b, <1>6 DEF ExpireRow, TypeOK
<1>7. ASSUME NEW p \in Pages, ExpirePage(w, p) PROVE Held(w)'
  BY <1>a, <1>7 DEF ExpirePage, TypeOK
<1>8. ASSUME NEW p \in Pages, LockPage(w, p) PROVE Held(w)'
  BY <1>a, <1>8 DEF LockPage, TypeOK
<1>9. ASSUME NEW p \in Pages, OutdateRow(w, p) PROVE Held(w)'
  <2>1. /\ loaded[w][p] = page[p]
        /\ todo[w] \subseteq scope[w]
    BY <1>9 DEF OutdateRow, PageLocksHeld, LoadedIsCurrent
  <2> QED
    BY <1>a, <1>b, <1>9, <2>1 DEF OutdateRow, First, TypeOK, tables
<1>10. ASSUME RowsExpired(w) \/ PagesLocked(w) PROVE Held(w)'
  BY <1>a, <1>10 DEF RowsExpired, PagesLocked, Reach, TypeOK, locks, tables
<1>11. Finish(w) => Held(w)'
  BY FinishSpares DEF Ended, Finish, TypeOK
<1>12. Held(w)'
  BY <1>2, <1>3, <1>4, <1>5, <1>6, <1>7, <1>8, <1>9, <1>10, <1>11
  DEF Act, Client, Step, Crash, BreakDeadlock, Refuse, Classify, AssignOwner,
      CommitVerify, CommitExpire, CommitPublish
<1> HIDE DEF Held
<1>13. ASSUME NEW p \in Pages, rowLock'[p] # None
       PROVE  page'[p].verification = "VERIFIED"
  <2>1. CASE rowLock[p] \notin {w, None}
    <3>1. page[p].verification = "VERIFIED"
      BY <2>1 DEF RowLocksHeld
    <3>2. Effect(w, p)
      BY Effects
    <3> QED
      BY <2>1, <3>1, <3>2 DEF Effect, Kept, Described, Touched
  <2>2. CASE rowLock[p] \in {w, None}
    <3>1. rowLock'[p] = w
      <4>1. rowLock'[p] \in Workers
        BY <1>13, NextType DEF Next, Act, TypeOK
      <4> QED
        BY <2>2, <4>1, OthersSpared, TrustAssumption DEF Spares
    <3>2. ~Finish(w)
      BY <3>1, FinishSpares DEF Ended
    <3>3. UNCHANGED tables
      BY <3>2
      DEF Act, Client, Step, Crash, BreakDeadlock, Refuse, Classify,
          AssignOwner, CommitVerify, CommitExpire, CommitPublish, ReadPage,
          LockToVerify, StartExpire, StartPublish, ExpireRow, ExpirePage,
          LockPage, OutdateRow, RowsExpired, PagesLocked
    <3>4. page' = page
      BY <3>3 DEF tables
    <3>5. CASE rowLock[p] = w
      BY <1>b, <3>4, <3>5 DEF RowLocksHeld
    <3>6. CASE rowLock[p] # w
      <4>1. \/ ExpireRow(w, p) /\ DueRows(w, p) # {}
            \/ OutdateRow(w, p) /\ loaded[w][p].verification = "VERIFIED"
        <5>1. rowLock' # rowLock
          BY <3>1, <3>6
        <5>2. \/ \E q \in Pages : ExpireRow(w, q)
              \/ \E q \in Pages : OutdateRow(w, q)
          BY <3>2, <5>1
          DEF Act, Client, Step, Crash, BreakDeadlock, Refuse, Classify,
              AssignOwner, CommitVerify, CommitExpire, CommitPublish, ReadPage,
              LockToVerify, StartExpire, StartPublish, ExpirePage, LockPage,
              RowsExpired, PagesLocked, locks
        <5>3. ASSUME NEW q \in Pages, ExpireRow(w, q)
              PROVE  q = p /\ DueRows(w, p) # {}
          BY <3>1, <3>6, <5>3 DEF ExpireRow, TypeOK
        <5>4. ASSUME NEW q \in Pages, OutdateRow(w, q)
              PROVE  q = p /\ loaded[w][p].verification = "VERIFIED"
          BY <3>1, <3>6, <5>4 DEF OutdateRow, TypeOK
        <5> QED
          BY <5>2, <5>3, <5>4
      <4>2. CASE ExpireRow(w, p) /\ DueRows(w, p) # {}
        BY <3>4, <4>2 DEF DueRows, VerifiedIsCurrent
      <4>3. CASE /\ OutdateRow(w, p)
                 /\ loaded[w][p].verification = "VERIFIED"
        <5>1. loaded[w][p] = page[p]
          BY <4>3 DEF OutdateRow, PageLocksHeld, LoadedIsCurrent
        <5> QED
          BY <3>4, <4>3, <5>1
      <4> QED
        BY <4>1, <4>2, <4>3
    <3> QED
      BY <3>5, <3>6
  <2> QED
    BY <2>1, <2>2
<1> QED
  BY <1>1, <1>12, <1>13 DEF RowLocksHeld, Held

LEMMA LoadedStep ==
    ASSUME TypeOK, PageLocksHeld, RowLocksHeld, LoadedIsCurrent,
           NEW w \in Workers, Act(w)
    PROVE  LoadedIsCurrent'
<1> DEFINE Current(u) ==
        /\ pc[u] \in {"verifying", "locking", "outdating"} =>
              \A p \in Pages : pageLock[p] = u => loaded[u][p] = page[p]
        /\ pc[u] = "verifying" =>
              loaded[u][subject[u]].revision = seen[u].revision
<1>a. \A u \in Workers : Current(u)
  BY DEF LoadedIsCurrent
<1>1. ASSUME NEW u \in Workers \ {w}
      PROVE  Current(u)'
  <2>1. Spares(w, u) /\ Current(u)
    BY <1>a, OthersSpared
  <2>2. u # None /\ u # w
    BY TrustAssumption
  <2>3. \A p \in Pages : pageLock[p] = u => page'[p] = page[p]
    BY <2>2, Effects DEF Effect, Kept
  <2> QED
    BY <2>1, <2>3 DEF Spares
<1>2. ASSUME NEW p \in Pages, ReadPage(w, p) PROVE Current(w)'
  BY <1>2 DEF ReadPage, Reach, TypeOK
<1>3. ASSUME LockToVerify(w) PROVE Current(w)'
  <2>1. subject[w] \in Pages /\ \A p \in Pages : pageLock[p] # w
    BY <1>3 DEF LockToVerify, PageLocksHeld
  <2> QED
    BY <1>3, <2>1 DEF LockToVerify, Reach, TypeOK, tables
<1>4. ASSUME NEW date \in 1..MaxTime, StartExpire(w, date) PROVE Current(w)'
  BY <1>4 DEF StartExpire, Reach, TypeOK
<1>5. ASSUME NEW touched \in SUBSET Pages, StartPublish(w, touched)
      PROVE  Current(w)'
  <2>1. \A p \in Pages : pageLock[p] # w
    BY <1>5 DEF StartPublish, PageLocksHeld
  <2> QED
    BY <1>5, <2>1 DEF StartPublish, Reach, TypeOK, locks
<1>6. ASSUME NEW p \in Pages, ExpireRow(w, p) \/ ExpirePage(w, p)
      PROVE  Current(w)'
  BY <1>6 DEF ExpireRow, ExpirePage
<1>7. ASSUME NEW p \in Pages, LockPage(w, p) PROVE Current(w)'
  BY <1>a, <1>7 DEF LockPage, TypeOK, tables
<1>8. ASSUME NEW p \in Pages, OutdateRow(w, p) PROVE Current(w)'
  BY <1>a, <1>8 DEF OutdateRow, tables
<1>9. ASSUME RowsExpired(w) \/ PagesLocked(w) PROVE Current(w)'
  BY <1>a, <1>9 DEF RowsExpired, PagesLocked, Reach, TypeOK, locks, tables
<1>10. Finish(w) => Current(w)'
  BY FinishSpares DEF Ended
<1>11. Current(w)'
  BY <1>2, <1>3, <1>4, <1>5, <1>6, <1>7, <1>8, <1>9, <1>10
  DEF Act, Client, Step, Crash, BreakDeadlock, Refuse, Classify, AssignOwner,
      CommitVerify, CommitExpire, CommitPublish
<1> QED
  BY <1>1, <1>11 DEF LoadedIsCurrent

LEMMA VerifiedStep ==
    ASSUME TypeOK, TypeOK', VerifiedIsCurrent, NEW w \in Workers,
           \A p \in Pages : Effect(w, p)
    PROVE  VerifiedIsCurrent'
<1> SUFFICES ASSUME NEW p \in Pages
             PROVE  IF page'[p].verification = "VERIFIED"
                    THEN \E n \in Verified(p)' :
                            /\ Verified(p)' = {n}
                            /\ verifications'[p][n].revision = page'[p].revision
                    ELSE Verified(p)' = {}
  BY DEF VerifiedIsCurrent
<1>1. /\ Len(verifications[p]) \in Nat
      /\ Verified(p) = {n \in 1..Len(verifications[p]) :
                          verifications[p][n].state = "VERIFIED"}
      /\ Verified(p)' = {n \in 1..Len(verifications'[p]) :
                           verifications'[p][n].state = "VERIFIED"}
  BY LenProperties DEF TypeOK, Verified
<1>2. IF page[p].verification = "VERIFIED"
      THEN \E n \in Verified(p) :
              /\ Verified(p) = {n}
              /\ verifications[p][n].revision = page[p].revision
      ELSE Verified(p) = {}
  BY DEF VerifiedIsCurrent
<1>3. CASE Kept(p)
  BY <1>1, <1>2, <1>3 DEF Kept
<1>4. CASE Described(p)
  BY <1>1, <1>2, <1>4 DEF Described, NextVersion
<1>5. CASE Touched(p)
  BY <1>1, <1>2, <1>5 DEF Touched
<1>6. CASE Certified(p)
  <2> DEFINE m == Len(verifications[p]) + 1
  <2>1. Verified(p)' = {m}
    BY <1>1, <1>6 DEF Certified
  <2>2. verifications'[p][m].revision = page'[p].revision
    BY <1>6 DEF Certified, NextVersion
  <2> QED
    BY <1>6, <2>1, <2>2 DEF Certified
<1>7. CASE Withdrawn(p)
  BY <1>1, <1>7 DEF Withdrawn
<1> QED
  BY <1>3, <1>4, <1>5, <1>6, <1>7 DEF Effect

LEMMA HistoryStep ==
    ASSUME TypeOK, MetadataHistory, NEW w \in Workers,
           \A p \in Pages : Effect(w, p)
    PROVE  MetadataHistory'
<1> SUFFICES ASSUME NEW p \in Pages
             PROVE  /\ Len(history'[p]) + 1 = page'[p].version
                    /\ \A k \in 1..Len(history'[p]) :
                          history'[p][k].version = k
  BY DEF MetadataHistory
<1>1. /\ Len(history[p]) + 1 = page[p].version
      /\ \A k \in 1..Len(history[p]) : history[p][k].version = k
      /\ history[p] \in Seq(Row) /\ page[p] \in Row
      /\ Len(history[p]) \in Nat
  BY LenProperties DEF MetadataHistory, TypeOK
<1>2. CASE NextVersion(p)
  <2>1. /\ Len(history'[p]) = Len(history[p]) + 1
        /\ history'[p][Len(history[p]) + 1] = page[p]
        /\ \A k \in 1..Len(history[p]) : history'[p][k] = history[p][k]
    BY <1>1, <1>2, AppendProperties DEF NextVersion
  <2> QED
    BY <1>1, <1>2, <2>1 DEF NextVersion
<1>3. CASE history'[p] = history[p] /\ page'[p].version = page[p].version
  BY <1>1, <1>3
<1> QED
  BY <1>2, <1>3 DEF Effect, Kept, Described, Touched, Certified, Withdrawn
LEMMA SeenStep ==
    ASSUME TypeOK, TypeOK', PageLocksHeld, SeenIsOld, NEW w \in Workers, Act(w),
           \A p \in Pages : Effect(w, p)
    PROVE  SeenIsOld'
<1> DEFINE Old(u) == pc[u] = "read" =>
        /\ seen[u].version <= page[subject[u]].version
        /\ Fresh(u) => /\ seen[u].owner = page[subject[u]].owner
                       /\ seen[u].verifiable = page[subject[u]].verifiable
<1>1. ASSUME NEW u \in Workers \ {w}
      PROVE  Old(u)'
  <2>1. SUFFICES ASSUME pc[u] = "read" PROVE Old(u)'
    BY OthersSpared DEF Spares
  <2>2. Spares(w, u) /\ Old(u) /\ subject[u] \in Pages
    BY <2>1, OthersSpared DEF SeenIsOld, PageLocksHeld
  <2> DEFINE p == subject[u]
  <2>3. /\ page[p].version \in Nat /\ seen[u].version \in Nat
        /\ subject'[u] = p /\ seen'[u] = seen[u]
        /\ Effect(w, p)
    BY <2>2 DEF TypeOK, Row, Spares
  <2> HIDE DEF p
  <2>4. \/ page'[p].version = page[p].version + 1
        \/ /\ page'[p].version = page[p].version
           /\ page'[p].owner = page[p].owner
           /\ page'[p].verifiable = page[p].verifiable
    BY <2>3 DEF Effect, Kept, Described, Touched, Certified, Withdrawn,
                NextVersion
  <2> QED
    BY <2>1, <2>2, <2>3, <2>4 DEF Fresh, p
<1>2. Old(w)'
  <2>1. ASSUME NEW p \in Pages, ReadPage(w, p) PROVE Old(w)'
    <3>1. /\ seen'[w] = page[p] /\ subject'[w] = p /\ page' = page
          /\ page[p].version \in Nat
      BY <2>1 DEF ReadPage, TypeOK, Row, tables
    <3> QED
      BY <3>1
  <2>2. pc'[w] # "read" => Old(w)'
    OBVIOUS
  <2>3. Finish(w) => Old(w)'
    BY <2>2, FinishSpares DEF Ended
  <2>4. ASSUME NEW p \in Pages,
               \/ ExpireRow(w, p) \/ ExpirePage(w, p)
               \/ LockPage(w, p) \/ OutdateRow(w, p)
        PROVE  Old(w)'
    BY <2>2, <2>4 DEF ExpireRow, ExpirePage, LockPage, OutdateRow
  <2>5. ASSUME \/ LockToVerify(w) \/ RowsExpired(w) \/ PagesLocked(w)
               \/ \E date \in 1..MaxTime : StartExpire(w, date)
               \/ \E touched \in SUBSET Pages : StartPublish(w, touched)
        PROVE  Old(w)'
    BY <2>2, <2>5 DEF LockToVerify, RowsExpired, PagesLocked, StartExpire,
                      StartPublish, Reach, TypeOK
  <2> HIDE DEF Old
  <2> QED
    BY <2>1, <2>3, <2>4, <2>5
    DEF Act, Client, Step, Crash, BreakDeadlock, Refuse, Classify, AssignOwner,
        CommitVerify, CommitExpire, CommitPublish
<1> QED
  BY <1>1, <1>2 DEF SeenIsOld, Fresh

\* A verification that an expiry left behind does not come back to it.
LEMMA NothingComesBack ==
    ASSUME TypeOK, TypeOK', NEW w \in Workers, NEW p \in Pages, Effect(w, p),
           NEW u \in Workers, known'[u] = known[u], cutoff'[u] = cutoff[u],
           known[u][p] <= Len(verifications[p])
    PROVE  /\ known'[u][p] <= Len(verifications'[p])
           /\ DueRows(u, p) = {} => DueRows(u, p)' = {}
<1>1. /\ Len(verifications[p]) \in Nat /\ known[u][p] \in Nat
      /\ Len(verifications'[p]) \in Nat
  BY LenProperties DEF TypeOK
<1>2. CASE verifications'[p] = verifications[p]
  BY <1>2 DEF DueRows, Verified
<1>3. CASE /\ Len(verifications'[p]) >= Len(verifications[p])
           /\ \A n \in 1..Len(verifications[p]) :
                 verifications'[p][n].state # "VERIFIED"
  <2>1. ASSUME NEW n \in DueRows(u, p)' PROVE FALSE
    <3>1. /\ n \in 1..Len(verifications'[p]) /\ n <= known[u][p]
          /\ verifications'[p][n].state = "VERIFIED"
      BY <2>1 DEF DueRows, Verified
    <3>2. n \in 1..Len(verifications[p])
      BY <1>1, <3>1
    <3> QED
      BY <1>3, <3>1, <3>2
  <2> QED
    BY <1>1, <1>3, <2>1
<1> QED
  BY <1>1, <1>2, <1>3
  DEF Effect, Kept, Described, Touched, Certified, Withdrawn

LEMMA ExpiryStep ==
    ASSUME TypeOK, TypeOK', ExpiryTracked, RowLocksHeld, NEW w \in Workers,
           Act(w), \A p \in Pages : Effect(w, p)
    PROVE  ExpiryTracked'
<1> DEFINE Tracked(u) == pc[u] \in {"expiring", "closing"} =>
        \A p \in Pages :
            /\ known[u][p] <= Len(verifications[p])
            /\ p \notin scope[u] /\ (pc[u] = "expiring" => p \notin todo[u]) =>
                  DueRows(u, p) = {}
<1>a. \A u \in Workers : Tracked(u)
  BY DEF ExpiryTracked
<1>1. ASSUME NEW u \in Workers \ {w}
      PROVE  Tracked(u)'
  <2>1. Spares(w, u) /\ Tracked(u)
    BY <1>a, OthersSpared
  <2> QED
    BY <2>1, NothingComesBack DEF Spares
<1>2. ASSUME NEW date \in 1..MaxTime, StartExpire(w, date)
      PROVE  Tracked(w)'
  <2>1. /\ pc'[w] = "expiring" /\ cutoff'[w] = date
        /\ todo'[w] = DuePages(date)
        /\ verifications' = verifications
        /\ \A p \in Pages : known'[w][p] = Len(verifications[p])
    BY <1>2 DEF StartExpire, Reach, TypeOK, tables
  <2>2. ASSUME NEW p \in Pages
        PROVE  /\ known'[w][p] <= Len(verifications'[p])
               /\ p \notin todo'[w] => DueRows(w, p)' = {}
    <3>1. Len(verifications[p]) \in Nat
      BY LenProperties DEF TypeOK
    <3>2. DueRows(w, p)' # {} => p \in DuePages(date)
      BY <2>1 DEF DueRows, DuePages, Verified
    <3> QED
      BY <2>1, <3>1, <3>2
  <2> QED
    BY <2>1, <2>2
<1>3. ASSUME NEW q \in Pages, ExpireRow(w, q)
      PROVE  Tracked(w)'
  <2>1. /\ known' = known /\ cutoff' = cutoff
        /\ verifications' = verifications
        /\ pc[w] = "expiring" /\ pc' = pc
    BY <1>3 DEF ExpireRow, tables
  <2>2. /\ todo'[w] = todo[w] \ {q}
        /\ scope'[w] = IF DueRows(w, q) # {} THEN scope[w] \cup {q} ELSE scope[w]
    BY <1>3 DEF ExpireRow, TypeOK
  <2>3. \A p \in Pages : DueRows(w, p)' = DueRows(w, p)
    BY <2>1 DEF DueRows, Verified
  <2> QED
    BY <1>a, <2>1, <2>2, <2>3
<1>4. ASSUME RowsExpired(w)
      PROVE  Tracked(w)'
  <2>1. /\ known' = known /\ cutoff' = cutoff
        /\ verifications' = verifications
        /\ pc[w] = "expiring" /\ todo[w] = {} /\ scope' = scope
        /\ pc'[w] = "closing"
    BY <1>4 DEF RowsExpired, tables, Reach, TypeOK
  <2>2. \A p \in Pages : DueRows(w, p)' = DueRows(w, p)
    BY <2>1 DEF DueRows, Verified
  <2> QED
    BY <1>a, <2>1, <2>2
<1>5. ASSUME NEW q \in Pages, ExpirePage(w, q)
      PROVE  Tracked(w)'
  <2>1. /\ known' = known /\ cutoff' = cutoff
        /\ verifications' = verifications
        /\ pc[w] = "closing" /\ pc' = pc /\ scope' = scope
    BY <1>5 DEF ExpirePage, tables
  <2>2. \A p \in Pages : DueRows(w, p)' = DueRows(w, p)
    BY <2>1 DEF DueRows, Verified
  <2> QED
    BY <1>a, <2>1, <2>2
<1>6. pc'[w] \notin {"expiring", "closing"} => Tracked(w)'
  OBVIOUS
<1>7. Finish(w) => Tracked(w)'
  BY <1>6, FinishSpares DEF Ended
<1>8. ASSUME \/ \E p \in Pages : ReadPage(w, p) \/ LockPage(w, p)
                                \/ OutdateRow(w, p)
             \/ LockToVerify(w) \/ PagesLocked(w)
             \/ \E touched \in SUBSET Pages : StartPublish(w, touched)
      PROVE  Tracked(w)'
  BY ZenonT(60), <1>6, <1>8 DEF ReadPage, LockPage, OutdateRow, LockToVerify, PagesLocked,
                    StartPublish, Reach, TypeOK
<1> HIDE DEF Tracked
<1>9. Tracked(w)'
  BY <1>2, <1>3, <1>4, <1>5, <1>7, <1>8
  DEF Act, Client, Step, Crash, BreakDeadlock, Refuse, Classify, AssignOwner,
      CommitVerify, CommitExpire, CommitPublish
<1> QED
  BY <1>1, <1>9 DEF ExpiryTracked, Tracked

LEMMA InductiveInit == Init => Inductive
<1> SUFFICES ASSUME Init PROVE Inductive
  OBVIOUS
<1>1. TypeOK
  BY InitType
<1>2. \A w \in Workers : w # None /\ pc[w] = "idle"
  BY TrustAssumption DEF Init
<1>3. PageLocksHeld /\ RowLocksHeld /\ LoadedIsCurrent /\ SeenIsOld
      /\ ExpiryTracked
  BY <1>2 DEF Init, PageLocksHeld, RowLocksHeld, LoadedIsCurrent, SeenIsOld,
              ExpiryTracked
<1>4. VerifiedIsCurrent /\ MetadataHistory
  BY DEF Init, VerifiedIsCurrent, MetadataHistory, NewPage, Verified
<1> QED
  BY <1>1, <1>3, <1>4 DEF Inductive

LEMMA InductiveStep ==
    ASSUME Inductive, [Next]_vars
    PROVE  Inductive'
<1>1. CASE UNCHANGED vars
  BY <1>1
  DEF Inductive, vars, tables, locks, request, TypeOK, PageLocksHeld,
      RowLocksHeld, LoadedIsCurrent, VerifiedIsCurrent, MetadataHistory,
      SeenIsOld, ExpiryTracked, Verified, DueRows, Fresh
<1>2. ASSUME NEW w \in Workers, Act(w)
      PROVE  Inductive'
  <2>1. TypeOK'
    BY NextType DEF Inductive
  <2>2. \A p \in Pages : Effect(w, p)
    BY <1>2, Effects DEF Inductive
  <2>3. PageLocksHeld' /\ RowLocksHeld' /\ LoadedIsCurrent'
    BY <1>2, PageLocksStep, RowLocksStep, LoadedStep DEF Inductive
  <2>4. VerifiedIsCurrent' /\ MetadataHistory'
    BY <2>1, <2>2, VerifiedStep, HistoryStep DEF Inductive
  <2>5. SeenIsOld' /\ ExpiryTracked'
    BY <1>2, <2>1, <2>2, SeenStep, ExpiryStep DEF Inductive
  <2> QED
    BY <2>1, <2>3, <2>4, <2>5 DEF Inductive
<1> QED
  BY <1>1, <1>2 DEF Next, Act

-----------------------------------------------------------------------------
(***************************************************************************)
(* The theorems.                                                           *)
(***************************************************************************)
\* Everything the requests rely on at their commits holds at every moment.
THEOREM Invariant == Spec => []Inductive
<1>1. Init => Inductive
  BY InductiveInit
<1>2. Inductive /\ [Next]_vars => Inductive'
  BY InductiveStep
<1> QED
  BY <1>1, <1>2, PTL DEF Spec

\* Every variable has its type.
THEOREM TypeCorrect == Spec => []TypeOK
<1>1. Inductive => TypeOK
  BY DEF Inductive
<1> QED
  BY <1>1, Invariant, PTL

\* A page shows VERIFIED exactly when one verification stands, made of the
\* revision the page has now (PAGE_TRUST.md).
THEOREM VerificationIsCurrent == Spec => []VerifiedIsCurrent
<1>1. Inductive => VerifiedIsCurrent
  BY DEF Inductive
<1> QED
  BY <1>1, Invariant, PTL

\* Each metadata version a page has had is in its history, once and in order
\* (trust_api._snapshot).
THEOREM HistoryIsComplete == Spec => []MetadataHistory
<1>1. Inductive => MetadataHistory
  BY DEF Inductive
<1> QED
  BY <1>1, Invariant, PTL

\* docs.expire_due_verifications marks all that was due when it started.
THEOREM ExpiryIsComplete == Spec => []ExpiryMissesNothing
<1>1. Inductive => ExpiryMissesNothing
  BY DEF Inductive, ExpiryTracked, ExpiryMissesNothing
<1> QED
  BY <1>1, Invariant, PTL

\* A verification is of the revision its verifier read (trust_api.verify).
THEOREM VerifiersSawTheirRevision == Spec => VerifierSawIt
<1>1. ASSUME Inductive, [Next]_vars
      PROVE  [\A w \in Workers :
                 /\ pc[w] = "verifying"
                 /\ pc'[w] = "idle"
                 /\ verifications' # verifications
                 => LET rows == verifications'[subject[w]]
                    IN  rows[Len(rows)].revision = seen[w].revision]_vars
  <2> SUFFICES ASSUME NEW u \in Workers, pc[u] = "verifying", pc'[u] = "idle",
                      verifications' # verifications
               PROVE  LET rows == verifications'[subject[u]]
                      IN  rows[Len(rows)].revision = seen[u].revision
    OBVIOUS
  <2>1. PICK w \in Workers : Act(w)
    BY <1>1 DEF Next, Act, vars, tables
  <2>2. w = u
    BY <1>1, <2>1, OthersSpared DEF Inductive, Spares
  <2>3. PICK expires \in 1..MaxTime \cup {None} : CommitVerify(u, expires)
    BY <2>1, <2>2
    DEF Act, Client, Step, Crash, BreakDeadlock, Refuse, Classify, AssignOwner,
        CommitExpire, CommitPublish, ReadPage, LockToVerify, StartExpire,
        StartPublish, ExpireRow, ExpirePage, LockPage, OutdateRow, RowsExpired,
        PagesLocked, tables
  <2>4. /\ Certified(subject[u]) /\ subject[u] \in Pages
        /\ pageLock[subject[u]] = u
    BY <1>1, <2>3, VerifyEffect DEF Inductive
  <2>5. page[subject[u]].revision = seen[u].revision
    BY <1>1, <2>4 DEF Inductive, LoadedIsCurrent
  <2> QED
    BY <2>4, <2>5 DEF Certified
<1> QED
  BY <1>1, Invariant, PTL DEF Spec, VerifierSawIt

\* Nobody overwrites an owner or a classification without having read it
\* (expected_metadata_version).
THEOREM ClassificationsAreNotLost == Spec => NoLostClassification
<1>1. ASSUME Inductive, [Next]_vars
      PROVE  [\A w \in Workers : Edits(w) =>
                 /\ page[subject[w]].owner = seen[w].owner
                 /\ page[subject[w]].verifiable = seen[w].verifiable]_vars
  <2> SUFFICES ASSUME NEW u \in Workers, Edits(u)
               PROVE  /\ page[subject[u]].owner = seen[u].owner
                      /\ page[subject[u]].verifiable = seen[u].verifiable
    OBVIOUS
  <2>1. PICK w \in Workers : Act(w)
    BY <1>1 DEF Next, Act, vars, tables, Edits
  <2>2. w = u
    BY <1>1, <2>1, OthersSpared DEF Inductive, Spares, Edits
  <2>3. \/ \E verifiable \in BOOLEAN, owner \in Owners \cup {None},
              due \in 1..MaxTime \cup {None} :
              Classify(u, verifiable, owner, due)
        \/ \E owner \in Owners : AssignOwner(u, owner)
    BY <2>1, <2>2
    DEF Act, Client, Step, Crash, BreakDeadlock, Refuse, CommitVerify,
        CommitExpire, CommitPublish, ReadPage, LockToVerify, StartExpire,
        StartPublish, ExpireRow, ExpirePage, LockPage, OutdateRow, RowsExpired,
        PagesLocked, tables, Edits
  <2>4. pc[u] = "read" /\ Fresh(u)
    BY <1>1, <2>3, EditEffect DEF Inductive
  <2> QED
    BY <1>1, <2>4 DEF Inductive, SeenIsOld
<1> QED
  BY <1>1, Invariant, PTL DEF Spec, NoLostClassification
=============================================================================

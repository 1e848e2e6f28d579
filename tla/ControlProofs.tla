---------------------------- MODULE ControlProofs ----------------------------
(***************************************************************************)
(* Proofs about five components of the control plane, each on its own: the *)
(* receipts of idempotency keys, the schema migrations and their capture,  *)
(* the one-call edits, and the structure projection; for any number of     *)
(* handlers, keys, pages, runners and images.                              *)
(***************************************************************************)
EXTENDS Receipts, Migrations, SourceCapture, Shortcuts, Structure,
        FiniteSetTheorems, NaturalsInduction, WellFoundedInduction, TLAPS

-----------------------------------------------------------------------------
(***************************************************************************)
(* Receipts: what an idempotency key promises, for any number of handlers, *)
(* keys and payloads, as an invariant and as a refinement of OnceOnly.     *)
(***************************************************************************)
\* What a handler's record may be.
ServingStates ==
    {NotServing}
    \cup [stage : {"delivered", "running", "replaying"}, key : Keys, payload : Payloads]
    \cup [stage : {"appended"}, key : Keys, payload : Payloads, rows : SUBSET (Nat \X Keys)]

ReceiptsTyped == ReceiptsTypeOK /\ serving \in [Handlers -> ServingStates]

\* A key without receipt has no effect; its receipt names its only effect.
EffectsAsReceipts ==
    \A k \in Keys :
        effects[k] = IF receipts[k] = None THEN <<>> ELSE <<receipts[k]>>

EventsOf(k) == {e \in log : e[2] = k}

\* A key without receipt has no event, and a key with one has one.
EventsAsReceipts ==
    \A k \in Keys :
        IF receipts[k] = None THEN EventsOf(k) = {}
        ELSE \E n \in Nat : EventsOf(k) = {<<n, k>>}

\* The unique index on the event's key lets one transaction of a key in.
OneAppender ==
    \A g, h \in Handlers :
        /\ serving[g].stage = "appended" /\ serving[h].stage = "appended"
        /\ serving[g].key = serving[h].key
        => g = h

\* What a transaction has inserted, as long as it can still commit it.
RowsToCommit ==
    \A h \in Handlers :
        serving[h].stage = "appended" /\ receipts[serving[h].key] = None
        => \E n \in Nat : serving[h].rows = {<<n, serving[h].key>>}

ReplaysItsOwn ==
    \A h \in Handlers :
        serving[h].stage = "replaying" => receipts[serving[h].key] = serving[h].payload

\* The advisory lock of a key: its holder is the only one, and finds no receipt.
LockHolderAlone ==
    \A h \in Handlers :
        InFlight(h) /\ serving[h].key \in Locked
        => /\ receipts[serving[h].key] = None
           /\ \A g \in Handlers : InFlight(g) /\ serving[g].key = serving[h].key => g = h

\* Every event_seq in use was drawn from the sequence.
SeqsAreDrawn ==
    /\ \A e \in log : e[1] < nextSeq
    /\ \A h \in Handlers :
        serving[h].stage = "appended" => \A e \in serving[h].rows : e[1] < nextSeq

ReceiptsInv ==
    /\ ReceiptsTyped /\ EffectsAsReceipts /\ EventsAsReceipts /\ OneAppender
    /\ RowsToCommit /\ ReplaysItsOwn /\ LockHolderAlone /\ SeqsAreDrawn
    /\ LockedNeverFail

-----------------------------------------------------------------------------
(***************************************************************************)
(* The states of handlers.                                                 *)
(***************************************************************************)
\* What the record of a handler holds at each stage.
LEMMA ServingShapes ==
    ASSUME NEW s \in ServingStates
    PROVE  /\ s.stage \in {"idle", "delivered", "running", "appended", "replaying"}
           /\ s.stage # "idle" => s.key \in Keys /\ s.payload \in Payloads
           /\ s.stage = "idle" <=> s = NotServing
           /\ s.stage = "appended" => s.rows \in SUBSET (Nat \X Keys)
BY DEF ServingStates, NotServing

\* The first state has it.
LEMMA ReceiptsInitHolds == ReceiptsInit => ReceiptsInv
<1> SUFFICES ASSUME ReceiptsInit PROVE ReceiptsInv
  OBVIOUS
<1>1. ReceiptsTyped
  BY DEF ReceiptsInit, ReceiptsTyped, ReceiptsTypeOK, ServingStates, NotServing
<1>2. EffectsAsReceipts /\ EventsAsReceipts
  BY DEF ReceiptsInit, EffectsAsReceipts, EventsAsReceipts, EventsOf
<1>3. OneAppender /\ RowsToCommit /\ ReplaysItsOwn /\ LockHolderAlone
  BY DEF ReceiptsInit, OneAppender, RowsToCommit, ReplaysItsOwn, LockHolderAlone,
         InFlight, NotServing
<1>4. SeqsAreDrawn /\ LockedNeverFail
  BY DEF ReceiptsInit, SeqsAreDrawn, LockedNeverFail, NotServing
<1> QED
  BY <1>1, <1>2, <1>3, <1>4 DEF ReceiptsInv

-----------------------------------------------------------------------------
(***************************************************************************)
(* Steps that change the request of one handler and no table.              *)
(***************************************************************************)

\* A handler that becomes idle, delivered, or keeps its request, disturbs nothing,
\* unless it enters the transaction or a replay.
LEMMA QuietStep ==
    ASSUME ReceiptsInv, NEW h \in Handlers, NEW s \in ServingStates,
           serving' = [serving EXCEPT ![h] = s],
           s.stage \in {"idle", "delivered"},
           UNCHANGED <<receipts, effects, log, nextSeq>>
    PROVE  /\ serving' \in [Handlers -> ServingStates]
           /\ EffectsAsReceipts' /\ EventsAsReceipts' /\ OneAppender' /\ RowsToCommit'
           /\ ReplaysItsOwn' /\ LockHolderAlone' /\ SeqsAreDrawn'
<1>1. serving \in [Handlers -> ServingStates]
  BY DEF ReceiptsInv, ReceiptsTyped
<1>2. \A g \in Handlers : serving'[g] = IF g = h THEN s ELSE serving[g]
  BY <1>1
<1>3. EffectsAsReceipts' /\ EventsAsReceipts'
  BY DEF ReceiptsInv, EffectsAsReceipts, EventsAsReceipts, EventsOf
<1>4. OneAppender' /\ RowsToCommit' /\ ReplaysItsOwn' /\ SeqsAreDrawn'
  BY <1>2 DEF ReceiptsInv, OneAppender, RowsToCommit, ReplaysItsOwn, SeqsAreDrawn
<1>5. LockHolderAlone'
  BY <1>2 DEF ReceiptsInv, LockHolderAlone, InFlight
<1> QED
  BY <1>1, <1>3, <1>4, <1>5

\* Delivering a request changes its handler only.
LEMMA DeliverStep ==
    ASSUME ReceiptsInv, NEW h \in Handlers, NEW k \in Keys, NEW p \in Payloads, Deliver(h, k, p)
    PROVE  ReceiptsInv'
<1> DEFINE s == [stage |-> "delivered", key |-> k, payload |-> p]
<1>1. s \in ServingStates /\ s.stage = "delivered"
  BY DEF ServingStates
<1>2. /\ serving' = [serving EXCEPT ![h] = s]
      /\ UNCHANGED <<receipts, effects, log, failures, answers, nextSeq, cursor, seen>>
  BY DEF Deliver, unchangedLog
<1> HIDE DEF s
<1>3. /\ serving' \in [Handlers -> ServingStates]
      /\ EffectsAsReceipts' /\ EventsAsReceipts' /\ OneAppender' /\ RowsToCommit'
      /\ ReplaysItsOwn' /\ LockHolderAlone' /\ SeqsAreDrawn'
  BY <1>1, <1>2, QuietStep
<1>4. ReceiptsTyped'
  BY <1>2, <1>3, ServingShapes DEF ReceiptsInv, ReceiptsTyped, ReceiptsTypeOK
<1> QED
  BY <1>2, <1>3, <1>4 DEF ReceiptsInv, LockedNeverFail

\* A lost request leaves receipts, effects and events as they are.
LEMMA LoseRequestStep ==
    ASSUME ReceiptsInv, NEW h \in Handlers, LoseRequest(h)
    PROVE  ReceiptsInv'
<1>1. NotServing \in ServingStates /\ NotServing.stage = "idle"
  BY DEF ServingStates, NotServing
<1>2. /\ serving' = [serving EXCEPT ![h] = NotServing]
      /\ UNCHANGED <<receipts, effects, log, failures, answers, nextSeq, cursor, seen>>
  BY DEF LoseRequest, unchangedLog
<1>3. /\ serving' \in [Handlers -> ServingStates]
      /\ EffectsAsReceipts' /\ EventsAsReceipts' /\ OneAppender' /\ RowsToCommit'
      /\ ReplaysItsOwn' /\ LockHolderAlone' /\ SeqsAreDrawn'
  BY <1>1, <1>2, QuietStep
<1>4. ReceiptsTyped'
  BY <1>2, <1>3, ServingShapes DEF ReceiptsInv, ReceiptsTyped, ReceiptsTypeOK
<1> QED
  BY <1>2, <1>3, <1>4 DEF ReceiptsInv, LockedNeverFail

\* The answer is the payload of the receipt.
LEMMA ReceiptAnswerStep ==
    ASSUME ReceiptsInv, NEW h \in Handlers, Answer(h)
    PROVE  ReceiptsInv'
<1>1. NotServing \in ServingStates /\ NotServing.stage = "idle"
  BY DEF ServingStates, NotServing
<1>2. /\ serving' = [serving EXCEPT ![h] = NotServing]
      /\ UNCHANGED <<receipts, effects, log, failures, nextSeq, cursor, seen>>
  BY DEF Answer, unchangedLog
<1>3. /\ serving' \in [Handlers -> ServingStates]
      /\ EffectsAsReceipts' /\ EventsAsReceipts' /\ OneAppender' /\ RowsToCommit'
      /\ ReplaysItsOwn' /\ LockHolderAlone' /\ SeqsAreDrawn'
  BY <1>1, <1>2, QuietStep
<1>4. answers' \subseteq Keys \X Payloads \X (Payloads \cup {None})
  <2>1. serving[h].key \in Keys /\ serving[h].payload \in Payloads
    BY ServingShapes DEF ReceiptsInv, ReceiptsTyped, Answer
  <2>2. receipts[serving[h].key] \in Payloads \cup {None}
    BY <2>1 DEF ReceiptsInv, ReceiptsTyped, ReceiptsTypeOK
  <2> QED
    BY <2>1, <2>2 DEF ReceiptsInv, ReceiptsTyped, ReceiptsTypeOK, Answer
<1>5. ReceiptsTyped'
  BY <1>2, <1>3, <1>4, ServingShapes DEF ReceiptsInv, ReceiptsTyped, ReceiptsTypeOK
<1> QED
  BY <1>2, <1>3, <1>5 DEF ReceiptsInv, LockedNeverFail

-----------------------------------------------------------------------------
(***************************************************************************)
(* Steps that enter the transaction or leave it.                           *)
(***************************************************************************)

\* A handler goes on only if there is no receipt, and alone if the key is locked.
LEMMA LoadReceiptStep ==
    ASSUME ReceiptsInv, NEW h \in Handlers, LoadReceipt(h)
    PROVE  ReceiptsInv'
<1> DEFINE k == serving[h].key
           p == serving[h].payload
<1>1. /\ serving[h] \in ServingStates /\ serving[h].stage = "delivered"
      /\ k \in Keys /\ p \in Payloads
      /\ serving[h] = [stage |-> "delivered", key |-> k, payload |-> p]
      /\ serving \in [Handlers -> ServingStates]
  <2>1. serving[h] \in ServingStates /\ serving[h].stage = "delivered"
    BY DEF LoadReceipt, ReceiptsInv, ReceiptsTyped
  <2>2. serving[h] = [stage |-> "delivered", key |-> k, payload |-> p]
    BY <2>1 DEF ServingStates, NotServing
  <2> QED
    BY <2>1, <2>2, ServingShapes DEF ReceiptsInv, ReceiptsTyped
<1>2. /\ UNCHANGED <<receipts, effects, answers, failures, log, nextSeq, cursor, seen>>
      /\ k \in Locked => KeyLockFree(k)
  BY DEF LoadReceipt, unchangedLog
<1>3. CASE receipts[k] = None
  <2>1. serving' = [serving EXCEPT ![h] = [stage |-> "running", key |-> k, payload |-> p]]
    <3>1. [serving[h] EXCEPT !.stage = "running"] = [stage |-> "running", key |-> k, payload |-> p]
      BY <1>1
    <3>2. serving' = [serving EXCEPT ![h] = [serving[h] EXCEPT !.stage = "running"]]
      BY <1>3 DEF LoadReceipt
    <3> HIDE DEF k, p
    <3> QED
      BY <3>1, <3>2
  <2>2. \A g \in Handlers : serving'[g] =
            IF g = h THEN [stage |-> "running", key |-> k, payload |-> p] ELSE serving[g]
    BY <1>1, <2>1
  <2>3. serving' \in [Handlers -> ServingStates]
    <3>1. [stage |-> "running", key |-> k, payload |-> p] \in ServingStates
      BY <1>1 DEF ServingStates
    <3> QED
      BY <1>1, <2>1, <3>1
  <2>4. ReceiptsTyped'
    BY <1>2, <2>3, ServingShapes DEF ReceiptsInv, ReceiptsTyped, ReceiptsTypeOK
  <2>5. EffectsAsReceipts' /\ EventsAsReceipts' /\ LockedNeverFail'
    BY <1>2 DEF ReceiptsInv, EffectsAsReceipts, EventsAsReceipts, EventsOf, LockedNeverFail
  <2>6. OneAppender' /\ RowsToCommit' /\ ReplaysItsOwn' /\ SeqsAreDrawn'
    BY <1>2, <2>2 DEF ReceiptsInv, OneAppender, RowsToCommit, ReplaysItsOwn, SeqsAreDrawn
  <2>7. LockHolderAlone'
    BY <1>2, <1>3, <2>2 DEF ReceiptsInv, LockHolderAlone, InFlight, KeyLockFree
  <2> QED
    BY <2>4, <2>5, <2>6, <2>7 DEF ReceiptsInv
<1>4. CASE receipts[k] # None /\ receipts[k] = p
  <2>1. serving' = [serving EXCEPT ![h] = [stage |-> "replaying", key |-> k, payload |-> p]]
    <3>1. [serving[h] EXCEPT !.stage = "replaying"] = [stage |-> "replaying", key |-> k, payload |-> p]
      BY <1>1
    <3>2. serving' = [serving EXCEPT ![h] = [serving[h] EXCEPT !.stage = "replaying"]]
      BY <1>4 DEF LoadReceipt
    <3> HIDE DEF k, p
    <3> QED
      BY <3>1, <3>2
  <2>2. \A g \in Handlers : serving'[g] =
            IF g = h THEN [stage |-> "replaying", key |-> k, payload |-> p] ELSE serving[g]
    BY <1>1, <2>1
  <2>3. serving' \in [Handlers -> ServingStates]
    <3>1. [stage |-> "replaying", key |-> k, payload |-> p] \in ServingStates
      BY <1>1 DEF ServingStates
    <3> QED
      BY <1>1, <2>1, <3>1
  <2>4. ReceiptsTyped'
    BY <1>2, <2>3, ServingShapes DEF ReceiptsInv, ReceiptsTyped, ReceiptsTypeOK
  <2>5. EffectsAsReceipts' /\ EventsAsReceipts' /\ LockedNeverFail'
    BY <1>2 DEF ReceiptsInv, EffectsAsReceipts, EventsAsReceipts, EventsOf, LockedNeverFail
  <2>6. OneAppender' /\ RowsToCommit' /\ ReplaysItsOwn' /\ SeqsAreDrawn'
    BY <1>2, <1>4, <2>2 DEF ReceiptsInv, OneAppender, RowsToCommit, ReplaysItsOwn, SeqsAreDrawn
  <2>7. LockHolderAlone'
    BY <1>2, <2>2 DEF ReceiptsInv, LockHolderAlone, InFlight
  <2> QED
    BY <2>4, <2>5, <2>6, <2>7 DEF ReceiptsInv
<1>5. CASE receipts[k] # None /\ receipts[k] # p
  <2>1. serving' = [serving EXCEPT ![h] = NotServing]
    BY <1>5 DEF LoadReceipt
  <2>2. NotServing \in ServingStates /\ NotServing.stage = "idle"
    BY DEF ServingStates, NotServing
  <2>3. /\ serving' \in [Handlers -> ServingStates]
        /\ EffectsAsReceipts' /\ EventsAsReceipts' /\ OneAppender' /\ RowsToCommit'
        /\ ReplaysItsOwn' /\ LockHolderAlone' /\ SeqsAreDrawn'
    BY <1>2, <2>1, <2>2, QuietStep
  <2>4. ReceiptsTyped'
    BY <1>2, <2>3, ServingShapes DEF ReceiptsInv, ReceiptsTyped, ReceiptsTypeOK
  <2> QED
    BY <1>2, <2>3, <2>4 DEF ReceiptsInv, LockedNeverFail
<1> QED
  BY <1>3, <1>4, <1>5

\* A second event of the key is not written while there is one.
LEMMA AppendEventStep ==
    ASSUME ReceiptsInv, NEW h \in Handlers, AppendEvent(h)
    PROVE  ReceiptsInv'
<1> DEFINE k == serving[h].key
           p == serving[h].payload
           inserted == IF \E e \in log : e[2] = k THEN {} ELSE {<<nextSeq, k>>}
           s == [stage |-> "appended", key |-> k, payload |-> p, rows |-> inserted]
<1>1. /\ serving \in [Handlers -> ServingStates] /\ serving[h].stage = "running"
      /\ k \in Keys /\ p \in Payloads /\ nextSeq \in Nat
  BY ServingShapes DEF AppendEvent, ReceiptsInv, ReceiptsTyped, ReceiptsTypeOK
<1>2. /\ UNCHANGED <<receipts, effects, answers, failures, log, cursor, seen>>
      /\ nextSeq' = nextSeq + 1
      /\ \A g \in Handlers : serving[g].stage = "appended" => serving[g].key # k
      /\ serving' = [serving EXCEPT ![h] = s]
  BY DEF AppendEvent, unchangedReader
<1>3. /\ s.stage = "appended" /\ s.key = k /\ s.payload = p /\ s.rows = inserted
      /\ inserted \subseteq {<<nextSeq, k>>}
      /\ s \in ServingStates
  BY <1>1 DEF ServingStates
<1>4. receipts[k] = None => inserted = {<<nextSeq, k>>}
  BY <1>1 DEF ReceiptsInv, EventsAsReceipts, EventsOf
<1> HIDE DEF s, inserted
<1>5. \A g \in Handlers : serving'[g] = IF g = h THEN s ELSE serving[g]
  BY <1>1, <1>2
<1>6. serving' \in [Handlers -> ServingStates]
  BY <1>1, <1>2, <1>3
<1>7. ReceiptsTyped'
  BY <1>1, <1>2, <1>6, ServingShapes DEF ReceiptsInv, ReceiptsTyped, ReceiptsTypeOK
<1>8. EffectsAsReceipts' /\ EventsAsReceipts' /\ LockedNeverFail'
  BY <1>2 DEF ReceiptsInv, EffectsAsReceipts, EventsAsReceipts, EventsOf, LockedNeverFail
<1>9. OneAppender'
  BY <1>2, <1>3, <1>5 DEF ReceiptsInv, OneAppender
<1>10. RowsToCommit'
  BY <1>1, <1>2, <1>3, <1>4, <1>5 DEF ReceiptsInv, RowsToCommit
<1>11. ReplaysItsOwn'
  BY <1>2, <1>3, <1>5 DEF ReceiptsInv, ReplaysItsOwn
<1>12. LockHolderAlone'
  BY <1>1, <1>2, <1>3, <1>5 DEF ReceiptsInv, LockHolderAlone, InFlight
<1>13. SeqsAreDrawn'
  <2>1. \A e \in log' : e[1] < nextSeq'
    <3>1. \A e \in log : e[1] \in Nat /\ e[1] < nextSeq
      BY DEF ReceiptsInv, ReceiptsTyped, ReceiptsTypeOK, SeqsAreDrawn
    <3> QED
      BY <1>1, <1>2, <3>1
  <2>2. ASSUME NEW g \in Handlers, serving'[g].stage = "appended",
               NEW e \in serving'[g].rows
        PROVE  e[1] < nextSeq'
    <3>1. CASE g = h
      BY <1>1, <1>2, <1>3, <1>5, <2>2, <3>1
    <3>2. CASE g # h
      <4>1. serving[g].stage = "appended" /\ e \in serving[g].rows
        BY <1>5, <2>2, <3>2
      <4>2. e[1] \in Nat /\ e[1] < nextSeq
        BY <1>1, <4>1, ServingShapes DEF ReceiptsInv, SeqsAreDrawn
      <4> QED
        BY <1>1, <1>2, <4>2
    <3> QED
      BY <3>1, <3>2
  <2> QED
    BY <2>1, <2>2 DEF SeqsAreDrawn
<1> QED
  BY <1>7, <1>8, <1>9, <1>10, <1>11, <1>12, <1>13 DEF ReceiptsInv

\* Receipt, effect and event commit together, or none of them does.
LEMMA CommitRequestStep ==
    ASSUME ReceiptsInv, NEW h \in Handlers, CommitRequest(h)
    PROVE  ReceiptsInv'
<1> DEFINE k == serving[h].key
           p == serving[h].payload
<1>1. /\ serving \in [Handlers -> ServingStates] /\ serving[h].stage = "appended"
      /\ k \in Keys /\ p \in Payloads /\ InFlight(h)
      /\ serving[h].rows \in SUBSET (Nat \X Keys)
  BY ServingShapes DEF CommitRequest, ReceiptsInv, ReceiptsTyped, InFlight
<1>2. UNCHANGED <<answers, nextSeq, cursor, seen>>
  BY DEF CommitRequest, unchangedReader
<1>3. CASE receipts[k] = None
  <2> DEFINE s == [stage |-> "replaying", key |-> k, payload |-> p]
  <2>1. /\ receipts' = [receipts EXCEPT ![k] = p]
        /\ effects' = [effects EXCEPT ![k] = Append(@, p)]
        /\ log' = log \cup serving[h].rows
        /\ serving' = [serving EXCEPT ![h] = s]
        /\ UNCHANGED failures
    BY <1>3 DEF CommitRequest
  <2>2. s \in ServingStates /\ s.stage = "replaying" /\ s.key = k /\ s.payload = p
    BY <1>1 DEF ServingStates
  <2> HIDE DEF s
  <2>3. \A g \in Handlers : serving'[g] = IF g = h THEN s ELSE serving[g]
    BY <1>1, <2>1
  <2>4. /\ receipts \in [Keys -> Payloads \cup {None}]
        /\ effects \in [Keys -> Seq(Payloads)]
        /\ effects[k] = <<>>
    BY <1>1, <1>3 DEF ReceiptsInv, ReceiptsTyped, ReceiptsTypeOK, EffectsAsReceipts
  <2>5. /\ \A j \in Keys : receipts'[j] = IF j = k THEN p ELSE receipts[j]
        /\ \A j \in Keys : effects'[j] = IF j = k THEN <<p>> ELSE effects[j]
    BY <1>1, <2>1, <2>4
  <2>6. p # None
    BY <1>1, NoneIsNoPayload
  <2>7. PICK n \in Nat : serving[h].rows = {<<n, k>>}
    BY <1>1, <1>3 DEF ReceiptsInv, RowsToCommit
  <2>8. ReceiptsTyped'
    <3>1. serving' \in [Handlers -> ServingStates]
      BY <1>1, <2>1, <2>2
    <3>2. receipts' \in [Keys -> Payloads \cup {None}]
      BY <1>1, <2>1, <2>4
    <3>3. effects' \in [Keys -> Seq(Payloads)]
      <4>1. Append(effects[k], p) \in Seq(Payloads)
        BY <1>1, <2>4
      <4> QED
        BY <1>1, <2>1, <2>4, <4>1
    <3>4. log' \subseteq Nat \X Keys
      BY <1>1, <2>1 DEF ReceiptsInv, ReceiptsTyped, ReceiptsTypeOK
    <3>5. \A g \in Handlers : serving'[g].stage \in
              {"idle", "delivered", "running", "appended", "replaying"}
      BY <3>1, ServingShapes
    <3> QED
      BY <1>2, <2>1, <3>1, <3>2, <3>3, <3>4, <3>5 DEF ReceiptsInv, ReceiptsTyped, ReceiptsTypeOK
  <2>9. EffectsAsReceipts'
    BY <2>5, <2>6 DEF ReceiptsInv, EffectsAsReceipts
  <2>10. EventsAsReceipts'
    <3> SUFFICES ASSUME NEW j \in Keys
                 PROVE  IF receipts'[j] = None THEN EventsOf(j)' = {}
                        ELSE \E m \in Nat : EventsOf(j)' = {<<m, j>>}
      BY DEF EventsAsReceipts
    <3>1. CASE j = k
      <4>1. EventsOf(k) = {}
        BY <1>1, <1>3 DEF ReceiptsInv, EventsAsReceipts
      <4>2. EventsOf(j)' = {e \in log' : e[2] = j} /\ EventsOf(k) = {e \in log : e[2] = k}
        BY DEF EventsOf
      <4>3. <<n, k>>[2] = k /\ log' = log \cup {<<n, k>>}
        BY <2>1, <2>7
      <4>4. EventsOf(j)' = {<<n, j>>}
        <5> HIDE DEF k, p
        <5> QED
          BY <3>1, <4>1, <4>2, <4>3
      <4>5. receipts'[j] # None
        BY <1>1, <2>5, <2>6, <3>1
      <4> QED
        BY <4>4, <4>5
    <3>2. CASE j # k
      <4>1. EventsOf(j)' = EventsOf(j)
        BY <2>1, <2>7, <3>2 DEF EventsOf
      <4> QED
        BY <2>5, <3>2, <4>1 DEF ReceiptsInv, EventsAsReceipts
    <3> QED
      BY <3>1, <3>2
  <2>11. OneAppender'
    BY <2>2, <2>3 DEF ReceiptsInv, OneAppender
  <2>12. RowsToCommit'
    <3>1. \A g \in Handlers : g # h /\ serving[g].stage = "appended"
                                => serving[g].key \in Keys /\ serving[g].key # k
      BY <1>1, ServingShapes DEF ReceiptsInv, OneAppender
    <3> QED
      BY <2>2, <2>3, <2>5, <3>1 DEF ReceiptsInv, RowsToCommit
  <2>13. ReplaysItsOwn'
    <3> SUFFICES ASSUME NEW g \in Handlers, serving'[g].stage = "replaying"
                 PROVE  receipts'[serving'[g].key] = serving'[g].payload
      BY DEF ReplaysItsOwn
    <3>1. CASE g = h
      BY <1>1, <2>2, <2>3, <2>5, <3>1
    <3>2. CASE g # h
      <4>1. serving'[g] = serving[g] /\ serving[g].stage = "replaying"
        BY <2>3, <3>2
      <4>2. /\ receipts[serving[g].key] = serving[g].payload
            /\ serving[g].key \in Keys /\ serving[g].payload \in Payloads
        BY <1>1, <4>1, ServingShapes DEF ReceiptsInv, ReplaysItsOwn
      <4>3. serving[g].key # k
        BY <1>3, <4>2, NoneIsNoPayload
      <4> QED
        BY <2>5, <4>1, <4>2, <4>3
    <3> QED
      BY <3>1, <3>2
  <2>14. LockHolderAlone'
    <3> SUFFICES ASSUME NEW g \in Handlers, InFlight(g)', serving'[g].key \in Locked
                 PROVE  /\ receipts'[serving'[g].key] = None
                        /\ \A f \in Handlers : InFlight(f)' /\ serving'[f].key = serving'[g].key
                                                => f = g
      BY DEF LockHolderAlone
    <3>1. \A f \in Handlers : InFlight(f)' => f # h /\ serving'[f] = serving[f] /\ InFlight(f)
      BY <2>2, <2>3 DEF InFlight
    <3>2. g # h /\ serving'[g] = serving[g] /\ InFlight(g)
      BY <3>1
    <3>3. /\ receipts[serving[g].key] = None
          /\ \A f \in Handlers : InFlight(f) /\ serving[f].key = serving[g].key => f = g
      BY <3>2 DEF ReceiptsInv, LockHolderAlone
    <3>4. serving[g].key # k
      BY <1>1, <3>2, <3>3
    <3>5. serving[g].key \in Keys
      BY <1>1, <3>2, ServingShapes DEF InFlight
    <3> QED
      BY <2>5, <3>1, <3>2, <3>3, <3>4, <3>5
  <2>15. SeqsAreDrawn'
    BY <1>1, <1>2, <2>1, <2>2, <2>3 DEF ReceiptsInv, SeqsAreDrawn
  <2>16. LockedNeverFail'
    BY <2>1 DEF ReceiptsInv, LockedNeverFail
  <2> QED
    BY <2>8, <2>9, <2>10, <2>11, <2>12, <2>13, <2>14, <2>15, <2>16 DEF ReceiptsInv
<1>4. CASE receipts[k] # None
  <2>1. /\ serving' = [serving EXCEPT ![h] = NotServing]
        /\ failures' = failures \cup {k}
        /\ UNCHANGED <<receipts, effects, log, nextSeq>>
    BY <1>2, <1>4 DEF CommitRequest
  <2>2. NotServing \in ServingStates /\ NotServing.stage = "idle"
    BY DEF ServingStates, NotServing
  <2>3. /\ serving' \in [Handlers -> ServingStates]
        /\ EffectsAsReceipts' /\ EventsAsReceipts' /\ OneAppender' /\ RowsToCommit'
        /\ ReplaysItsOwn' /\ LockHolderAlone' /\ SeqsAreDrawn'
    BY <2>1, <2>2, QuietStep
  <2>4. k \notin Locked
    BY <1>1, <1>4 DEF ReceiptsInv, LockHolderAlone
  <2>5. LockedNeverFail'
    BY <2>1, <2>4 DEF ReceiptsInv, LockedNeverFail
  <2>6. ReceiptsTyped'
    BY <1>1, <1>2, <2>1, <2>3, ServingShapes DEF ReceiptsInv, ReceiptsTyped, ReceiptsTypeOK
  <2> QED
    BY <2>3, <2>5, <2>6 DEF ReceiptsInv
<1> QED
  BY <1>3, <1>4

-----------------------------------------------------------------------------
(***************************************************************************)
(* The reader of the event log.                                            *)
(***************************************************************************)

\* A set of naturals below a bound has a greatest.
LEMMA GreatestExists ==
    ASSUME NEW S \in SUBSET Nat, S # {}, NEW b \in Nat, \A n \in S : n < b
    PROVE  \E m \in S : \A n \in S : n <= m
<1> DEFINE Below == {ss \in Nat \X Nat : ss[1] < ss[2]}
           Gaps == {b - n : n \in S}
<1>1. IsWellFoundedOn(OpToRel(<, Nat), Nat)
  BY NatLessThanWellFounded
<1>2. OpToRel(<, Nat) = Below
  BY DEF OpToRel
<1>3. IsWellFoundedOn(Below, Nat)
  BY <1>1, <1>2
<1>4. Gaps \subseteq Nat /\ Gaps # {}
  <2>1. \A n \in S : n \in Nat /\ n < b
    OBVIOUS
  <2>2. \A n \in S : b - n \in Nat
    <3> TAKE n \in S
    <3>1. n \in Nat /\ n < b
      BY <2>1
    <3> QED
      BY <3>1
  <2>3. PICK n \in S : TRUE
    OBVIOUS
  <2> QED
    BY <2>2, <2>3
<1>5. \E x \in Gaps : \A y \in Gaps : ~(<<y, x>> \in Below)
  <2> HIDE DEF Below, Gaps
  <2> QED
    BY <1>3, <1>4, WFMin
<1>6. PICK x \in Gaps : \A y \in Gaps : ~(<<y, x>> \in Below)
  BY <1>5
<1>7. PICK m \in S : x = b - m
  BY <1>6
<1>8. ASSUME NEW n \in S PROVE n <= m
  <2>1. b - n \in Gaps /\ ~(<<b - n, x>> \in Below)
    BY <1>6
  <2>2. ~(b - n < b - m)
    BY <2>1, <1>4, <1>7
  <2>3. n \in Nat /\ m \in Nat
    OBVIOUS
  <2> QED
    BY <2>2, <2>3
<1> QED
  BY <1>8

\* A reader changes nothing that the invariant speaks of, and its cursor is a number.
LEMMA ReadEventsStep == ReceiptsInv /\ ReadEvents => ReceiptsInv'
<1> SUFFICES ASSUME ReceiptsInv, ReadEvents PROVE ReceiptsInv'
  OBVIOUS
<1> DEFINE numbers == {e[1] : e \in NextPage}
<1>1. UNCHANGED <<receipts, effects, answers, log, nextSeq, failures, serving>>
  BY DEF ReadEvents
<1>2. NextPage \subseteq log /\ log \subseteq Nat \X Keys /\ nextSeq \in Nat
  BY DEF NextPage, ReceiptsInv, ReceiptsTyped, ReceiptsTypeOK
<1>3. /\ numbers \in SUBSET Nat /\ numbers # {}
      /\ \A n \in numbers : n < nextSeq
  BY <1>2 DEF ReadEvents, ReceiptsInv, SeqsAreDrawn
<1>4. seen' \subseteq Nat
  BY <1>3 DEF ReadEvents, ReceiptsInv, ReceiptsTyped, ReceiptsTypeOK
<1>5. \E m \in numbers : \A n \in numbers : n <= m
  <2> HIDE DEF numbers
  <2> QED
    BY <1>2, <1>3, GreatestExists
<1>6. \E m \in numbers : \A e \in NextPage : e[1] <= m
  BY <1>5
<1>7. cursor' \in Nat
  <2>1. cursor' = CHOOSE m \in numbers : \A e \in NextPage : e[1] <= m
    BY DEF ReadEvents
  <2>2. (CHOOSE m \in numbers : \A e \in NextPage : e[1] <= m) \in numbers
    <3> HIDE DEF numbers
    <3> QED
      BY <1>6
  <2> QED
    BY <1>3, <2>1, <2>2
<1> QED
  BY <1>1, <1>4, <1>7 DEF ReceiptsInv, ReceiptsTyped, ReceiptsTypeOK, EffectsAsReceipts, EventsAsReceipts,
     EventsOf, OneAppender, RowsToCommit, ReplaysItsOwn, LockHolderAlone, InFlight,
     SeqsAreDrawn, LockedNeverFail

-----------------------------------------------------------------------------
(***************************************************************************)
(* The theorems.                                                           *)
(***************************************************************************)

\* Receipts, effects, events, locks and what every handler has read are
\* consistent at every moment: the inductive invariant.
THEOREM ReceiptsInvariant == ReceiptsSpec => []ReceiptsInv
<1>1. ReceiptsInv /\ [ReceiptsNext]_receiptVars => ReceiptsInv'
  <2> SUFFICES ASSUME ReceiptsInv, [ReceiptsNext]_receiptVars PROVE ReceiptsInv'
    OBVIOUS
  <2>1. ASSUME NEW h \in Handlers, NEW k \in Keys, NEW p \in Payloads, Deliver(h, k, p)
        PROVE  ReceiptsInv'
    BY <2>1, DeliverStep
  <2>2. ASSUME NEW h \in Handlers, LoadReceipt(h) PROVE ReceiptsInv'
    BY <2>2, LoadReceiptStep
  <2>3. ASSUME NEW h \in Handlers, AppendEvent(h) PROVE ReceiptsInv'
    BY <2>3, AppendEventStep
  <2>4. ASSUME NEW h \in Handlers, CommitRequest(h) PROVE ReceiptsInv'
    BY <2>4, CommitRequestStep
  <2>5. ASSUME NEW h \in Handlers, Answer(h) PROVE ReceiptsInv'
    BY <2>5, ReceiptAnswerStep
  <2>6. ASSUME NEW h \in Handlers, LoseRequest(h) PROVE ReceiptsInv'
    BY <2>6, LoseRequestStep
  <2>7. CASE ReadEvents
    BY <2>7, ReadEventsStep
  <2>8. CASE UNCHANGED receiptVars
    BY <2>8 DEF receiptVars, ReceiptsInv, ReceiptsTyped, ReceiptsTypeOK, EffectsAsReceipts,
       EventsAsReceipts, EventsOf, OneAppender, RowsToCommit, ReplaysItsOwn,
       LockHolderAlone, InFlight, SeqsAreDrawn, LockedNeverFail
  <2> QED
    BY <2>1, <2>2, <2>3, <2>4, <2>5, <2>6, <2>7, <2>8 DEF ReceiptsNext
<1> QED
  BY <1>1, ReceiptsInitHolds, PTL DEF ReceiptsSpec

\* Every variable of Receipts has its type, for any number of handlers and keys.
THEOREM ReceiptsTypeCorrect == ReceiptsSpec => []ReceiptsTypeOK
<1>1. ReceiptsInv => ReceiptsTypeOK
  BY DEF ReceiptsInv, ReceiptsTyped
<1> QED
  BY <1>1, ReceiptsInvariant, PTL

\* A key has as many events as it took effect: an event is committed with what it
\* reports (append_event in the transaction of the request).
THEOREM EventsAreOfEffects == ReceiptsSpec => []OneEventPerEffect
<1>1. ReceiptsInv => OneEventPerEffect
  <2> SUFFICES ASSUME ReceiptsInv, NEW k \in Keys
               PROVE  Cardinality({e \in log : e[2] = k}) = Len(effects[k])
    BY DEF OneEventPerEffect
  <2>1. EventsOf(k) = {e \in log : e[2] = k}
    BY DEF EventsOf
  <2>2. CASE receipts[k] = None
    <3>1. EventsOf(k) = {} /\ effects[k] = <<>>
      BY <2>2 DEF ReceiptsInv, EventsAsReceipts, EffectsAsReceipts
    <3>2. Len(<<>>) = 0
      OBVIOUS
    <3> QED
      BY <2>1, <3>1, <3>2, FS_EmptySet
  <2>3. CASE receipts[k] # None
    <3>1. (\E n \in Nat : EventsOf(k) = {<<n, k>>}) /\ effects[k] = <<receipts[k]>>
      BY <2>3 DEF ReceiptsInv, EventsAsReceipts, EffectsAsReceipts
    <3>2. Cardinality(EventsOf(k)) = 1
      BY <3>1, FS_Singleton
    <3>3. Len(<<receipts[k]>>) = 1
      OBVIOUS
    <3> QED
      BY <2>1, <3>1, <3>2, <3>3
  <2> QED
    BY <2>2, <2>3
<1> QED
  BY <1>1, ReceiptsInvariant, PTL

\* A request under an advisory lock never ends in a unique violation (the lock
\* that load_receipt takes before it reads).
THEOREM LockedRequestsSucceed == ReceiptsSpec => []LockedNeverFail
<1>1. ReceiptsInv => LockedNeverFail
  BY DEF ReceiptsInv
<1> QED
  BY <1>1, ReceiptsInvariant, PTL

-----------------------------------------------------------------------------
(***************************************************************************)
(* The refinement: a commit performs, an answer answers, the rest is       *)
(* invisible to a client.                                                  *)
(***************************************************************************)

\* A commit performs the request of a key that has performed none.
LEMMA CommitPerforms ==
    ASSUME ReceiptsInv, NEW h \in Handlers, CommitRequest(h)
    PROVE  [Once!OnceNext]_(Once!onceVars)
<1> DEFINE k == serving[h].key
           p == serving[h].payload
<1>1. k \in Keys /\ p \in Payloads
  BY ServingShapes DEF CommitRequest, ReceiptsInv, ReceiptsTyped
<1>2. CASE receipts[k] = None
  <2>1. effects \in [Keys -> Seq(Payloads)] /\ effects[k] = <<>>
    BY <1>1, <1>2 DEF ReceiptsInv, ReceiptsTyped, ReceiptsTypeOK, EffectsAsReceipts
  <2>2. /\ effects' = [effects EXCEPT ![k] = Append(@, p)]
        /\ UNCHANGED answers
    BY <1>2 DEF CommitRequest
  <2>3. Append(effects[k], p) = <<p>>
    BY <2>1
  <2>4. effects' = [effects EXCEPT ![k] = <<p>>]
    BY <2>2, <2>3
  <2>5. Once!Perform(k, p)
    BY <2>1, <2>2, <2>4 DEF Once!Perform
  <2> QED
    BY <1>1, <2>5 DEF Once!OnceNext
<1>3. CASE receipts[k] # None
  BY <1>3 DEF CommitRequest, Once!onceVars
<1> QED
  BY <1>2, <1>3

\* An answer is that of the only request of its key that took effect.
LEMMA AnswerIsItsOwn ==
    ASSUME ReceiptsInv, NEW h \in Handlers, Answer(h)
    PROVE  Once!OnceNext
<1> DEFINE k == serving[h].key
           p == serving[h].payload
<1>1. k \in Keys /\ p \in Payloads
  BY ServingShapes DEF Answer, ReceiptsInv, ReceiptsTyped
<1>2. receipts[k] = p
  BY DEF Answer, ReceiptsInv, ReplaysItsOwn
<1>3. effects[k] = <<p>>
  BY <1>1, <1>2, NoneIsNoPayload DEF ReceiptsInv, EffectsAsReceipts
<1>4. answers' = answers \cup {<<k, p, p>>} /\ UNCHANGED effects
  BY <1>2 DEF Answer
<1>5. Once!AnswerOnce(k, p)
  BY <1>3, <1>4 DEF Once!AnswerOnce
<1> QED
  BY <1>1, <1>5 DEF Once!OnceNext

\* The receipts implement OnceOnly: whatever is sent under a key, however often and
\* by however many at once, one request of it takes effect and is answered.
THEOREM ReceiptsImplementOnceOnly == ReceiptsSpec => PerformedOnce
<1>1. ReceiptsInit => Once!OnceInit
  BY DEF ReceiptsInit, Once!OnceInit
<1>2. ReceiptsInv /\ [ReceiptsNext]_receiptVars => [Once!OnceNext]_(Once!onceVars)
  <2> SUFFICES ASSUME ReceiptsInv, [ReceiptsNext]_receiptVars
               PROVE  [Once!OnceNext]_(Once!onceVars)
    OBVIOUS
  <2>1. ASSUME NEW h \in Handlers, CommitRequest(h)
        PROVE  [Once!OnceNext]_(Once!onceVars)
    BY <2>1, CommitPerforms
  <2>2. ASSUME NEW h \in Handlers, Answer(h)
        PROVE  [Once!OnceNext]_(Once!onceVars)
    BY <2>2, AnswerIsItsOwn
  <2>3. ASSUME NEW h \in Handlers,
               \/ \E k \in Keys, p \in Payloads : Deliver(h, k, p)
               \/ LoadReceipt(h) \/ AppendEvent(h) \/ LoseRequest(h)
        PROVE  UNCHANGED <<effects, answers>>
    BY <2>3 DEF Deliver, LoadReceipt, AppendEvent, LoseRequest
  <2>4. CASE ReadEvents
    BY <2>4 DEF ReadEvents, Once!onceVars
  <2>5. CASE UNCHANGED receiptVars
    BY <2>5 DEF receiptVars, Once!onceVars
  <2> QED
    BY <2>1, <2>2, <2>3, <2>4, <2>5 DEF ReceiptsNext, Once!onceVars
<1> QED
  BY <1>1, <1>2, ReceiptsInvariant, PTL DEF ReceiptsSpec, PerformedOnce, Once!OnceSpec

\* What is said of Receipts at every moment: an effect has one event, and who is
\* under the lock of a key does not meet another's receipt.
THEOREM ReceiptsAreSafe == ReceiptsSpec => []ReceiptsSafe
<1>1. ReceiptsSpec => [](ReceiptsTypeOK /\ OneEventPerEffect /\ LockedNeverFail)
  BY ReceiptsTypeCorrect, EventsAreOfEffects, LockedRequestsSucceed, PTL
<1> QED
  BY <1>1, PTL DEF ReceiptsSafe

-----------------------------------------------------------------------------
(***************************************************************************)
(* Migrations: any number of runners of any images, of any length, that    *)
(* start, race and stop at any time.                                       *)
(***************************************************************************)
\* What a runner's record may be.
RunnerStates ==
    {NotRunning}
    \cup [stage : {"running", "locked", "applied", "refused"}, image : Images,
          pending : SUBSET Nat]

MigrationsTyped ==
    /\ schema \in Seq((Nat \ {0}) \X Checksums)
    /\ runners \in [Runners -> RunnerStates]

\* What a runner has pending is the end of its image, and what comes before it is
\* in the ledger as its image has it.
PendingFrom(r, m) ==
    /\ m \in 1..(Len(runners[r].image) + 1)
    /\ runners[r].pending = m..Len(runners[r].image)
    /\ \A o \in 1..(m - 1) : <<o, runners[r].image[o]>> \in ledger

Working(r) == runners[r].stage \in {"running", "locked"}
PendingIsSuffix == \A r \in Runners : Working(r) => \E m \in Nat : PendingFrom(r, m)

\* The holder of the lock is alone, and about to apply the next migration of the
\* schema: what it read under the lock is still so when it commits.
LockHolderIsNext ==
    \A r \in Runners : runners[r].stage = "locked" =>
        /\ PendingFrom(r, Len(schema) + 1)
        /\ Len(schema) + 1 <= Len(runners[r].image)
        /\ \A s \in Runners : runners[s].stage = "locked" => s = r

\* A refused runner has met a migration that is another one in its image, and the
\* ledger keeps it.
RefusedDiverges ==
    \A r \in Runners : runners[r].stage = "refused" =>
        \E e \in ledger :
            /\ e[1] <= Len(runners[r].image)
            /\ runners[r].image[e[1]] # e[2]

MigrationsInv ==
    /\ MigrationsTyped /\ StrictOrdinalOrder /\ PendingIsSuffix /\ LockHolderIsNext
    /\ RefusedDiverges /\ AppliedIsWhole

-----------------------------------------------------------------------------
(***************************************************************************)
(* The ledger, the history of an image, and what comes first.              *)
(***************************************************************************)
\* An image is a prefix of an order of migrations.
LEMMA ImageShape ==
    ASSUME NEW image \in Images
    PROVE  /\ image \in Seq(Checksums) /\ Len(image) \in Nat
           /\ \A o \in 1..Len(image) : image[o] \in Checksums
BY ImagesAreMigrations

\* What the record of a runner holds at each stage.
LEMMA RunnerShapes ==
    ASSUME NEW s \in RunnerStates
    PROVE  /\ s.stage \in {"idle", "running", "locked", "applied", "refused"}
           /\ s.stage # "idle" => s.image \in Images /\ s.pending \in SUBSET Nat
BY DEF RunnerStates, NotRunning

\* The first of the migrations that are left, and what is left after it.
LEMMA FirstOfSuffix ==
    ASSUME NEW m \in Nat, NEW n \in Nat, m <= n
    PROVE  First(m..n) = m
<1>1. m \in m..n /\ \A p \in m..n : m <= p
  OBVIOUS
<1>2. \A o \in m..n : (\A p \in m..n : o <= p) => o = m
  OBVIOUS
<1> QED
  BY <1>1, <1>2 DEF First

\* Every entry of the ledger is that of its ordinal in the schema.
LEMMA LedgerEntries ==
    ASSUME MigrationsInv
    PROVE  /\ Len(schema) \in Nat
           /\ \A o \in 1..Len(schema) :
                /\ schema[o] \in ledger
                /\ schema[o] = <<o, schema[o][2]>> /\ schema[o][2] \in Checksums
           /\ \A e \in ledger :
                /\ e[1] \in 1..Len(schema) /\ e = schema[e[1]] /\ e = <<e[1], e[2]>>
           /\ Ordinals(ledger) = 1..Len(schema)
<1>1. Len(schema) \in Nat /\ \A o \in 1..Len(schema) : schema[o] \in (Nat \ {0}) \X Checksums
  BY DEF MigrationsInv, MigrationsTyped
<1>2. \A o \in 1..Len(schema) :
        /\ schema[o] \in ledger
        /\ schema[o] = <<o, schema[o][2]>> /\ schema[o][2] \in Checksums
  BY <1>1 DEF MigrationsInv, StrictOrdinalOrder
<1>3. \A e \in ledger : e[1] \in 1..Len(schema) /\ e = schema[e[1]] /\ e = <<e[1], e[2]>>
  <2> SUFFICES ASSUME NEW e \in ledger
               PROVE  e[1] \in 1..Len(schema) /\ e = schema[e[1]] /\ e = <<e[1], e[2]>>
    OBVIOUS
  <2>1. PICK o \in 1..Len(schema) : e = schema[o]
    BY DEF MigrationsInv, StrictOrdinalOrder
  <2>2. e[1] = o
    BY <1>2, <2>1 DEF MigrationsInv, StrictOrdinalOrder
  <2> QED
    BY <1>2, <2>1, <2>2
<1>4. Ordinals(ledger) = 1..Len(schema)
  BY <1>2, <1>3 DEF Ordinals, MigrationsInv, StrictOrdinalOrder
<1> QED
  BY <1>1, <1>2, <1>3, <1>4

\* The ledger has as many rows as the schema has migrations.
LEMMA LedgerSize ==
    ASSUME MigrationsInv
    PROVE  Cardinality(ledger) = Len(schema)
<1> DEFINE f == [o \in 1..Len(schema) |-> schema[o]]
<1>1. f \in Bijection(1..Len(schema), ledger)
  <2>1. f \in Surjection(1..Len(schema), ledger)
    <3>1. f \in [1..Len(schema) -> ledger]
      BY LedgerEntries
    <3>2. \A e \in ledger : e[1] \in 1..Len(schema) /\ f[e[1]] = e
      BY LedgerEntries
    <3> QED
      BY <3>1, <3>2 DEF Surjection
  <2>2. \A o, p \in 1..Len(schema) : f[o] = f[p] => o = p
    <3> TAKE o, p \in 1..Len(schema)
    <3>1. schema[o][1] = o /\ schema[p][1] = p
      BY DEF MigrationsInv, StrictOrdinalOrder
    <3> QED
      BY <3>1
  <2> QED
    BY <2>1, <2>2 DEF Bijection, Injection, Surjection, IsInjective
<1>2. IsFiniteSet(1..Len(schema)) /\ Cardinality(1..Len(schema)) = Len(schema)
  BY SMTT(30), LedgerEntries, FS_Interval
<1>3. ExistsBijection(1..Len(schema), ledger)
  BY <1>1 DEF ExistsBijection
<1> QED
  BY <1>2, <1>3, FS_Bijection

\* The ledger has no gap, so an image agrees with it unless an entry differs.
LEMMA AgreesMeans ==
    ASSUME MigrationsInv, NEW image \in Images
    PROVE  Agrees(image, ledger)
             <=> \A e \in ledger : e[1] <= Len(image) => image[e[1]] = e[2]
BY LedgerEntries, LedgerSize DEF Agrees

\* What the invariant says of a runner, once the ledger has grown.
LEMMA LedgerGrows ==
    ASSUME NEW r \in Runners, runners'[r] = runners[r], ledger \subseteq ledger',
           NEW m \in Nat, PendingFrom(r, m)
    PROVE  PendingFrom(r, m)'
BY DEF PendingFrom

\* What the invariant says of a runner whose record is written anew.
LEMMA PendingAt ==
    ASSUME NEW r \in Runners, NEW s, NEW image, NEW m, runners'[r] = s,
           s.image = image, s.pending = m..Len(image), m \in 1..(Len(image) + 1),
           \A o \in 1..(m - 1) : <<o, image[o]>> \in ledger'
    PROVE  PendingFrom(r, m)'
BY DEF PendingFrom

-----------------------------------------------------------------------------
(***************************************************************************)
(* The steps.                                                              *)
(***************************************************************************)
\* The first state has it.
LEMMA MigrationsInitHolds == MigrationsInit => MigrationsInv
<1> SUFFICES ASSUME MigrationsInit PROVE MigrationsInv
  OBVIOUS
<1>1. schema = <<>> /\ Len(schema) = 0 /\ ledger = {}
  BY DEF MigrationsInit
<1>2. \A r \in Runners : runners[r].stage = "idle"
  BY DEF MigrationsInit, NotRunning
<1>3. MigrationsTyped
  BY DEF MigrationsInit, MigrationsTyped, RunnerStates
<1>4. StrictOrdinalOrder
  BY <1>1 DEF StrictOrdinalOrder
<1> QED
  BY <1>2, <1>3, <1>4
     DEF MigrationsInv, PendingIsSuffix, Working, LockHolderIsNext, RefusedDiverges, AppliedIsWhole

\* A step that changes the record of one runner and not the tables.
LEMMA RunnerStep ==
    ASSUME MigrationsInv, NEW r \in Runners, NEW s \in RunnerStates,
           runners' = [runners EXCEPT ![r] = s], UNCHANGED <<ledger, schema>>,
           Working(r)' => \E m \in Nat : PendingFrom(r, m)',
           s.stage = "locked" =>
             /\ PendingFrom(r, Len(schema) + 1)'
             /\ Len(schema) + 1 <= Len(s.image)
             /\ \A q \in Runners : runners[q].stage # "locked",
           s.stage = "refused" =>
             \E e \in ledger : e[1] <= Len(s.image) /\ s.image[e[1]] # e[2],
           s.stage = "applied" => \A o \in 1..Len(s.image) : <<o, s.image[o]>> \in ledger
    PROVE  MigrationsInv'
<1>1. runners \in [Runners -> RunnerStates]
  BY DEF MigrationsInv, MigrationsTyped
<1>2. \A q \in Runners : runners'[q] = IF q = r THEN s ELSE runners[q]
  BY <1>1
<1>3. MigrationsTyped'
  BY <1>1 DEF MigrationsInv, MigrationsTyped
<1>4. StrictOrdinalOrder'
  BY DEF MigrationsInv, StrictOrdinalOrder
<1>5. PendingIsSuffix'
  BY <1>2, LedgerGrows DEF MigrationsInv, PendingIsSuffix, Working
<1>6. LockHolderIsNext'
  <2> SUFFICES ASSUME NEW q \in Runners, runners'[q].stage = "locked"
               PROVE  /\ PendingFrom(q, Len(schema) + 1)'
                      /\ Len(schema) + 1 <= Len(runners'[q].image)
                      /\ \A t \in Runners : runners'[t].stage = "locked" => t = q
    BY DEF LockHolderIsNext
  <2>1. CASE q = r
    BY <1>2, <2>1
  <2>2. CASE q # r
    <3>1. /\ runners'[q] = runners[q] /\ runners[q].stage = "locked"
          /\ PendingFrom(q, Len(schema) + 1)
          /\ Len(schema) + 1 <= Len(runners[q].image)
          /\ \A t \in Runners : runners[t].stage = "locked" => t = q
      BY <1>2, <2>2 DEF MigrationsInv, LockHolderIsNext
    <3>2. PendingFrom(q, Len(schema) + 1)'
      BY <3>1 DEF PendingFrom
    <3> QED
      BY <1>2, <3>1, <3>2
  <2> QED
    BY <2>1, <2>2
<1>7. RefusedDiverges' /\ AppliedIsWhole'
  BY <1>2 DEF MigrationsInv, RefusedDiverges, AppliedIsWhole
<1> QED
  BY <1>3, <1>4, <1>5, <1>6, <1>7 DEF MigrationsInv

\* A runner takes up what its image has and the ledger has not.
LEMMA StartRunnerStep ==
    ASSUME MigrationsInv, NEW r \in Runners, NEW image \in Images, StartRunner(r, image)
    PROVE  MigrationsInv'
<1> DEFINE n == Len(schema)
           pending == (1..Len(image)) \ Ordinals(ledger)
           s == RunnerAt("running", image, pending)
           t == RunnerAt("refused", image, {})
<1>1. n \in Nat /\ Len(image) \in Nat /\ Ordinals(ledger) = 1..n
  BY LedgerEntries, ImageShape
<1>2. runners \in [Runners -> RunnerStates] /\ UNCHANGED <<ledger, schema>>
  BY DEF MigrationsInv, MigrationsTyped, StartRunner
<1>3. CASE Agrees(image, ledger)
  <2>1. s \in RunnerStates /\ s.stage = "running" /\ s.image = image /\ s.pending = pending
    BY <1>1 DEF RunnerStates, RunnerAt
  <2>2. runners' = [runners EXCEPT ![r] = s]
    BY <1>3 DEF StartRunner
  <2>3. runners'[r] = s
    BY <1>2, <2>2
  <2>4. PICK m \in 1..(Len(image) + 1) : pending = m..Len(image) /\ m <= n + 1
    <3>1. CASE n <= Len(image)
      <4>1. n + 1 \in 1..(Len(image) + 1) /\ pending = (n + 1)..Len(image)
        BY <1>1, <3>1
      <4> QED
        BY <4>1
    <3>2. CASE n > Len(image)
      <4>1. Len(image) + 1 \in 1..(Len(image) + 1) /\ pending = (Len(image) + 1)..Len(image)
        BY <1>1, <3>2
      <4>2. Len(image) + 1 <= n + 1
        BY <1>1, <3>2
      <4> QED
        BY <4>1, <4>2
    <3> QED
      BY <1>1, <3>1, <3>2
  <2>5. \A o \in 1..(m - 1) : <<o, image[o]>> \in ledger
    <3> SUFFICES ASSUME NEW o \in 1..(m - 1) PROVE <<o, image[o]>> \in ledger
      OBVIOUS
    <3>1. o \in 1..n /\ o <= Len(image)
      BY <1>1, <2>4
    <3>2. schema[o] \in ledger /\ schema[o] = <<o, schema[o][2]>>
      BY <3>1, LedgerEntries
    <3>3. schema[o][1] = o
      BY <3>2
    <3>4. image[o] = schema[o][2]
      BY <1>3, <3>1, <3>2, <3>3, AgreesMeans
    <3> QED
      BY <3>2, <3>4
  <2>6. m \in Nat /\ PendingFrom(r, m)'
    <3> HIDE DEF s, pending
    <3> QED
      BY <1>1, <1>2, <2>1, <2>3, <2>4, <2>5, PendingAt
  <2> HIDE DEF s
  <2> QED
    BY <1>2, <2>1, <2>2, <2>6, RunnerStep
<1>4. CASE ~Agrees(image, ledger)
  <2>1. t \in RunnerStates /\ t.stage = "refused" /\ t.image = image
    BY DEF RunnerStates, RunnerAt
  <2>2. runners' = [runners EXCEPT ![r] = t]
    BY <1>4 DEF StartRunner
  <2>3. \E e \in ledger : e[1] <= Len(image) /\ image[e[1]] # e[2]
    BY <1>4, AgreesMeans
  <2> HIDE DEF t
  <2>4. runners'[r].stage = "refused"
    BY <1>2, <2>1, <2>2
  <2> QED
    BY <1>2, <2>1, <2>2, <2>3, <2>4, RunnerStep DEF Working
<1> QED
  BY <1>3, <1>4

\* Under the lock, what another runner has applied is skipped or refused.
LEMMA LockMigrationStep ==
    ASSUME MigrationsInv, NEW r \in Runners, LockMigration(r)
    PROVE  MigrationsInv'
<1> DEFINE image == runners[r].image
           o == First(runners[r].pending)
           entry == <<o, image[o]>>
<1>1. /\ runners \in [Runners -> RunnerStates] /\ UNCHANGED <<ledger, schema>>
      /\ runners[r].stage = "running" /\ runners[r].pending # {}
      /\ \A q \in Runners : runners[q].stage # "locked"
  BY DEF MigrationsInv, MigrationsTyped, LockMigration, LockTaken
<1>2. image \in Images /\ Len(image) \in Nat
  BY <1>1, RunnerShapes, ImageShape
<1>3. PICK m \in Nat : PendingFrom(r, m)
  BY <1>1 DEF MigrationsInv, PendingIsSuffix, Working
<1>4. /\ m \in 1..Len(image) /\ runners[r].pending = m..Len(image)
      /\ \A p \in 1..(m - 1) : <<p, image[p]>> \in ledger
  BY <1>1, <1>2, <1>3 DEF PendingFrom
<1>5. o = m
  BY <1>2, <1>4, FirstOfSuffix
<1>6. Len(schema) \in Nat /\ Ordinals(ledger) = 1..Len(schema)
  BY LedgerEntries
<1> HIDE DEF o
<1>7. CASE entry \in ledger
  <2> DEFINE s == RunnerAt("running", image, (m + 1)..Len(image))
  <2>1. runners[r].pending \ {o} = (m + 1)..Len(image)
    BY <1>2, <1>4, <1>5
  <2>2. runners' = [runners EXCEPT ![r] = s]
    <3>1. runners' = [runners EXCEPT ![r] =
                        RunnerAt("running", image, runners[r].pending \ {o})]
      BY <1>7 DEF LockMigration, o
    <3> QED
      BY <2>1, <3>1
  <2>3. s \in RunnerStates /\ s.stage = "running"
    BY <1>2, <1>4 DEF RunnerStates, RunnerAt
  <2>4. runners'[r] = s
    BY <1>1, <2>2
  <2>5. \A p \in 1..m : <<p, image[p]>> \in ledger
    BY <1>4, <1>5, <1>7
  <2>6. m + 1 \in Nat /\ PendingFrom(r, m + 1)'
    <3>1. m + 1 \in 1..(Len(image) + 1) /\ m + 1 - 1 = m
      BY <1>2, <1>4
    <3>2. s.image = image /\ s.pending = (m + 1)..Len(image)
      BY DEF RunnerAt
    <3> HIDE DEF s, image
    <3> QED
      BY <1>1, <2>4, <2>5, <3>1, <3>2 DEF PendingFrom
  <2> HIDE DEF s
  <2> QED
    BY <1>1, <2>2, <2>3, <2>6, RunnerStep
<1>8. CASE entry \notin ledger /\ o \in Ordinals(ledger)
  <2> DEFINE s == RunnerAt("refused", image, {})
  <2>1. runners' = [runners EXCEPT ![r] = s]
    BY <1>8 DEF LockMigration, o
  <2>2. s \in RunnerStates /\ s.stage = "refused" /\ s.image = image
    BY <1>2 DEF RunnerStates, RunnerAt
  <2>3. PICK e \in ledger : e[1] = o
    BY <1>8 DEF Ordinals
  <2>4. e[1] <= Len(image) /\ image[e[1]] # e[2]
    <3>1. e = <<e[1], e[2]>>
      BY LedgerEntries
    <3>2. e[2] # image[o]
      BY <1>8, <2>3, <3>1
    <3> QED
      BY <1>2, <1>4, <1>5, <2>3, <3>2
  <2> HIDE DEF s
  <2>5. runners'[r].stage = "refused"
    BY <1>1, <2>1, <2>2
  <2> QED
    BY <1>1, <2>1, <2>2, <2>4, <2>5, RunnerStep DEF Working
<1>9. CASE entry \notin ledger /\ o \notin Ordinals(ledger)
  <2> DEFINE s == RunnerAt("locked", image, m..Len(image))
  <2>1. runners' = [runners EXCEPT ![r] = s]
    <3>1. runners' = [runners EXCEPT ![r] = RunnerAt("locked", image, runners[r].pending)]
      BY <1>9 DEF LockMigration, o
    <3> QED
      BY <1>4, <3>1
  <2>2. s \in RunnerStates /\ s.stage = "locked" /\ s.image = image
    BY <1>2, <1>4 DEF RunnerStates, RunnerAt
  <2>3. m = Len(schema) + 1
    <3>1. m > Len(schema)
      BY <1>4, <1>5, <1>6, <1>9
    <3>2. CASE m = 1
      BY <1>6, <3>1, <3>2
    <3>3. CASE m > 1
      <4>1. m - 1 \in 1..(m - 1)
        BY <1>4, <3>3
      <4>2. <<m - 1, image[m - 1]>> \in ledger
        BY <1>4, <4>1
      <4>3. <<m - 1, image[m - 1]>>[1] \in 1..Len(schema)
        <5> HIDE DEF image
        <5> QED
          BY <4>2, LedgerEntries
      <4>4. m - 1 <= Len(schema)
        BY <1>6, <4>3
      <4> QED
        BY <1>4, <1>6, <3>1, <4>4
    <3> QED
      BY <1>4, <3>2, <3>3
  <2>4. runners'[r] = s
    BY <1>1, <2>1
  <2>5. PendingFrom(r, m)'
    <3>1. s.image = image /\ s.pending = m..Len(image)
      BY DEF RunnerAt
    <3>2. m \in 1..(Len(image) + 1)
      BY <1>2, <1>4
    <3> HIDE DEF s, image
    <3> QED
      BY <1>1, <1>4, <2>4, <3>1, <3>2 DEF PendingFrom
  <2>6. Len(schema) + 1 <= Len(image)
    BY <1>2, <1>4, <2>3
  <2> HIDE DEF s
  <2>7. PendingFrom(r, Len(schema) + 1)'
    BY <1>1, <2>3, <2>5
  <2> QED
    BY <1>1, <2>1, <2>2, <2>5, <2>6, <2>7, RunnerStep
<1> QED
  BY <1>7, <1>8, <1>9

\* The lock holder's migration is still the next one, so its row is new.
LEMMA CommitMigrationStep ==
    ASSUME MigrationsInv, NEW r \in Runners, CommitMigration(r)
    PROVE  MigrationsInv'
<1>0. PICK m \in Nat : m = Len(schema) + 1
  BY LedgerEntries
<1> DEFINE image == runners[r].image
           entry == <<m, image[m]>>
           s == RunnerAt("running", image, (m + 1)..Len(image))
<1>1. /\ runners \in [Runners -> RunnerStates] /\ runners[r].stage = "locked"
      /\ schema \in Seq((Nat \ {0}) \X Checksums)
  BY DEF MigrationsInv, MigrationsTyped, CommitMigration
<1>2. image \in Images /\ Len(image) \in Nat /\ Len(schema) \in Nat
  BY <1>1, RunnerShapes, ImageShape
<1>3. /\ m \in 1..Len(image) /\ runners[r].pending = m..Len(image)
      /\ \A p \in 1..(m - 1) : <<p, image[p]>> \in ledger
      /\ \A q \in Runners : runners[q].stage = "locked" => q = r
  BY <1>0, <1>1, <1>2 DEF MigrationsInv, LockHolderIsNext, PendingFrom
<1>4. First(runners[r].pending) = m
  BY <1>2, <1>3, FirstOfSuffix
<1>5. m \notin Ordinals(ledger)
  BY <1>0, <1>2, LedgerEntries
<1>6. runners[r].pending \ {m} = (m + 1)..Len(image)
  BY <1>2, <1>3
<1>7. /\ ledger' = ledger \cup {entry}
      /\ schema' = Append(schema, entry)
      /\ runners' = [runners EXCEPT ![r] = s]
  <2>1. /\ ledger' = ledger \cup {entry}
        /\ schema' = Append(schema, entry)
        /\ runners' = [runners EXCEPT ![r] =
                         RunnerAt("running", image, runners[r].pending \ {m})]
    BY <1>4, <1>5 DEF CommitMigration
  <2> QED
    BY <1>6, <2>1
<1>8. /\ s \in RunnerStates /\ s.stage = "running" /\ s.image = image
      /\ s.pending = (m + 1)..Len(image)
  BY <1>2, <1>3 DEF RunnerStates, RunnerAt
<1>9. entry \in (Nat \ {0}) \X Checksums
  BY <1>2, <1>3, ImageShape
<1>10. /\ Len(schema') = m
       /\ \A o \in 1..Len(schema) : schema'[o] = schema[o]
       /\ schema'[m] = entry /\ entry[1] = m
  <2> HIDE DEF image
  <2> QED
    BY <1>0, <1>1, <1>2, <1>7, <1>9
<1> HIDE DEF s
<1>11. \A q \in Runners : runners'[q] = IF q = r THEN s ELSE runners[q]
  BY <1>1, <1>7
<1>12. MigrationsTyped'
  <2>1. schema' \in Seq((Nat \ {0}) \X Checksums)
    BY <1>1, <1>7, <1>9
  <2> QED
    BY <1>1, <1>7, <1>8, <2>1 DEF MigrationsTyped
<1>13. StrictOrdinalOrder'
  <2>1. \A o \in 1..m : schema'[o][1] = o
    <3>1. \A o \in 1..Len(schema) : schema'[o][1] = o
      BY <1>10 DEF MigrationsInv, StrictOrdinalOrder
    <3>2. \A o \in 1..m : o \in 1..Len(schema) \/ o = m
      BY <1>0, <1>2
    <3> QED
      BY <1>10, <3>1, <3>2
  <2>2. ledger' = {schema'[o] : o \in 1..m}
    <3>1. 1..m = (1..Len(schema)) \cup {m}
      BY <1>0, <1>2
    <3>2. ledger = {schema[o] : o \in 1..Len(schema)}
      BY DEF MigrationsInv, StrictOrdinalOrder
    <3> HIDE DEF entry
    <3> QED
      BY <1>7, <1>10, <3>1, <3>2
  <2> QED
    BY <1>10, <2>1, <2>2 DEF StrictOrdinalOrder
<1>14. PendingFrom(r, m + 1)' /\ m + 1 \in Nat
  <2>1. m + 1 \in 1..(Len(image) + 1) /\ m + 1 - 1 = m
    BY <1>2, <1>3
  <2>2. \A p \in 1..m : <<p, image[p]>> \in ledger'
    <3>1. \A p \in 1..m : p \in 1..(m - 1) \/ p = m
      BY <1>2
    <3> QED
      BY <1>3, <1>7, <3>1
  <2>3. runners'[r] = s
    BY <1>11
  <2> HIDE DEF image
  <2> QED
    BY <1>8, <2>1, <2>2, <2>3, PendingAt
<1>15. PendingIsSuffix'
  <2> SUFFICES ASSUME NEW q \in Runners, Working(q)' PROVE \E n \in Nat : PendingFrom(q, n)'
    BY DEF PendingIsSuffix
  <2>1. CASE q = r
    BY <1>14, <2>1
  <2>2. CASE q # r
    <3>1. runners'[q] = runners[q] /\ Working(q)
      BY <1>11, <2>2 DEF Working
    <3>2. PICK n \in Nat : PendingFrom(q, n)
      BY <3>1 DEF MigrationsInv, PendingIsSuffix
    <3>3. PendingFrom(q, n)'
      BY <1>7, <3>1, <3>2, LedgerGrows
    <3> QED
      BY <3>3
  <2> QED
    BY <2>1, <2>2
<1>16. LockHolderIsNext'
  BY <1>3, <1>8, <1>11 DEF LockHolderIsNext
<1>17. RefusedDiverges' /\ AppliedIsWhole'
  BY <1>7, <1>8, <1>11 DEF MigrationsInv, RefusedDiverges, AppliedIsWhole
<1> QED
  BY <1>12, <1>13, <1>15, <1>16, <1>17 DEF MigrationsInv

\* A runner with nothing left has seen its whole image applied.
LEMMA EndRunnerStep ==
    ASSUME MigrationsInv, NEW r \in Runners, EndRunner(r)
    PROVE  MigrationsInv'
<1> DEFINE image == runners[r].image
           s == RunnerAt("applied", image, {})
<1>1. /\ runners \in [Runners -> RunnerStates] /\ UNCHANGED <<ledger, schema>>
      /\ runners[r].stage = "running" /\ runners[r].pending = {}
      /\ runners' = [runners EXCEPT ![r] = s]
  BY DEF MigrationsInv, MigrationsTyped, EndRunner
<1>2. image \in Images /\ Len(image) \in Nat
  BY <1>1, RunnerShapes, ImageShape
<1>3. s \in RunnerStates /\ s.stage = "applied" /\ s.image = image
  BY <1>2 DEF RunnerStates, RunnerAt
<1>4. PICK m \in Nat : PendingFrom(r, m)
  BY <1>1 DEF MigrationsInv, PendingIsSuffix, Working
<1>5. \A o \in 1..Len(image) : <<o, image[o]>> \in ledger
  <2>1. m \in 1..(Len(image) + 1) /\ m..Len(image) = {}
    BY <1>1, <1>2, <1>4 DEF PendingFrom
  <2>2. m = Len(image) + 1
    <3> HIDE DEF image
    <3> QED
      BY <1>2, <2>1
  <2> QED
    BY <1>2, <1>4, <2>2 DEF PendingFrom
<1> HIDE DEF s
<1>6. runners'[r].stage = "applied"
  BY <1>1, <1>3
<1> QED
  BY <1>1, <1>3, <1>5, <1>6, RunnerStep DEF Working

\* A runner that stops leaves the ledger as it is.
LEMMA StopRunnerStep ==
    ASSUME MigrationsInv, NEW r \in Runners, StopRunner(r)
    PROVE  MigrationsInv'
<1>1. NotRunning \in RunnerStates /\ NotRunning.stage = "idle"
  BY DEF RunnerStates, NotRunning
<1>2. /\ runners \in [Runners -> RunnerStates] /\ UNCHANGED <<ledger, schema>>
      /\ runners' = [runners EXCEPT ![r] = NotRunning]
  BY DEF MigrationsInv, MigrationsTyped, StopRunner
<1>3. runners'[r].stage = "idle"
  BY <1>1, <1>2
<1> QED
  BY <1>1, <1>2, <1>3, RunnerStep DEF Working

-----------------------------------------------------------------------------
(***************************************************************************)
(* The theorems.                                                           *)
(***************************************************************************)

\* The ledger is the schema, every runner's pending migrations are the end of its
\* image, and the lock holder's is the next: the inductive invariant.
THEOREM MigrationsInvariant == MigrationsSpec => []MigrationsInv
<1>1. MigrationsInv /\ [MigrationsNext]_migrationVars => MigrationsInv'
  <2> SUFFICES ASSUME MigrationsInv, [MigrationsNext]_migrationVars PROVE MigrationsInv'
    OBVIOUS
  <2>1. ASSUME NEW r \in Runners, NEW image \in Images, StartRunner(r, image)
        PROVE  MigrationsInv'
    BY <2>1, StartRunnerStep
  <2>2. ASSUME NEW r \in Runners, LockMigration(r) PROVE MigrationsInv'
    BY <2>2, LockMigrationStep
  <2>3. ASSUME NEW r \in Runners, CommitMigration(r) PROVE MigrationsInv'
    BY <2>3, CommitMigrationStep
  <2>4. ASSUME NEW r \in Runners, EndRunner(r) PROVE MigrationsInv'
    BY <2>4, EndRunnerStep
  <2>5. ASSUME NEW r \in Runners, StopRunner(r) PROVE MigrationsInv'
    BY <2>5, StopRunnerStep
  <2>6. CASE UNCHANGED migrationVars
    BY <2>6, SMTT(30) DEF migrationVars, MigrationsInv, MigrationsTyped, StrictOrdinalOrder, PendingIsSuffix, Working,
       PendingFrom, LockHolderIsNext, RefusedDiverges, AppliedIsWhole
  <2> QED
    BY <2>1, <2>2, <2>3, <2>4, <2>5, <2>6 DEF MigrationsNext
<1> QED
  BY <1>1, MigrationsInitHolds, PTL DEF MigrationsSpec

\* The schema is what the ledger says, in strict ordinal order and each migration
\* once (apply_pending), for any number of runners of any images.
THEOREM OrderIsStrict == MigrationsSpec => []StrictOrdinalOrder
<1>1. MigrationsInv => StrictOrdinalOrder
  BY DEF MigrationsInv
<1> QED
  BY <1>1, MigrationsInvariant, PTL

\* Whatever runners start, race and stop: the order is strict, a runner that ended
\* well left the whole of its image, and one that was refused met a divergence
\* (apply_pending, verify_history).
THEOREM RunnersAreSafe == MigrationsSpec => []MigrationsSafe
<1>1. MigrationsInv => MigrationsTypeOK
  <2> SUFFICES ASSUME MigrationsInv PROVE MigrationsTypeOK
    OBVIOUS
  <2>1. ledger \subseteq (Nat \ {0}) \X Checksums
    BY LedgerEntries DEF MigrationsInv, MigrationsTyped
  <2>2. runners \in [Runners -> RunnerStates] /\ schema \in Seq((Nat \ {0}) \X Checksums)
    BY DEF MigrationsInv, MigrationsTyped
  <2> QED
    BY <2>1, <2>2, RunnerShapes DEF MigrationsTypeOK
<1>2. MigrationsInv => OnlyDivergenceRefused
  <2> SUFFICES ASSUME MigrationsInv, NEW r \in Runners, runners[r].stage = "refused"
               PROVE  ~Agrees(runners[r].image, ledger)
    BY DEF OnlyDivergenceRefused
  <2>1. runners[r].image \in Images
    BY RunnerShapes DEF MigrationsInv, MigrationsTyped
  <2>2. \E e \in ledger : e[1] <= Len(runners[r].image) /\ runners[r].image[e[1]] # e[2]
    BY DEF MigrationsInv, RefusedDiverges
  <2> QED
    BY <2>1, <2>2, AgreesMeans
<1>3. MigrationsInv => MigrationsSafe
  BY <1>1, <1>2 DEF MigrationsInv, MigrationsSafe
<1> QED
  BY <1>3, MigrationsInvariant, PTL

-----------------------------------------------------------------------------
(***************************************************************************)
(* SourceCapture: any number of migrations and attempts, runners that stop *)
(* anywhere and writers that go without the lock.                          *)
(***************************************************************************)
\* A capture is tried again only while it has attempts left.
AttemptsLeft ==
    /\ capture.stage = "idle" => capture.attempt = 0
    /\ capture.stage = "retry" => capture.attempt < CaptureAttempts

\* A runner begins within the bound, and nobody else moves the source until it ends.
RoomLeft ==
    /\ migrator = "locked" => ddl < MaxMigrations
    /\ migrator # "idle" => ledgerRows < MaxMigrations

\* The advisory lock: no runner is at work while a capture reads.
LockExcludes == HasSharedLock => migrator = "idle"

\* Between the two commits of a runner the source may be in a state it never had
\* with its own ledger, and after a stop between them for good.
SettledOutside == migrator # "changed" /\ ~torn => <<ddl, ledgerRows>> \in settled

\* Those who go without the lock move the structure and the ledger together, so
\* the ledger tells by how much the structure has moved since it was read.
SnapshotAge ==
    capture.stage \in {"snapshot", "structure", "read"} =>
        IF readable
        THEN /\ capture.tables \in Nat /\ capture.during \in Nat
             /\ capture.tables <= ddl
             /\ ddl - capture.tables = ledgerRows - capture.during
        ELSE capture.during = -1
DefinitionsAge ==
    capture.stage \in {"structure", "read"} /\ readable =>
        /\ capture.definitions \in Nat
        /\ capture.tables <= capture.definitions /\ capture.definitions <= ddl
AfterAge ==
    capture.stage = "read" /\ readable =>
        /\ capture.after \in Nat
        /\ capture.definitions - capture.tables <= capture.after - capture.during

\* What is in the snapshot is a state the source had with its own ledger.
SnapshotSettled ==
    capture.stage \in {"snapshot", "structure", "read"} /\ readable /\ ~torn =>
        <<capture.tables, capture.during>> \in settled

SourceInv ==
    /\ SourceTypeOK /\ AttemptsLeft /\ RoomLeft /\ LockExcludes /\ SettledOutside
    /\ SnapshotAge /\ DefinitionsAge /\ AfterAge /\ SnapshotSettled
    /\ CertifiedPair

-----------------------------------------------------------------------------
(***************************************************************************)
(* The source moves.                                                       *)
(***************************************************************************)
\* What holds of a capture that has not read anything, or has ended, holds whatever
\* the source does to it.
LEMMA NobodyReads ==
    ASSUME SourceInv, ~HasSharedLock, capture' = capture, readable' = readable,
           settled \subseteq settled', torn => torn'
    PROVE  /\ LockExcludes' /\ AttemptsLeft' /\ SnapshotAge' /\ DefinitionsAge'
           /\ AfterAge' /\ SnapshotSettled' /\ CertifiedPair'
BY DEF SourceInv, AttemptsLeft, LockExcludes, SnapshotAge, DefinitionsAge, AfterAge,
       SnapshotSettled, CertifiedPair, HasSharedLock

\* A runner takes the lock when no capture reads.
LEMMA BeginMigrationStep == SourceInv /\ BeginMigration => SourceInv'
<1> SUFFICES ASSUME SourceInv, BeginMigration PROVE SourceInv'
  OBVIOUS
<1>1. SourceTypeOK' /\ RoomLeft' /\ SettledOutside'
  BY DEF SourceInv, BeginMigration, SourceTypeOK, RoomLeft, SettledOutside
<1> QED
  BY <1>1, NobodyReads DEF SourceInv, BeginMigration

\* Under the runner's lock no capture is reading, so the structure may move alone.
LEMMA CommitDdlStep == SourceInv /\ CommitDdl => SourceInv'
<1> SUFFICES ASSUME SourceInv, CommitDdl PROVE SourceInv'
  OBVIOUS
<1>1. ~HasSharedLock
  BY DEF SourceInv, CommitDdl, LockExcludes
<1>2. SourceTypeOK' /\ RoomLeft' /\ SettledOutside'
  BY CaptureBounds DEF SourceInv, CommitDdl, SourceTypeOK, RoomLeft, SettledOutside
<1> QED
  BY <1>1, <1>2, NobodyReads DEF SourceInv, CommitDdl

\* The row of the ledger settles the structure that was committed before it.
LEMMA RecordRowStep == SourceInv /\ RecordRow => SourceInv'
<1> SUFFICES ASSUME SourceInv, RecordRow PROVE SourceInv'
  OBVIOUS
<1>1. ~HasSharedLock
  BY DEF SourceInv, RecordRow, LockExcludes
<1>2. ledgerRows + 1 \in 0..MaxMigrations
  BY CaptureBounds DEF SourceInv, RecordRow, SourceTypeOK, RoomLeft
<1>3. SourceTypeOK' /\ RoomLeft' /\ SettledOutside'
  BY <1>2 DEF SourceInv, RecordRow, SourceTypeOK, RoomLeft, SettledOutside
<1> QED
  BY <1>1, <1>3, NobodyReads DEF SourceInv, RecordRow

\* A runner that stops between its commits tears the source, unless its migration
\* left the structure as it was.
LEMMA CaptureRunnerStops == SourceInv /\ StopRunnerOfSource => SourceInv'
<1> SUFFICES ASSUME SourceInv, StopRunnerOfSource PROVE SourceInv'
  OBVIOUS
<1>1. ~HasSharedLock
  BY DEF SourceInv, StopRunnerOfSource, LockExcludes
<1>2. SourceTypeOK' /\ RoomLeft' /\ SettledOutside'
  BY DEF SourceInv, StopRunnerOfSource, SourceTypeOK, RoomLeft, SettledOutside
<1> QED
  BY <1>1, <1>2, NobodyReads DEF SourceInv, StopRunnerOfSource

\* Who goes without the lock may do so while a capture reads, but moves the ledger
\* with the structure.
LEMMA BypassLockStep == SourceInv /\ BypassLock => SourceInv'
<1> SUFFICES ASSUME SourceInv, BypassLock PROVE SourceInv'
  OBVIOUS
<1>1. ddl \in Nat /\ ledgerRows \in Nat /\ ddl' = ddl + 1 /\ ledgerRows' = ledgerRows + 1
  BY CaptureBounds DEF SourceInv, BypassLock, SourceTypeOK
<1>2. SourceTypeOK' /\ RoomLeft' /\ SettledOutside' /\ AttemptsLeft' /\ LockExcludes'
  BY <1>1, CaptureBounds
  DEF SourceInv, BypassLock, SourceTypeOK, RoomLeft, SettledOutside, AttemptsLeft,
      LockExcludes, HasSharedLock
<1>3. SnapshotAge'
  BY <1>1 DEF SourceInv, BypassLock, SnapshotAge
<1>4. DefinitionsAge'
  BY <1>1 DEF SourceInv, BypassLock, DefinitionsAge
<1>5. AfterAge' /\ SnapshotSettled' /\ CertifiedPair'
  BY DEF SourceInv, BypassLock, AfterAge, SnapshotSettled, CertifiedPair
<1> QED
  BY <1>2, <1>3, <1>4, <1>5 DEF SourceInv

-----------------------------------------------------------------------------
(***************************************************************************)
(* The capture reads.                                                      *)
(***************************************************************************)
\* The source stands still while the capture takes a step of its own.
SourceStands == UNCHANGED <<ddl, ledgerRows, readable, migrator, torn, settled>>

\* Then what is said of the source alone still holds.
LEMMA SourceStandsStep ==
    ASSUME SourceInv, SourceStands,
           capture'.stage \in {"idle", "locked", "ledger", "snapshot", "structure",
                               "read", "retry", "accepted", "refused"},
           capture'.attempt \in 0..CaptureAttempts
    PROVE  SourceTypeOK' /\ RoomLeft' /\ SettledOutside'
BY DEF SourceInv, SourceStands, SourceTypeOK, RoomLeft, SettledOutside

\* The lock is taken when no runner has it.
LEMMA AcquireStep == SourceInv /\ AcquireSharedLock => SourceInv'
<1> SUFFICES ASSUME SourceInv, AcquireSharedLock PROVE SourceInv'
  OBVIOUS
<1>1. capture.attempt \in 0..CaptureAttempts /\ capture.attempt < CaptureAttempts
  BY CaptureBounds DEF SourceInv, AcquireSharedLock, SourceTypeOK, AttemptsLeft
<1>2. /\ capture'.stage \in {"locked", "refused"}
      /\ capture'.attempt \in 0..CaptureAttempts
      /\ capture'.stage = "locked" => migrator' = "idle"
  BY <1>1, CaptureBounds DEF AcquireSharedLock
<1>3. SourceTypeOK' /\ RoomLeft' /\ SettledOutside'
  BY <1>2, SourceStandsStep DEF AcquireSharedLock, SourceStands
<1> QED
  BY <1>2, <1>3 DEF SourceInv, AttemptsLeft, LockExcludes, SnapshotAge, DefinitionsAge,
                    AfterAge, SnapshotSettled, CertifiedPair, HasSharedLock

\* Nothing is known of the structure yet.
LEMMA ReadBeforeStep == SourceInv /\ ReadBefore => SourceInv'
<1> SUFFICES ASSUME SourceInv, ReadBefore PROVE SourceInv'
  OBVIOUS
<1>1. capture'.stage = "ledger" /\ capture'.attempt = capture.attempt
  BY DEF ReadBefore
<1>2. SourceTypeOK' /\ RoomLeft' /\ SettledOutside'
  BY <1>1, SourceStandsStep DEF SourceInv, SourceTypeOK, ReadBefore, SourceStands
<1>3. LockExcludes'
  BY DEF SourceInv, ReadBefore, LockExcludes, HasSharedLock
<1> QED
  BY <1>1, <1>2, <1>3 DEF SourceInv, AttemptsLeft, SnapshotAge, DefinitionsAge, AfterAge,
                          SnapshotSettled, CertifiedPair

\* The snapshot is of the moment: tables and ledger are those of the source, which
\* is settled, as no runner is at work.
LEMMA OpenSnapshotStep == SourceInv /\ OpenSnapshot => SourceInv'
<1> SUFFICES ASSUME SourceInv, OpenSnapshot PROVE SourceInv'
  OBVIOUS
<1>1. /\ capture'.stage = "snapshot" /\ capture'.attempt = capture.attempt
      /\ capture'.tables = ddl /\ capture'.during = LedgerIdentity
  BY DEF OpenSnapshot
<1>2. SourceTypeOK' /\ RoomLeft' /\ SettledOutside'
  BY <1>1, SourceStandsStep DEF SourceInv, SourceTypeOK, OpenSnapshot, SourceStands
<1>3. LockExcludes' /\ migrator = "idle"
  BY DEF SourceInv, OpenSnapshot, LockExcludes, HasSharedLock
<1>4. ddl \in Nat /\ ledgerRows \in Nat
  BY CaptureBounds DEF SourceInv, SourceTypeOK
<1>5. SnapshotAge' /\ SnapshotSettled'
  BY <1>1, <1>3, <1>4
  DEF SourceInv, OpenSnapshot, LedgerIdentity, SnapshotAge, SnapshotSettled, SettledOutside
<1> QED
  BY <1>1, <1>2, <1>3, <1>5 DEF SourceInv, AttemptsLeft, DefinitionsAge, AfterAge, CertifiedPair

\* The definitions are of now, which is not before the snapshot.
LEMMA ReadDefinitionsStep == SourceInv /\ ReadDefinitions => SourceInv'
<1> SUFFICES ASSUME SourceInv, ReadDefinitions PROVE SourceInv'
  OBVIOUS
<1>1. /\ capture'.stage = "structure" /\ capture'.attempt = capture.attempt
      /\ capture'.tables = capture.tables /\ capture'.during = capture.during
      /\ capture'.definitions = ddl
  BY DEF ReadDefinitions
<1>2. SourceTypeOK' /\ RoomLeft' /\ SettledOutside'
  BY <1>1, SourceStandsStep DEF SourceInv, SourceTypeOK, ReadDefinitions, SourceStands
<1>3. LockExcludes' /\ SnapshotAge' /\ SnapshotSettled'
  BY <1>1
  DEF SourceInv, ReadDefinitions, LockExcludes, HasSharedLock, SnapshotAge, SnapshotSettled
<1>4. DefinitionsAge'
  BY <1>1, CaptureBounds
  DEF SourceInv, ReadDefinitions, SnapshotAge, DefinitionsAge, SourceTypeOK
<1> QED
  BY <1>1, <1>2, <1>3, <1>4 DEF SourceInv, AttemptsLeft, AfterAge, CertifiedPair

\* The ledger has moved by at least as much as the structure has in between.
LEMMA ReadAfterStep == SourceInv /\ ReadAfter => SourceInv'
<1> SUFFICES ASSUME SourceInv, ReadAfter PROVE SourceInv'
  OBVIOUS
<1>1. /\ capture'.stage = "read" /\ capture'.attempt = capture.attempt
      /\ capture'.tables = capture.tables /\ capture'.during = capture.during
      /\ capture'.definitions = capture.definitions /\ capture'.after = LedgerIdentity
  BY DEF ReadAfter
<1>2. SourceTypeOK' /\ RoomLeft' /\ SettledOutside'
  BY <1>1, SourceStandsStep DEF SourceInv, SourceTypeOK, ReadAfter, SourceStands
<1>3. LockExcludes' /\ SnapshotAge' /\ SnapshotSettled' /\ DefinitionsAge'
  BY <1>1
  DEF SourceInv, ReadAfter, LockExcludes, HasSharedLock, SnapshotAge, SnapshotSettled,
      DefinitionsAge
<1>4. AfterAge'
  BY <1>1, CaptureBounds
  DEF SourceInv, ReadAfter, SnapshotAge, DefinitionsAge, AfterAge, LedgerIdentity, SourceTypeOK
<1> QED
  BY <1>1, <1>2, <1>3, <1>4 DEF SourceInv, AttemptsLeft, CertifiedPair

\* A ledger that has not moved says that the structure has not.
LEMMA CompareLedgersStep == SourceInv /\ CompareLedgers => SourceInv'
<1> SUFFICES ASSUME SourceInv, CompareLedgers PROVE SourceInv'
  OBVIOUS
<1>1. CASE SameLedger(capture)
  <2>1. /\ capture'.stage = "accepted" /\ capture'.attempt = capture.attempt
        /\ capture'.tables = capture.tables /\ capture'.during = capture.during
        /\ capture'.definitions = capture.definitions
        /\ capture'.consistent = Consistent(capture)
    BY <1>1 DEF CompareLedgers
  <2>2. CertifiedPair'
    <3> SUFFICES ASSUME Consistent(capture), ~torn
                 PROVE  /\ capture.tables = capture.definitions
                        /\ <<capture.tables, capture.during>> \in settled
      BY <2>1 DEF CertifiedPair, CompareLedgers
    <3>1. readable
      BY DEF SourceInv, CompareLedgers, SnapshotAge, Consistent
    <3>2. capture.after = capture.during
      BY <1>1 DEF SameLedger
    <3>3. capture.tables = capture.definitions
      BY <3>1, <3>2 DEF SourceInv, CompareLedgers, SnapshotAge, DefinitionsAge, AfterAge
    <3> QED
      BY <3>1, <3>3 DEF SourceInv, CompareLedgers, SnapshotSettled
  <2>3. SourceTypeOK' /\ RoomLeft' /\ SettledOutside'
    BY <2>1, SourceStandsStep DEF SourceInv, SourceTypeOK, CompareLedgers, SourceStands
  <2> QED
    BY <2>1, <2>2, <2>3 DEF SourceInv, AttemptsLeft, LockExcludes, HasSharedLock,
                            SnapshotAge, DefinitionsAge, AfterAge, SnapshotSettled
<1>2. CASE ~SameLedger(capture)
  <2>1. /\ capture'.stage \in {"retry", "refused"} /\ capture'.attempt = capture.attempt
        /\ capture'.stage = "retry" => capture.attempt < CaptureAttempts
    BY <1>2 DEF CompareLedgers
  <2>2. SourceTypeOK' /\ RoomLeft' /\ SettledOutside'
    BY <2>1, SourceStandsStep DEF SourceInv, SourceTypeOK, CompareLedgers, SourceStands
  <2> QED
    BY <2>1, <2>2 DEF SourceInv, AttemptsLeft, LockExcludes, HasSharedLock, SnapshotAge,
                      DefinitionsAge, AfterAge, SnapshotSettled, CertifiedPair
<1> QED
  BY <1>1, <1>2

\* A capture that is over leaves nothing behind.
LEMMA EndCaptureStep == SourceInv /\ EndCapture => SourceInv'
<1> SUFFICES ASSUME SourceInv, EndCapture PROVE SourceInv'
  OBVIOUS
<1>1. capture'.stage = "idle" /\ capture'.attempt = 0
  BY DEF EndCapture, CaptureIdle
<1>2. SourceTypeOK' /\ RoomLeft' /\ SettledOutside'
  BY <1>1, CaptureBounds, SourceStandsStep DEF EndCapture, SourceStands
<1> QED
  BY <1>1, <1>2 DEF SourceInv, AttemptsLeft, LockExcludes, HasSharedLock, SnapshotAge,
                    DefinitionsAge, AfterAge, SnapshotSettled, CertifiedPair

-----------------------------------------------------------------------------
(***************************************************************************)
(* The theorems.                                                           *)
(***************************************************************************)
\* The invariant holds in every state: the lock excludes runners, and what has been
\* read is as old as the ledger says (schema_catalogue_capture.capture).
THEOREM SourceInvariant == SourceSpec => []SourceInv
<1>1. SourceInit => SourceInv
  <2> SUFFICES ASSUME SourceInit PROVE SourceInv
    OBVIOUS
  <2>1. 0 \in 0..MaxMigrations /\ 0 \in 0..CaptureAttempts
    BY CaptureBounds
  <2>2. capture.stage = "idle" /\ capture.attempt = 0
    BY DEF SourceInit, CaptureIdle
  <2>3. settled = {<<0, 0>>} /\ settled \subseteq (0..MaxMigrations) \X (0..MaxMigrations)
    BY <2>1 DEF SourceInit
  <2>4. SourceTypeOK
    BY <2>1, <2>2, <2>3 DEF SourceInit, SourceTypeOK
  <2>5. SettledOutside /\ RoomLeft
    BY <2>3 DEF SourceInit, SettledOutside, RoomLeft
  <2> QED
    BY <2>2, <2>4, <2>5 DEF SourceInv, AttemptsLeft, LockExcludes, HasSharedLock, SnapshotAge,
                      DefinitionsAge, AfterAge, SnapshotSettled, CertifiedPair
<1>2. SourceInv /\ [SourceNext]_sourceVars => SourceInv'
  <2> SUFFICES ASSUME SourceInv, [SourceNext]_sourceVars PROVE SourceInv'
    OBVIOUS
  <2>1. CASE UNCHANGED sourceVars
    BY <2>1
    DEF sourceVars, SourceInv, SourceTypeOK, AttemptsLeft, RoomLeft, LockExcludes, HasSharedLock,
        SettledOutside, SnapshotAge, DefinitionsAge, AfterAge, SnapshotSettled,
        CertifiedPair
  <2> QED
    BY <2>1, BeginMigrationStep, CommitDdlStep, RecordRowStep, CaptureRunnerStops,
       BypassLockStep, AcquireStep, ReadBeforeStep, OpenSnapshotStep,
       ReadDefinitionsStep, ReadAfterStep, CompareLedgersStep, EndCaptureStep
    DEF SourceNext
<1> QED
  BY <1>1, <1>2, PTL DEF SourceSpec

\* "Structure from one database state must never be published with ledger evidence
\* from another": what a capture certifies, the source had, with its own ledger
\* (the header of schema_catalogue_capture), though writers go without the lock.
THEOREM SourceCapturesAreSafe == SourceSpec => []SourceSafe
<1>1. SourceInv => SourceSafe
  BY DEF SourceInv, SourceSafe
<1> QED
  BY <1>1, SourceInvariant, PTL

-----------------------------------------------------------------------------
(***************************************************************************)
(* Shortcuts: one-call edits whose handler stops, answers and is called    *)
(* again with the same key, between other changes of the page.             *)
(***************************************************************************)
\* What an operation asks, an operation, and a change with its operations.
OperationBodies == [revision : 1..MaxPageRevision, text : Texts \cup {None}]
OperationRows == [key : CallKeys \cup {None}, body : OperationBodies]
ChangeStatuses == {"DRAFT", "PUBLISHED", "ABANDONED"}
ChangeRows ==
    [status : ChangeStatuses, title : PagePaths, ops : Seq(OperationRows)]
CallStages == {"create", "operate", "validate", "publish", "identify"}
CallRows ==
    [stage : CallStages, key : CallKeys, body : Bodies, title : PagePaths, revision : {0}]

PageTyped ==
    shortPage \in [path : PagePaths, revision : 1..MaxPageRevision, text : Texts \cup {None}]
ChangesTyped == shortChanges \in [CallKeys -> ChangeRows \cup {None}]
CallsTyped == calls \in [Handlers -> CallRows \cup {NoCall}]
ReplacedTyped ==
    replaced \in [CallKeys -> Seq([ops : Seq(OperationRows), from : 1..MaxPageRevision])]

\* A call that has added its operation finds it in the change.
HoldsOperation(h) ==
    /\ Change(h) # None
    /\ \E i \in DOMAIN Change(h).ops :
        Change(h).ops[i] = [key |-> calls[h].key, body |-> calls[h].body]

\* How far a call has come says what there is of its change.
CallsProgress ==
    \A h \in Handlers :
        /\ calls[h].stage = "operate" => Change(h) # None
        /\ calls[h].stage \in {"validate", "publish", "identify"} => HoldsOperation(h)
        /\ calls[h].stage = "identify" => Change(h).status = "PUBLISHED"

\* A change that is published was published once, with the operations it has, on the
\* revision all of them had read.
PublishedAsReplaced ==
    \A k \in CallKeys :
        IF shortChanges[k] # None /\ shortChanges[k].status = "PUBLISHED"
        THEN /\ Len(replaced[k]) = 1
             /\ replaced[k][1].ops = shortChanges[k].ops
             /\ \A i \in DOMAIN shortChanges[k].ops :
                    shortChanges[k].ops[i].body.revision = replaced[k][1].from
        ELSE replaced[k] = <<>>

ShortInv ==
    /\ PageTyped /\ ChangesTyped /\ CallsTyped /\ ReplacedTyped
    /\ \A s \in succeeded : s.key \in CallKeys
    /\ refusals \subseteq {"PUBLISHED", "ABANDONED", "MOVED", "EDITED", "OTHER_BODY"}
    /\ CallsProgress /\ PublishedAsReplaced /\ SuccessIsPublishedOnce

-----------------------------------------------------------------------------
\* A change is not None, and has its three fields.
LEMMA ChangeFields ==
    ASSUME NEW c \in ChangeRows
    PROVE  /\ c # None
           /\ \E s \in ChangeStatuses, t \in PagePaths, o \in Seq(OperationRows) :
                c = [status |-> s, title |-> t, ops |-> o]
<1>1. OperationRows \subseteq [key : CallKeys \cup {None},
                              body : [revision : Nat, text : Texts \cup {None}]]
  BY RevisionIsBounded DEF OperationRows, OperationBodies
<1>2. c.ops \in Seq([key : CallKeys \cup {None},
                     body : [revision : Nat, text : Texts \cup {None}]])
  <2>1. c.ops \in Seq(OperationRows)
    BY DEF ChangeRows
  <2>2. Len(c.ops) \in Nat /\ c.ops \in [1..Len(c.ops) -> OperationRows]
    BY <2>1
  <2>3. ASSUME NEW T, OperationRows \subseteq T PROVE c.ops \in Seq(T)
    BY <2>2, <2>3
  <2> QED
    BY <1>1, <2>3
<1>3. c \in [status : {"DRAFT", "PUBLISHED", "ABANDONED"}, title : PagePaths,
             ops : Seq([key : CallKeys \cup {None},
                        body : [revision : Nat, text : Texts \cup {None}]])]
  BY <1>2 DEF ChangeRows, ChangeStatuses
<1> QED
  BY <1>3, NoneIsNoChange DEF ChangeRows

\* A call in progress has its fields.
LEMMA CallFields ==
    ASSUME CallsTyped, NEW h \in Handlers, calls[h].stage # "idle"
    PROVE  /\ \E s \in CallStages, k \in CallKeys, b \in Bodies, t \in PagePaths :
                calls[h] = [stage |-> s, key |-> k, body |-> b, title |-> t, revision |-> 0]
           /\ calls[h].key \in CallKeys /\ calls[h].body \in Bodies
           /\ calls[h].title \in PagePaths
BY DEF CallsTyped, CallRows, NoCall

\* What stands in the way of a call is named.
LEMMA ObstacleIsNamed ==
    ASSUME ChangesTyped, CallsTyped, NEW h \in Handlers, calls[h].stage # "idle",
           \/ Change(h) # None /\ Change(h).status # "DRAFT"
           \/ Change(h) # None /\ Change(h).title # calls[h].title
           \/ Change(h) # None /\ \E i \in DOMAIN Change(h).ops :
                Change(h).ops[i].body # calls[h].body
    PROVE  Obstacle(h) \in {"PUBLISHED", "ABANDONED", "MOVED", "EDITED", "OTHER_BODY"}
<1>1. Change(h) # None => Change(h).status \in {"DRAFT", "PUBLISHED", "ABANDONED"}
  BY CallFields DEF ChangesTyped, Change, ChangeRows, ChangeStatuses
<1> QED
  BY <1>1 DEF Obstacle

\* A call that ends or moves on in its stages, with the changes left as they are.
LEMMA CallStep ==
    ASSUME ShortInv, NEW h \in Handlers, CallsTyped',
           \A g \in Handlers \ {h} : calls'[g] = calls[g],
           \/ calls'[h] = NoCall
           \/ calls'[h].stage = "create"
           \/ /\ calls'[h].key = calls[h].key /\ calls'[h].body = calls[h].body
              /\ \/ calls'[h].stage = "operate" /\ Change(h) # None
                 \/ calls'[h].stage \in {"validate", "publish"} /\ HoldsOperation(h)
                 \/ calls'[h].stage = "identify" /\ HoldsOperation(h)
                    /\ Change(h).status = "PUBLISHED",
           UNCHANGED shortChanges
    PROVE  CallsProgress'
<1> SUFFICES ASSUME NEW g \in Handlers
             PROVE  /\ calls'[g].stage = "operate" => Change(g)' # None
                    /\ calls'[g].stage \in {"validate", "publish", "identify"}
                            => HoldsOperation(g)'
                    /\ calls'[g].stage = "identify" => Change(g)'.status = "PUBLISHED"
  BY DEF CallsProgress
<1>1. CASE g # h
  <2>1. calls'[g] = calls[g] /\ shortChanges' = shortChanges
    BY <1>1
  <2>2. Change(g)' = Change(g)
    BY <2>1 DEF Change
  <2>3. HoldsOperation(g)' <=> HoldsOperation(g)
    BY <2>1, <2>2 DEF HoldsOperation
  <2>4. CallsProgress
    BY DEF ShortInv
  <2> QED
    BY <2>1, <2>2, <2>3, <2>4 DEF CallsProgress
<1>2. CASE g = h
  <2>1. CASE calls'[h] = NoCall \/ calls'[h].stage = "create"
    BY <1>2, <2>1 DEF NoCall
  <2>2. CASE calls'[h].key = calls[h].key /\ calls'[h].body = calls[h].body
    <3>1. shortChanges' = shortChanges
      OBVIOUS
    <3>2. Change(h)' = Change(h)
      BY <2>2, <3>1 DEF Change
    <3>3. HoldsOperation(h)' <=> HoldsOperation(h)
      BY <2>2, <3>2 DEF HoldsOperation
    <3> QED
      BY <1>2, <3>2, <3>3 DEF NoCall, HoldsOperation
  <2> QED
    BY <2>1, <2>2
<1> QED
  BY <1>1, <1>2

\* A draft that stays a draft, or is abandoned, and keeps its operations.
LEMMA DraftStep ==
    ASSUME ShortInv, NEW k \in CallKeys, NEW c \in ChangeRows,
           shortChanges' = [shortChanges EXCEPT ![k] = c],
           c.status \in {"DRAFT", "ABANDONED"},
           \/ shortChanges[k] = None
           \/ /\ shortChanges[k] # None /\ shortChanges[k].status = "DRAFT"
              /\ \A i \in DOMAIN shortChanges[k].ops :
                    i \in DOMAIN c.ops /\ c.ops[i] = shortChanges[k].ops[i],
           UNCHANGED replaced
    PROVE  /\ ChangesTyped' /\ PublishedAsReplaced'
           /\ calls' = calls => CallsProgress'
<1>1. c # None
  BY ChangeFields
<1>2. ChangesTyped' /\ shortChanges'[k] = c
      /\ \A j \in CallKeys \ {k} : shortChanges'[j] = shortChanges[j]
  BY DEF ShortInv, ChangesTyped
<1>3. PublishedAsReplaced'
  <2> SUFFICES ASSUME NEW j \in CallKeys
               PROVE  IF shortChanges'[j] # None /\ shortChanges'[j].status = "PUBLISHED"
                      THEN /\ Len(replaced[j]) = 1
                           /\ replaced[j][1].ops = shortChanges'[j].ops
                           /\ \A i \in DOMAIN shortChanges'[j].ops :
                              shortChanges'[j].ops[i].body.revision = replaced[j][1].from
                      ELSE replaced[j] = <<>>
    BY DEF PublishedAsReplaced
  <2>1. CASE j = k
    BY <1>2, <2>1 DEF ShortInv, PublishedAsReplaced
  <2>2. CASE j # k
    BY <1>2, <2>2 DEF ShortInv, PublishedAsReplaced
  <2> QED
    BY <2>1, <2>2
<1>4. ASSUME calls' = calls PROVE CallsProgress'
  <2> SUFFICES ASSUME NEW g \in Handlers
               PROVE  /\ calls[g].stage = "operate" => Change(g)' # None
                      /\ calls[g].stage \in {"validate", "publish", "identify"}
                              => HoldsOperation(g)'
                      /\ calls[g].stage = "identify" => Change(g)'.status = "PUBLISHED"
    BY <1>4 DEF CallsProgress
  <2>1. CASE calls[g].stage \notin {"operate", "validate", "publish", "identify"}
    BY <2>1
  <2>2. CASE calls[g].stage \in {"operate", "validate", "publish", "identify"}
    <3>1. calls[g].key \in CallKeys /\ Change(g)' = shortChanges'[calls[g].key]
          /\ Change(g) = shortChanges[calls[g].key]
      BY <1>4, <2>2, CallFields DEF ShortInv, Change
    <3>2. CASE calls[g].key # k
      BY <1>2, <1>4, <3>1, <3>2 DEF ShortInv, CallsProgress, HoldsOperation
    <3>3. CASE calls[g].key = k
      <4>1. Change(g)' = c
        BY <1>2, <3>1, <3>3
      <4>2. calls[g].stage # "identify"
        BY <3>1, <3>3 DEF ShortInv, CallsProgress, HoldsOperation
      <4>3. calls[g].stage \in {"validate", "publish"} => HoldsOperation(g)'
        BY <1>1, <1>4, <3>1, <3>3, <4>1 DEF ShortInv, CallsProgress, HoldsOperation
      <4> QED
        BY <1>1, <4>1, <4>2, <4>3
    <3> QED
      BY <3>2, <3>3
  <2> QED
    BY <2>1, <2>2
<1> QED
  BY <1>2, <1>3, <1>4

-----------------------------------------------------------------------------
\* Others edit the page, abandon a change or add to it: no call is told less than what
\* became of its change.
LEMMA OthersStep ==
    ASSUME ShortInv,
           EditPage \/ \E k \in CallKeys : AbandonShortcut(k) \/ AddForeignOperation(k)
    PROVE  ShortInv'
<1>1. CASE EditPage
  <2>1. PageTyped' /\ UNCHANGED <<shortChanges, calls, replaced, succeeded, refusals>>
    <3>1. PICK p \in PagePaths :
             shortPage' = [path |-> p, revision |-> shortPage.revision + 1, text |-> None]
      BY <1>1 DEF EditPage
    <3>2. shortPage.revision + 1 \in 1..MaxPageRevision
      BY <1>1, RevisionIsBounded DEF EditPage, ShortInv, PageTyped
    <3> QED
      BY <1>1, <3>1, <3>2 DEF EditPage, PageTyped
  <2>2. ChangesTyped' /\ CallsTyped' /\ ReplacedTyped'
    BY <2>1 DEF ShortInv, ChangesTyped, CallsTyped, ReplacedTyped
  <2>3. CallsProgress' /\ PublishedAsReplaced' /\ SuccessIsPublishedOnce'
    BY <2>1
    DEF ShortInv, CallsProgress, HoldsOperation, Change, PublishedAsReplaced,
        SuccessIsPublishedOnce
  <2> QED
    BY <2>1, <2>2, <2>3 DEF ShortInv
<1>2. ASSUME NEW k \in CallKeys, AbandonShortcut(k) PROVE ShortInv'
  <2>1. shortChanges[k] # None /\ shortChanges[k].status = "DRAFT"
        /\ shortChanges[k] \in ChangeRows
    BY <1>2 DEF AbandonShortcut, ShortInv, ChangesTyped
  <2>2. PICK o \in Seq(OperationRows), t \in PagePaths :
           shortChanges[k] = [status |-> "DRAFT", title |-> t, ops |-> o]
    BY <2>1 DEF ChangeRows
  <2> DEFINE c == [status |-> "ABANDONED", title |-> t, ops |-> o]
  <2>3. c \in ChangeRows /\ c.status = "ABANDONED" /\ c.ops = shortChanges[k].ops
    BY <2>2 DEF ChangeRows, ChangeStatuses
  <2>4. shortChanges' = [shortChanges EXCEPT ![k] = c]
    <3>1. [shortChanges[k] EXCEPT !.status = "ABANDONED"] = c
      BY <2>2
    <3> HIDE DEF c
    <3> QED
      BY <1>2, <3>1 DEF AbandonShortcut
  <2>5. UNCHANGED <<shortPage, calls, replaced, succeeded, refusals>>
    BY <1>2 DEF AbandonShortcut
  <2> HIDE DEF c
  <2>6. ChangesTyped' /\ PublishedAsReplaced' /\ CallsProgress'
    BY <2>1, <2>3, <2>4, <2>5, DraftStep
  <2> QED
    BY <2>5, <2>6 DEF ShortInv, PageTyped, CallsTyped, ReplacedTyped, SuccessIsPublishedOnce
<1>3. ASSUME NEW k \in CallKeys, AddForeignOperation(k) PROVE ShortInv'
  <2>1. shortChanges[k] # None /\ shortChanges[k].status = "DRAFT"
        /\ shortChanges[k] \in ChangeRows
    BY <1>3 DEF AddForeignOperation, ShortInv, ChangesTyped
  <2>2. PICK o \in Seq(OperationRows), t \in PagePaths :
           shortChanges[k] = [status |-> "DRAFT", title |-> t, ops |-> o]
    BY <2>1 DEF ChangeRows
  <2> DEFINE op == [key |-> None, body |-> [revision |-> shortPage.revision, text |-> None]]
  <2>3. op \in OperationRows
    BY DEF ShortInv, PageTyped, OperationRows, OperationBodies
  <2> DEFINE c == [status |-> "DRAFT", title |-> t, ops |-> Append(o, op)]
  <2>4. shortChanges' = [shortChanges EXCEPT ![k] = c]
    <3>1. shortChanges' = [shortChanges EXCEPT ![k].ops = Append(@, op)]
      BY <1>3 DEF AddForeignOperation
    <3> HIDE DEF op
    <3>2. [shortChanges[k] EXCEPT !.ops = Append(@, op)] = c
      <4>1. PICK q : q = Append(o, op)
        OBVIOUS
      <4>2. Append(shortChanges[k].ops, op) = q
        BY <2>2, <4>1
      <4>3. [shortChanges[k] EXCEPT !.ops = q] = [status |-> "DRAFT", title |-> t, ops |-> q]
        BY <2>2
      <4> QED
        BY <4>1, <4>2, <4>3
    <3> HIDE DEF c
    <3> QED
      BY <3>1, <3>2
  <2>5. UNCHANGED <<shortPage, calls, replaced, succeeded, refusals>>
    BY <1>3 DEF AddForeignOperation
  <2> HIDE DEF op
  <2>6. Append(o, op) \in Seq(OperationRows)
        /\ \A i \in DOMAIN o : i \in DOMAIN Append(o, op) /\ Append(o, op)[i] = o[i]
    BY <2>3
  <2>7. c \in ChangeRows /\ c.status = "DRAFT"
        /\ \A i \in DOMAIN shortChanges[k].ops :
              i \in DOMAIN c.ops /\ c.ops[i] = shortChanges[k].ops[i]
    <3>1. shortChanges[k].ops = o
      BY <2>2
    <3> QED
      BY <2>6, <3>1 DEF ChangeRows, ChangeStatuses
  <2> HIDE DEF c
  <2>8. ChangesTyped' /\ PublishedAsReplaced' /\ CallsProgress'
    BY <2>1, <2>4, <2>5, <2>7, DraftStep
  <2> QED
    BY <2>5, <2>8 DEF ShortInv, PageTyped, CallsTyped, ReplacedTyped, SuccessIsPublishedOnce
<1> QED
  BY <1>1, <1>2, <1>3

\* A call begins, stops or is refused, and the tables stay as they are.
LEMMA TablesKeptStep ==
    ASSUME ShortInv, NEW h \in Handlers, NEW s \in CallRows \cup {NoCall},
           s = NoCall \/ s.stage = "create",
           calls' = [calls EXCEPT ![h] = s],
           UNCHANGED <<shortPage, shortChanges, replaced, succeeded>>,
           refusals' \subseteq refusals \cup {"PUBLISHED", "ABANDONED", "MOVED", "EDITED",
                                             "OTHER_BODY"}
    PROVE  ShortInv'
<1>1. CallsTyped' /\ calls'[h] = s /\ \A g \in Handlers \ {h} : calls'[g] = calls[g]
  BY DEF ShortInv, CallsTyped
<1>2. CallsProgress'
  BY <1>1, CallStep
<1> QED
  BY <1>1, <1>2, ZenonT(60)
  DEF ShortInv, PageTyped, ChangesTyped, ReplacedTyped, PublishedAsReplaced,
      SuccessIsPublishedOnce

\* A call that reaches its next stage leaves the rest of its record.
LEMMA Reaches ==
    ASSUME CallsTyped, NEW h \in Handlers, calls[h].stage # "idle",
           NEW stage \in CallStages, Reach(h, stage)
    PROVE  /\ CallsTyped' /\ calls'[h].stage = stage
           /\ calls'[h].key = calls[h].key /\ calls'[h].body = calls[h].body
           /\ \A g \in Handlers \ {h} : calls'[g] = calls[g]
<1>1. PICK s \in CallStages, k \in CallKeys, b \in Bodies, t \in PagePaths :
          calls[h] = [stage |-> s, key |-> k, body |-> b, title |-> t, revision |-> 0]
  BY CallFields
<1>2. calls' = [calls EXCEPT ![h] =
                   [stage |-> stage, key |-> k, body |-> b, title |-> t, revision |-> 0]]
  <2>1. [calls[h] EXCEPT !.stage = stage] =
            [stage |-> stage, key |-> k, body |-> b, title |-> t, revision |-> 0]
    BY <1>1
  <2> QED
    BY <2>1 DEF Reach
<1>3. [stage |-> stage, key |-> k, body |-> b, title |-> t, revision |-> 0] \in CallRows
  BY DEF CallRows
<1> QED
  BY <1>1, <1>2, <1>3 DEF CallsTyped

\* A refusal has its reason.
LEMMA RefuseStep ==
    ASSUME ShortInv, NEW h \in Handlers, calls[h].stage # "idle", Refuse(h),
           UNCHANGED <<shortPage, shortChanges, replaced, succeeded>>,
           \/ Change(h) # None /\ Change(h).status # "DRAFT"
           \/ Change(h) # None /\ Change(h).title # calls[h].title
           \/ Change(h) # None /\ \E i \in DOMAIN Change(h).ops :
                Change(h).ops[i].body # calls[h].body
    PROVE  ShortInv'
<1>1. Obstacle(h) \in {"PUBLISHED", "ABANDONED", "MOVED", "EDITED", "OTHER_BODY"}
  BY ObstacleIsNamed DEF ShortInv
<1> QED
  BY <1>1, TablesKeptStep DEF Refuse

\* A call that goes on with the change as it is.
LEMMA GoOnStep ==
    ASSUME ShortInv, NEW h \in Handlers, calls[h].stage # "idle",
           NEW stage \in CallStages, Reach(h, stage),
           \/ stage = "operate" /\ Change(h) # None
           \/ stage \in {"validate", "publish"} /\ HoldsOperation(h)
           \/ stage = "identify" /\ HoldsOperation(h) /\ Change(h).status = "PUBLISHED",
           UNCHANGED <<shortPage, shortChanges, replaced, succeeded, refusals>>
    PROVE  ShortInv'
<1>1. /\ CallsTyped' /\ calls'[h].stage = stage
      /\ calls'[h].key = calls[h].key /\ calls'[h].body = calls[h].body
      /\ \A g \in Handlers \ {h} : calls'[g] = calls[g]
  BY Reaches DEF ShortInv
<1>2. CallsProgress'
  BY <1>1, CallStep
<1> QED
  BY <1>1, <1>2, ZenonT(60)
  DEF ShortInv, PageTyped, ChangesTyped, ReplacedTyped, PublishedAsReplaced,
      SuccessIsPublishedOnce

\* create_change: a new change, the draft of an earlier delivery, or the replay.
LEMMA CreateStep ==
    ASSUME ShortInv, NEW h \in Handlers, CreateShortcutChange(h)
    PROVE  ShortInv'
<1> DEFINE k == calls[h].key
<1>1. /\ calls[h].stage = "create" /\ k \in CallKeys /\ Change(h) = shortChanges[k]
      /\ UNCHANGED <<shortPage, replaced, succeeded>>
      /\ calls[h].title \in PagePaths /\ calls[h].body \in Bodies
  BY CallFields DEF CreateShortcutChange, ShortInv, Change
<1>2. CASE Change(h) = None
  <2> DEFINE c == [status |-> "DRAFT", title |-> calls[h].title, ops |-> <<>>]
  <2>1. shortChanges' = [shortChanges EXCEPT ![k] = c] /\ Reach(h, "operate")
        /\ UNCHANGED refusals
    BY <1>2 DEF CreateShortcutChange
  <2>2. c \in ChangeRows /\ c.status = "DRAFT"
    <3>1. <<>> \in Seq(OperationRows)
      OBVIOUS
    <3> QED
      BY <1>1, <3>1 DEF ChangeRows, ChangeStatuses
  <2> HIDE DEF c
  <2>3. ChangesTyped' /\ PublishedAsReplaced'
    BY <1>1, <1>2, <2>1, <2>2, DraftStep
  <2>4. /\ CallsTyped' /\ calls'[h].stage = "operate"
        /\ calls'[h].key = k /\ \A g \in Handlers \ {h} : calls'[g] = calls[g]
    BY <1>1, <2>1, Reaches DEF ShortInv, CallStages
  <2>5. CallsProgress'
    <3> SUFFICES ASSUME NEW g \in Handlers
                 PROVE  /\ calls'[g].stage = "operate" => Change(g)' # None
                        /\ calls'[g].stage \in {"validate", "publish", "identify"}
                                => HoldsOperation(g)'
                        /\ calls'[g].stage = "identify" => Change(g)'.status = "PUBLISHED"
      BY DEF CallsProgress
    <3>1. CASE g = h
      <4>1. Change(g)' = c
        BY <1>1, <2>1, <2>4, <3>1 DEF Change, ShortInv, ChangesTyped
      <4> QED
        BY <2>2, <2>4, <3>1, <4>1, ChangeFields
    <3>2. CASE g # h /\ calls[g].stage \in {"operate", "validate", "publish", "identify"}
      <4>1. Change(g) # None /\ calls[g].key \in CallKeys
        BY <3>2, CallFields DEF ShortInv, CallsProgress, HoldsOperation
      <4>2. calls[g].key # k
        BY <1>1, <1>2, <4>1 DEF Change
      <4>3. Change(g)' = Change(g) /\ calls'[g] = calls[g]
        BY <1>1, <2>1, <2>4, <3>2, <4>1, <4>2 DEF Change, ShortInv, ChangesTyped
      <4> QED
        BY <4>3 DEF ShortInv, CallsProgress, HoldsOperation
    <3>3. CASE g # h /\ calls[g].stage \notin {"operate", "validate", "publish", "identify"}
      BY <2>4, <3>3
    <3> QED
      BY <3>1, <3>2, <3>3
  <2>6. PageTyped' /\ ReplacedTyped' /\ SuccessIsPublishedOnce'
    <3>1. UNCHANGED <<shortPage, replaced, succeeded>>
      BY <1>1
    <3>2. PageTyped' /\ ReplacedTyped'
      BY <3>1 DEF ShortInv, PageTyped, ReplacedTyped
    <3>3. SuccessIsPublishedOnce'
      BY <3>1 DEF ShortInv, SuccessIsPublishedOnce
    <3> QED
      BY <3>2, <3>3
  <2> QED
    BY <1>1, <2>1, <2>3, <2>4, <2>5, <2>6 DEF ShortInv
<1>3. CASE Change(h) # None
  <2>1. shortChanges' = shortChanges
    BY <1>3 DEF CreateShortcutChange
  <2>2. CASE Change(h).title = calls[h].title /\ Change(h).status = "DRAFT"
    <3>1. Reach(h, "operate") /\ UNCHANGED refusals
      BY <1>3, <2>2 DEF CreateShortcutChange
    <3> QED
      BY <1>1, <1>3, <2>1, <3>1, GoOnStep DEF CallStages
  <2>3. CASE Change(h).title = calls[h].title /\ Change(h).status = "PUBLISHED" /\ Replays(h)
    <3>1. Reach(h, "identify") /\ UNCHANGED refusals
      BY <1>3, <2>3 DEF CreateShortcutChange
    <3>2. HoldsOperation(h)
      BY <1>3, <2>3 DEF HoldsOperation, Replays, OnlyOperation
    <3> QED
      BY <1>1, <2>1, <2>3, <3>1, <3>2, GoOnStep DEF CallStages
  <2>4. CASE /\ ~(Change(h).title = calls[h].title /\ Change(h).status = "DRAFT")
             /\ ~(Change(h).title = calls[h].title /\ Change(h).status = "PUBLISHED"
                  /\ Replays(h))
    <3>1. Refuse(h)
      BY <1>3, <2>4 DEF CreateShortcutChange
    <3> QED
      BY <1>1, <1>3, <2>1, <2>4, <3>1, RefuseStep
  <2> QED
    BY <2>2, <2>3, <2>4
<1> QED
  BY <1>2, <1>3

\* add_operation and validate_change.
LEMMA OperateStep ==
    ASSUME ShortInv, NEW h \in Handlers, AddShortcutOperation(h) \/ ValidateShortcut(h)
    PROVE  ShortInv'
<1> DEFINE k == calls[h].key
<1>1. /\ calls[h].stage \in {"operate", "validate"}
      /\ UNCHANGED <<shortPage, replaced, succeeded>>
      /\ Change(h) # None
  BY DEF AddShortcutOperation, ValidateShortcut, ShortInv, CallsProgress, HoldsOperation
<1>2. /\ k \in CallKeys /\ Change(h) = shortChanges[k] /\ Change(h) \in ChangeRows
      /\ calls[h].body \in Bodies /\ calls[h].stage # "idle"
  BY <1>1, CallFields DEF ShortInv, Change, ChangesTyped
<1>3. CASE AddShortcutOperation(h) /\ (Change(h).status # "DRAFT" \/ Conflicts(h))
  <2>1. Refuse(h) /\ UNCHANGED shortChanges
    BY <1>3 DEF AddShortcutOperation
  <2>2. Conflicts(h) => \E i \in DOMAIN Change(h).ops : Change(h).ops[i].body # calls[h].body
    BY DEF Conflicts, OperationsUnderKey
  <2> QED
    BY <1>1, <1>2, <1>3, <2>1, <2>2, RefuseStep
<1>4. CASE AddShortcutOperation(h) /\ Change(h).status = "DRAFT" /\ ~Conflicts(h)
  <2>1. /\ shortChanges' = IF OperationsUnderKey(h) # {} THEN shortChanges
               ELSE [shortChanges EXCEPT ![k].ops = @ \o OnlyOperation(h)]
        /\ Reach(h, "validate") /\ UNCHANGED refusals
    BY <1>4 DEF AddShortcutOperation
  <2>2. CASE OperationsUnderKey(h) # {}
    <3>1. PICK i \in OperationsUnderKey(h) : Change(h).ops[i].body = calls[h].body
      BY <1>4, <2>2 DEF Conflicts
    <3>2. i \in DOMAIN Change(h).ops /\ Change(h).ops[i].key = k
          /\ Change(h).ops[i] \in OperationRows
      <4>1. Change(h).ops \in Seq(OperationRows)
        BY <1>2 DEF ChangeRows
      <4> HIDE DEF OperationRows
      <4> QED
        BY <3>1, <4>1 DEF OperationsUnderKey
    <3>3. Change(h).ops[i] = [key |-> k, body |-> calls[h].body]
      BY <3>1, <3>2 DEF OperationRows
    <3>4. HoldsOperation(h)
      BY <1>1, <3>2, <3>3 DEF HoldsOperation
    <3> QED
      BY <1>1, <1>2, <2>1, <2>2, <3>4, GoOnStep DEF CallStages
  <2>3. CASE OperationsUnderKey(h) = {}
    <3>1. PICK o \in Seq(OperationRows), t \in PagePaths :
             shortChanges[k] = [status |-> "DRAFT", title |-> t, ops |-> o]
      BY <1>2, <1>4 DEF ChangeRows
    <3> DEFINE op == [key |-> k, body |-> calls[h].body]
    <3>2. op \in OperationRows
      BY <1>2 DEF OperationRows, OperationBodies, Bodies
    <3>3. PICK q : q = Append(o, op)
      OBVIOUS
    <3>4. /\ q \in Seq(OperationRows) /\ q = o \o OnlyOperation(h)
          /\ Len(o) + 1 \in DOMAIN q /\ q[Len(o) + 1] = op
          /\ \A i \in DOMAIN o : i \in DOMAIN q /\ q[i] = o[i]
      <4>1. OnlyOperation(h) = <<op>>
        BY DEF OnlyOperation
      <4> HIDE DEF op, OperationRows
      <4> QED
        BY <3>1, <3>2, <3>3, <4>1
    <3> DEFINE c == [status |-> "DRAFT", title |-> t, ops |-> q]
    <3>5. c \in ChangeRows /\ c.status = "DRAFT" /\ c.ops = q
      BY <3>4 DEF ChangeRows, ChangeStatuses
    <3>6. shortChanges' = [shortChanges EXCEPT ![k] = c]
      <4>1. shortChanges[k].ops \o OnlyOperation(h) = q
        BY <3>1, <3>4
      <4>2. [shortChanges[k] EXCEPT !.ops = q] = c
        BY <3>1
      <4>3. shortChanges' = [shortChanges EXCEPT ![k].ops = @ \o OnlyOperation(h)]
        BY <2>1, <2>3
      <4> HIDE DEF c, k
      <4> QED
        BY <4>1, <4>2, <4>3
    <3> HIDE DEF c, op
    <3>7. \A i \in DOMAIN shortChanges[k].ops :
              i \in DOMAIN c.ops /\ c.ops[i] = shortChanges[k].ops[i]
      BY <3>1, <3>4, <3>5
    <3>8. shortChanges[k] # None /\ shortChanges[k].status = "DRAFT"
      BY <1>1, <1>2, <1>4
    <3>9. ChangesTyped' /\ PublishedAsReplaced'
      BY <1>1, <1>2, <3>5, <3>6, <3>7, <3>8, DraftStep
    <3>10. /\ CallsTyped' /\ calls'[h].stage = "validate"
           /\ calls'[h].key = k /\ calls'[h].body = calls[h].body
           /\ \A g \in Handlers \ {h} : calls'[g] = calls[g]
      BY <1>2, <2>1, Reaches DEF ShortInv, CallStages
    <3>11. CallsProgress'
      <4> SUFFICES ASSUME NEW g \in Handlers
                   PROVE  /\ calls'[g].stage = "operate" => Change(g)' # None
                          /\ calls'[g].stage \in {"validate", "publish", "identify"}
                                  => HoldsOperation(g)'
                          /\ calls'[g].stage = "identify" => Change(g)'.status = "PUBLISHED"
        BY DEF CallsProgress
      <4>1. shortChanges'[k] = c /\ c # None
            /\ \A j \in CallKeys \ {k} : shortChanges'[j] = shortChanges[j]
        BY <1>2, <3>5, <3>6, ChangeFields DEF ShortInv, ChangesTyped
      <4>2. CASE g = h
        <5>1. Change(g)' = c
          BY <3>10, <4>1, <4>2 DEF Change
        <5>2. c.ops[Len(o) + 1] = [key |-> k, body |-> calls[h].body]
              /\ Len(o) + 1 \in DOMAIN c.ops
          BY <3>4, <3>5 DEF op
        <5>3. HoldsOperation(g)'
          BY <3>10, <4>1, <4>2, <5>1, <5>2 DEF HoldsOperation
        <5> QED
          BY <3>10, <4>2, <5>3
      <4>3. CASE g # h /\ calls[g].stage \in {"operate", "validate", "publish", "identify"}
        <5>1. /\ calls[g].key \in CallKeys /\ calls'[g] = calls[g]
              /\ Change(g) = shortChanges[calls[g].key]
              /\ Change(g)' = shortChanges'[calls[g].key]
          BY <3>10, <4>3, CallFields DEF ShortInv, Change
        <5>2. CASE calls[g].key # k
          <6>1. Change(g)' = Change(g)
            BY <4>1, <5>1, <5>2
          <6> QED
            BY <5>1, <6>1 DEF ShortInv, CallsProgress, HoldsOperation
        <5>3. CASE calls[g].key = k
          <6>1. Change(g)' = c /\ Change(g) = shortChanges[k]
            BY <4>1, <5>1, <5>3
          <6>2. calls[g].stage # "identify"
            BY <3>8, <6>1 DEF ShortInv, CallsProgress, HoldsOperation
          <6>3. calls[g].stage \in {"validate", "publish"} => HoldsOperation(g)'
            BY <3>7, <4>1, <5>1, <6>1 DEF ShortInv, CallsProgress, HoldsOperation
          <6> QED
            BY <4>1, <5>1, <6>1, <6>2, <6>3
        <5> QED
          BY <5>2, <5>3
      <4>4. CASE g # h /\ calls[g].stage \notin {"operate", "validate", "publish", "identify"}
        BY <3>10, <4>4
      <4> QED
        BY <4>2, <4>3, <4>4
    <3>12. PageTyped' /\ ReplacedTyped' /\ SuccessIsPublishedOnce'
      <4>1. UNCHANGED <<shortPage, replaced, succeeded>>
        BY <1>1
      <4>2. PageTyped' /\ ReplacedTyped'
        BY <4>1 DEF ShortInv, PageTyped, ReplacedTyped
      <4>3. SuccessIsPublishedOnce'
        BY <4>1 DEF ShortInv, SuccessIsPublishedOnce
      <4> QED
        BY <4>2, <4>3
    <3> QED
      BY <1>1, <2>1, <3>9, <3>10, <3>11, <3>12 DEF ShortInv
  <2> QED
    BY <2>2, <2>3
<1>5. CASE ValidateShortcut(h)
  <2>1. shortChanges' = shortChanges /\ calls[h].stage = "validate"
    BY <1>5 DEF ValidateShortcut
  <2>2. CASE Change(h).status = "DRAFT"
    <3>1. Reach(h, "publish") /\ UNCHANGED refusals
      BY <1>5, <2>2 DEF ValidateShortcut
    <3>2. HoldsOperation(h)
      BY <2>1 DEF ShortInv, CallsProgress
    <3> QED
      BY <1>1, <2>1, <3>1, <3>2, GoOnStep DEF CallStages
  <2>3. CASE Change(h).status # "DRAFT"
    <3>1. Refuse(h)
      BY <1>5, <2>3 DEF ValidateShortcut
    <3> QED
      BY <1>1, <2>1, <2>3, <3>1, RefuseStep
  <2> QED
    BY <2>2, <2>3
<1> QED
  BY <1>3, <1>4, <1>5

\* publish_change makes the draft's one publication, or finds it made.
LEMMA PublishStep ==
    ASSUME ShortInv, NEW h \in Handlers, PublishShortcut(h)
    PROVE  ShortInv'
<1> DEFINE k == calls[h].key
           ops == Change(h).ops
           entry == [ops |-> ops, from |-> shortPage.revision]
<1>1. /\ calls[h].stage = "publish" /\ UNCHANGED succeeded /\ HoldsOperation(h)
      /\ Change(h) # None
  BY DEF PublishShortcut, ShortInv, CallsProgress, HoldsOperation
<1>2. /\ k \in CallKeys /\ Change(h) = shortChanges[k] /\ Change(h) \in ChangeRows
      /\ calls[h].body \in Bodies /\ calls[h].stage # "idle"
  BY <1>1, CallFields DEF ShortInv, Change, ChangesTyped
<1>3. CASE /\ Change(h).status = "DRAFT" /\ Evaluates(h)
           /\ shortPage.revision < MaxPageRevision
           /\ shortPage' = [shortPage EXCEPT !.revision = @ + 1,
                                             !.text = ops[Len(ops)].body.text]
           /\ shortChanges' = [shortChanges EXCEPT ![k].status = "PUBLISHED"]
           /\ replaced' = [replaced EXCEPT ![k] = Append(@, entry)]
           /\ Reach(h, "identify") /\ UNCHANGED refusals
  <2>1. PICK o \in Seq(OperationRows), t \in PagePaths :
           shortChanges[k] = [status |-> "DRAFT", title |-> t, ops |-> o]
    BY <1>2, <1>3 DEF ChangeRows
  <2> DEFINE c == [status |-> "PUBLISHED", title |-> t, ops |-> o]
  <2>2. ops = o /\ c \in ChangeRows /\ c.status = "PUBLISHED" /\ c.ops = o
    BY <1>2, <2>1 DEF ChangeRows, ChangeStatuses
  <2>3. shortChanges' = [shortChanges EXCEPT ![k] = c]
    <3>1. [shortChanges[k] EXCEPT !.status = "PUBLISHED"] = c
      BY <2>1
    <3> HIDE DEF c
    <3> QED
      BY <1>3, <3>1
  <2> HIDE DEF c
  <2>4. ChangesTyped' /\ shortChanges'[k] = c /\ c # None
        /\ \A j \in CallKeys \ {k} : shortChanges'[j] = shortChanges[j]
    BY <1>2, <2>2, <2>3, ChangeFields DEF ShortInv, ChangesTyped
  <2>5. PageTyped'
    <3>1. PICK p \in PagePaths, r \in 1..MaxPageRevision :
             shortPage = [path |-> p, revision |-> r, text |-> shortPage.text]
      BY DEF ShortInv, PageTyped
    <3>2. Len(o) \in DOMAIN o /\ o[Len(o)] \in OperationRows
      <4>1. DOMAIN o # {}
        BY <1>1, <2>2 DEF HoldsOperation
      <4> HIDE DEF OperationRows
      <4> QED
        BY <2>1, <4>1
    <3>3. PICK y \in Texts \cup {None} : y = ops[Len(ops)].body.text
      BY <2>2, <3>2 DEF OperationRows, OperationBodies
    <3>4. shortPage' = [path |-> p, revision |-> r + 1, text |-> y]
      <4>1. shortPage' = [shortPage EXCEPT !.revision = @ + 1, !.text = y]
        BY <1>3, <3>3
      <4>2. PICK q : q = [shortPage EXCEPT !.revision = @ + 1]
        OBVIOUS
      <4>3. q = [path |-> p, revision |-> r + 1, text |-> shortPage.text]
        BY <3>1, <4>2
      <4>4. [q EXCEPT !.text = y] = [path |-> p, revision |-> r + 1, text |-> y]
        BY <4>3
      <4> QED
        BY <4>1, <4>2, <4>4
    <3>5. r + 1 \in 1..MaxPageRevision
      BY <1>3, <3>1, RevisionIsBounded
    <3> QED
      BY <3>4, <3>5 DEF PageTyped
  <2>6. replaced[k] = <<>>
    BY <1>1, <1>2, <1>3 DEF ShortInv, PublishedAsReplaced
  <2>7. /\ replaced'[k] = <<entry>>
        /\ \A j \in CallKeys \ {k} : replaced'[j] = replaced[j]
        /\ ReplacedTyped'
    <3>1. entry \in [ops : Seq(OperationRows), from : 1..MaxPageRevision]
      BY <2>2 DEF ShortInv, PageTyped
    <3>2. Append(replaced[k], entry) = <<entry>>
      BY <2>6
    <3>3. replaced' = [replaced EXCEPT ![k] = <<entry>>]
      <4> HIDE DEF entry, k
      <4> QED
        BY <1>3, <3>2
    <3>4. <<entry>> \in Seq([ops : Seq(OperationRows), from : 1..MaxPageRevision])
      <4> HIDE DEF entry
      <4> QED
        BY <3>1
    <3> HIDE DEF entry
    <3> QED
      BY <1>2, <3>3, <3>4 DEF ShortInv, ReplacedTyped
  <2>8. PublishedAsReplaced'
    <3> SUFFICES ASSUME NEW j \in CallKeys
                 PROVE  IF shortChanges'[j] # None /\ shortChanges'[j].status = "PUBLISHED"
                        THEN /\ Len(replaced'[j]) = 1
                             /\ replaced'[j][1].ops = shortChanges'[j].ops
                             /\ \A i \in DOMAIN shortChanges'[j].ops :
                                shortChanges'[j].ops[i].body.revision = replaced'[j][1].from
                        ELSE replaced'[j] = <<>>
      BY DEF PublishedAsReplaced
    <3>1. CASE j # k
      BY <2>4, <2>7, <3>1 DEF ShortInv, PublishedAsReplaced
    <3>2. CASE j = k
      <4>1. Len(replaced'[j]) = 1 /\ replaced'[j][1] = entry
        <5>1. replaced'[j] = <<entry>>
          BY <2>7, <3>2
        <5> HIDE DEF entry
        <5> QED
          BY <5>1
      <4>2. entry.ops = o /\ entry.from = shortPage.revision
        BY <2>2
      <4>3. \A i \in DOMAIN o : o[i].body.revision = shortPage.revision
        BY <1>3, <2>2 DEF Evaluates
      <4> QED
        BY <2>2, <2>4, <3>2, <4>1, <4>2, <4>3
    <3> QED
      BY <3>1, <3>2
  <2>9. SuccessIsPublishedOnce'
    <3> SUFFICES ASSUME NEW s \in succeeded
                 PROVE  /\ Len(replaced'[s.key]) = 1
                        /\ replaced'[s.key][1].from = s.body.revision
                        /\ \E i \in DOMAIN replaced'[s.key][1].ops :
                             replaced'[s.key][1].ops[i] = [key |-> s.key, body |-> s.body]
      BY <1>1 DEF SuccessIsPublishedOnce
    <3>1. Len(replaced[s.key]) = 1 /\ s.key \in CallKeys
      BY DEF ShortInv, SuccessIsPublishedOnce
    <3>2. s.key # k
      BY <2>6, <3>1
    <3>3. replaced'[s.key] = replaced[s.key]
      BY <2>7, <3>1, <3>2
    <3> QED
      BY <3>3 DEF ShortInv, SuccessIsPublishedOnce
  <2>10. /\ CallsTyped' /\ calls'[h].stage = "identify"
         /\ calls'[h].key = k /\ calls'[h].body = calls[h].body
         /\ \A g \in Handlers \ {h} : calls'[g] = calls[g]
    BY <1>2, <1>3, Reaches DEF ShortInv, CallStages
  <2>11. CallsProgress'
    <3> SUFFICES ASSUME NEW g \in Handlers
                 PROVE  /\ calls'[g].stage = "operate" => Change(g)' # None
                        /\ calls'[g].stage \in {"validate", "publish", "identify"}
                                => HoldsOperation(g)'
                        /\ calls'[g].stage = "identify" => Change(g)'.status = "PUBLISHED"
      BY DEF CallsProgress
    <3>1. CASE g = h
      <4>1. Change(g)' = c
        BY <2>4, <2>10, <3>1 DEF Change
      <4>2. HoldsOperation(g)'
        BY <1>1, <2>2, <2>4, <2>10, <3>1, <4>1 DEF HoldsOperation
      <4> QED
        BY <2>2, <2>10, <3>1, <4>1, <4>2
    <3>2. CASE g # h /\ calls[g].stage \in {"operate", "validate", "publish", "identify"}
      <4>1. /\ calls[g].key \in CallKeys /\ calls'[g] = calls[g]
            /\ Change(g) = shortChanges[calls[g].key]
            /\ Change(g)' = shortChanges'[calls[g].key]
        BY <2>10, <3>2, CallFields DEF ShortInv, Change
      <4>2. CASE calls[g].key # k
        <5>1. Change(g)' = Change(g)
          BY <2>4, <4>1, <4>2
        <5> QED
          BY <4>1, <5>1 DEF ShortInv, CallsProgress, HoldsOperation
      <4>3. CASE calls[g].key = k
        <5>1. Change(g)' = c /\ Change(g).ops = o
          BY <2>1, <2>4, <4>1, <4>3
        <5>2. calls[g].stage \in {"validate", "publish", "identify"} => HoldsOperation(g)'
          BY <2>2, <2>4, <4>1, <5>1 DEF ShortInv, CallsProgress, HoldsOperation
        <5> QED
          BY <2>2, <2>4, <4>1, <5>1, <5>2
      <4> QED
        BY <4>2, <4>3
    <3>3. CASE g # h /\ calls[g].stage \notin {"operate", "validate", "publish", "identify"}
      BY <2>10, <3>3
    <3> QED
      BY <3>1, <3>2, <3>3
  <2> QED
    BY <1>1, <1>3, <2>4, <2>5, <2>7, <2>8, <2>9, <2>10, <2>11 DEF ShortInv
<1>4. CASE /\ Change(h).status = "PUBLISHED" /\ Reach(h, "identify")
           /\ UNCHANGED <<shortPage, shortChanges, replaced, refusals>>
  BY <1>1, <1>2, <1>4, GoOnStep DEF CallStages
<1>5. CASE /\ Change(h).status = "ABANDONED" \/ (Change(h).status = "DRAFT" /\ ~Evaluates(h))
           /\ Refuse(h)
           /\ UNCHANGED <<shortPage, shortChanges, replaced>>
  <2>1. CASE Change(h).status = "ABANDONED"
    BY <1>1, <1>2, <1>5, <2>1, RefuseStep
  <2>2. CASE Change(h).status = "DRAFT" /\ ~Evaluates(h)
    <3>1. PICK i \in DOMAIN ops : ops[i].body.revision # shortPage.revision
      BY <2>2 DEF Evaluates
    <3>2. PICK n \in DOMAIN ops : ops[n] = [key |-> k, body |-> calls[h].body]
      BY <1>1 DEF HoldsOperation
    <3>3. CASE calls[h].body.revision = shortPage.revision
      <4>1. ops[i].body # calls[h].body
        BY <3>1, <3>3
      <4> QED
        BY <1>1, <1>2, <1>5, <4>1, RefuseStep
    <3>4. CASE calls[h].body.revision # shortPage.revision
      <4>1. Obstacle(h) \in {"PUBLISHED", "ABANDONED", "MOVED", "EDITED"}
        BY <2>2, <3>4 DEF Obstacle
      <4> QED
        BY <1>1, <1>5, <4>1, TablesKeptStep DEF Refuse
    <3> QED
      BY <3>3, <3>4
  <2> QED
    BY <1>5, <2>1, <2>2
<1> QED
  BY <1>3, <1>4, <1>5 DEF PublishShortcut

\* A call that answers was published once, by itself or another delivery of its key.
LEMMA CallAnswerStep ==
    ASSUME ShortInv, NEW h \in Handlers, AnswerShortcut(h)
    PROVE  ShortInv'
<1> DEFINE k == calls[h].key
           answer == [key |-> k, body |-> calls[h].body, revision |-> shortPage.revision]
<1>1. /\ calls[h].stage = "identify" /\ HoldsOperation(h)
      /\ Change(h) # None /\ Change(h).status = "PUBLISHED"
      /\ calls' = [calls EXCEPT ![h] = NoCall]
      /\ succeeded' = succeeded \cup {answer}
      /\ UNCHANGED <<shortPage, shortChanges, replaced, refusals>>
  BY DEF AnswerShortcut, ShortInv, CallsProgress, HoldsOperation
<1>2. k \in CallKeys /\ Change(h) = shortChanges[k]
  BY <1>1, CallFields DEF ShortInv, Change
<1>3. /\ Len(replaced[k]) = 1 /\ replaced[k][1].ops = Change(h).ops
      /\ \A i \in DOMAIN Change(h).ops :
            Change(h).ops[i].body.revision = replaced[k][1].from
  BY <1>1, <1>2 DEF ShortInv, PublishedAsReplaced
<1>4. PICK i \in DOMAIN Change(h).ops :
          Change(h).ops[i] = [key |-> k, body |-> calls[h].body]
  BY <1>1 DEF HoldsOperation
<1>5. /\ Len(replaced[answer.key]) = 1
      /\ replaced[answer.key][1].from = answer.body.revision
      /\ \E j \in DOMAIN replaced[answer.key][1].ops :
            replaced[answer.key][1].ops[j] = [key |-> answer.key, body |-> answer.body]
  <2>1. answer.key = k /\ answer.body = calls[h].body
    OBVIOUS
  <2>2. calls[h].body.revision = replaced[k][1].from
    BY <1>3, <1>4
  <2> HIDE DEF answer
  <2> QED
    BY <1>3, <1>4, <2>1, <2>2
<1>6. SuccessIsPublishedOnce' /\ \A s \in succeeded' : s.key \in CallKeys
  <2>1. answer.key \in CallKeys
    BY <1>2
  <2> HIDE DEF answer
  <2> QED
    BY <1>1, <1>5, <2>1 DEF ShortInv, SuccessIsPublishedOnce
<1>7. CallsTyped' /\ calls'[h] = NoCall /\ \A g \in Handlers \ {h} : calls'[g] = calls[g]
  BY <1>1 DEF ShortInv, CallsTyped
<1>8. CallsProgress'
  BY <1>1, <1>7, CallStep
<1>9. PageTyped' /\ ChangesTyped' /\ ReplacedTyped' /\ PublishedAsReplaced'
  BY <1>1 DEF ShortInv, PageTyped, ChangesTyped, ReplacedTyped, PublishedAsReplaced
<1> QED
  BY <1>1, <1>6, <1>7, <1>8, <1>9 DEF ShortInv

\* The first state has it.
LEMMA ShortcutsInitHolds == ShortcutsInit => ShortInv
<1> SUFFICES ASSUME ShortcutsInit PROVE ShortInv
  OBVIOUS
<1>1. PageTyped
  <2>1. 1 \in 1..MaxPageRevision /\ (CHOOSE p \in PagePaths : TRUE) \in PagePaths
    BY RevisionIsBounded, PagesHavePaths
  <2> QED
    BY <2>1 DEF ShortcutsInit, PageTyped
<1>2. ReplacedTyped
  <2>1. \A S : <<>> \in Seq(S)
    OBVIOUS
  <2> QED
    BY <2>1 DEF ShortcutsInit, ReplacedTyped
<1>3. ChangesTyped /\ CallsTyped /\ PublishedAsReplaced
  BY DEF ShortcutsInit, ChangesTyped, CallsTyped, PublishedAsReplaced
<1>4. CallsProgress
  BY DEF ShortcutsInit, CallsProgress, NoCall
<1> QED
  BY <1>1, <1>2, <1>3, <1>4 DEF ShortcutsInit, ShortInv, SuccessIsPublishedOnce

\* A one-call edit that is answered with success is published once, and one that is
\* refused has its reason, through repeats and stops between its commits
\* (agent_shortcuts_api).
THEOREM ShortcutsAreSafe == ShortcutsSpec => []ShortcutsSafe
<1>1. ShortInv /\ [ShortcutsNext]_shortcutVars => ShortInv'
  <2> SUFFICES ASSUME ShortInv, [ShortcutsNext]_shortcutVars PROVE ShortInv'
    OBVIOUS
  <2>1. CASE EditPage \/ \E k \in CallKeys : AbandonShortcut(k) \/ AddForeignOperation(k)
    BY <2>1, OthersStep
  <2>2. ASSUME NEW h \in Handlers, NEW k \in CallKeys, NEW body \in Bodies,
               BeginCall(h, k, body)
        PROVE  ShortInv'
    <3> DEFINE s == [stage |-> "create", key |-> k, body |-> body,
                     title |-> shortPage.path, revision |-> 0]
    <3>1. s \in CallRows /\ s.stage = "create"
      BY DEF CallRows, CallStages, ShortInv, PageTyped
    <3>2. calls' = [calls EXCEPT ![h] = s]
          /\ UNCHANGED <<shortPage, shortChanges, replaced, succeeded, refusals>>
      BY <2>2 DEF BeginCall
    <3> HIDE DEF s
    <3> QED
      BY <3>1, <3>2, TablesKeptStep
  <2>3. ASSUME NEW h \in Handlers, StopCall(h) PROVE ShortInv'
    BY <2>3, TablesKeptStep DEF StopCall
  <2>4. ASSUME NEW h \in Handlers,
               \/ CreateShortcutChange(h) \/ AddShortcutOperation(h) \/ ValidateShortcut(h)
               \/ PublishShortcut(h) \/ AnswerShortcut(h)
        PROVE  ShortInv'
    BY <2>4, CreateStep, OperateStep, PublishStep, CallAnswerStep
  <2>5. CASE UNCHANGED shortcutVars
    <3>1. PageTyped' /\ ChangesTyped' /\ CallsTyped' /\ ReplacedTyped'
      BY <2>5 DEF shortcutVars, ShortInv, PageTyped, ChangesTyped, CallsTyped, ReplacedTyped
    <3>2. CallsProgress' /\ PublishedAsReplaced' /\ SuccessIsPublishedOnce'
      BY <2>5
      DEF shortcutVars, ShortInv, CallsProgress, HoldsOperation, Change,
          PublishedAsReplaced, SuccessIsPublishedOnce
    <3> QED
      BY <2>5, <3>1, <3>2 DEF shortcutVars, ShortInv
  <2> QED
    BY <2>1, <2>2, <2>3, <2>4, <2>5 DEF ShortcutsNext
<1>2. ShortInv => ShortcutsSafe
  <2> SUFFICES ASSUME ShortInv PROVE ShortcutsSafe
    OBVIOUS
  <2>1. ShortcutsTypeOK
    <3>1. shortPage.revision \in 1..MaxPageRevision /\ shortPage.path \in PagePaths
      BY DEF ShortInv, PageTyped
    <3>2. ASSUME NEW k \in CallKeys, shortChanges[k] # None
          PROVE  /\ shortChanges[k].status \in {"DRAFT", "PUBLISHED", "ABANDONED"}
                 /\ \A i \in DOMAIN shortChanges[k].ops :
                      shortChanges[k].ops[i].body \in [revision : 1..MaxPageRevision,
                                                       text : Texts \cup {None}]
      <4>1. PICK s \in ChangeStatuses, t \in PagePaths, o \in Seq(OperationRows) :
               shortChanges[k] = [status |-> s, title |-> t, ops |-> o]
        BY <3>2 DEF ShortInv, ChangesTyped, ChangeRows
      <4>2. \A i \in DOMAIN o : o[i] \in OperationRows
        <5> HIDE DEF OperationRows
        <5> QED
          OBVIOUS
      <4>3. \A i \in DOMAIN o : o[i].body \in OperationBodies
        BY <4>2 DEF OperationRows
      <4> QED
        BY <4>1, <4>3 DEF ChangeStatuses, OperationBodies
    <3> QED
      BY <3>1, <3>2 DEF ShortInv, ShortcutsTypeOK
  <2> QED
    BY <2>1 DEF ShortInv, ShortcutsSafe, RefusedForAReason
<1> QED
  BY <1>1, <1>2, ShortcutsInitHolds, PTL DEF ShortcutsSpec

-----------------------------------------------------------------------------
(***************************************************************************)
(* Structure: projections put and read by any number of handlers at once.  *)
(***************************************************************************)
\* What a handler's put and its read may be.
PuttingStates ==
    {NotPutting}
    \cup [stage : {"begun", "locked"}, artifact : Projected, document : Documents, at : Nat]
AskingStates ==
    {NotAsking}
    \cup [stage : {"identified"}, artifact : Projected, identity : ProjectionRows]
    \cup [stage : {"described"}, artifact : Projected, identity : ProjectionRows,
          body : ProjectionRows]
    \cup [stage : {"answered"}, artifact : Projected, identity : ProjectionRows,
          body : ProjectionRows, relations : ProjectionRows]

StructureTyped ==
    /\ StructureTypeOK
    /\ putting \in [Handlers -> PuttingStates]
    /\ asking \in [Handlers -> AskingStates]

\* The row of an artifact is locked by one put, and while it is declared.
LockedIsDeclared ==
    \A h \in Handlers : putting[h].stage = "locked" =>
        /\ putting[h].artifact \in declared
        /\ \A g \in Handlers :
            putting[g].stage = "locked" /\ putting[g].artifact = putting[h].artifact => g = h

\* What was ever stored of an artifact is not newer than its row, and its row has
\* the document of its version.
RowIsNewest ==
    \A p \in published :
        /\ projections[p[1]] # None
        /\ p[2] <= projections[p[1]].version
        /\ p[2] = projections[p[1]].version => p[3] = projections[p[1]].document

\* The version of a row is at least v.
Reached(a, v) == projections[a] # None /\ v <= projections[a].version

\* A read has seen what was there when it looked, and no later statement of it has
\* seen anything older.
Forward(s) ==
    /\ s.stage = "identified" => Reached(s.artifact, s.identity.version)
    /\ s.stage \in {"described", "answered"} => s.identity.version <= s.body.version
    /\ s.stage = "described" => Reached(s.artifact, s.body.version)
    /\ s.stage = "answered" => s.body.version <= s.relations.version

AsksForward == \A h \in Handlers : Forward(asking[h])

StructInv ==
    /\ StructureTyped /\ LockedIsDeclared /\ RowIsNewest /\ AsksForward
    /\ VersionNamesDocument

-----------------------------------------------------------------------------
\* A row of a projection is not None.
LEMMA RowIsNotNone ==
    ASSUME NEW r \in ProjectionRows
    PROVE  r # None /\ r.version \in Nat /\ r.version # 0 /\ r.document \in Documents
<1>1. r \in [version : Nat, document : Documents, at : Nat]
  BY DEF ProjectionRows
<1> QED
  BY <1>1, NoneIsNoProjection DEF ProjectionRows

\* A step of a put that leaves the tables, and does not take a lock.
LEMMA PutStep ==
    ASSUME StructInv, NEW h \in Handlers, NEW s \in PuttingStates,
           putting' = [putting EXCEPT ![h] = s],
           s.stage \in {"idle", "begun"},
           puts' \in 0..MaxPuts,
           UNCHANGED <<declared, projections, asking, published>>
    PROVE  StructInv'
<1>1. putting \in [Handlers -> PuttingStates]
  BY DEF StructInv, StructureTyped
<1>2. \A g \in Handlers : putting'[g] = IF g = h THEN s ELSE putting[g]
  BY <1>1
<1>3. \A g \in Handlers : putting'[g].stage \in {"idle", "begun", "locked"}
  BY <1>1, <1>2 DEF PuttingStates, NotPutting
<1>4. StructureTyped'
  BY <1>1, <1>3 DEF StructInv, StructureTyped, StructureTypeOK
<1>5. LockedIsDeclared'
  BY <1>2 DEF StructInv, LockedIsDeclared
<1>6. RowIsNewest' /\ AsksForward' /\ VersionNamesDocument'
  BY DEF StructInv, RowIsNewest, AsksForward, Forward, Reached, VersionNamesDocument
<1> QED
  BY <1>4, <1>5, <1>6 DEF StructInv

\* A lock is taken of a declared artifact whose row is free.
LEMMA LockStep ==
    ASSUME StructInv, NEW h \in Handlers, LockProjected(h)
    PROVE  StructInv'
<1> DEFINE a == putting[h].artifact
<1>1. /\ putting \in [Handlers -> PuttingStates]
      /\ putting[h].stage = "begun" /\ ~RowLocked(a)
      /\ putting' = [putting EXCEPT ![h] =
              IF a \in declared THEN [@ EXCEPT !.stage = "locked"] ELSE NotPutting]
      /\ UNCHANGED <<declared, projections, puts, asking, published>>
  BY DEF StructInv, StructureTyped, LockProjected
<1>2. CASE a \notin declared
  <2>1. putting' = [putting EXCEPT ![h] = NotPutting]
    BY <1>1, <1>2
  <2>2. NotPutting \in PuttingStates /\ NotPutting.stage = "idle"
    BY DEF PuttingStates, NotPutting
  <2>3. puts' \in 0..MaxPuts
    BY <1>1 DEF StructInv, StructureTyped, StructureTypeOK
  <2> QED
    BY <1>1, <2>1, <2>2, <2>3, PutStep
<1>3. CASE a \in declared
  <2>1. PICK d \in Documents, n \in Nat :
           putting[h] = [stage |-> "begun", artifact |-> a, document |-> d, at |-> n]
           /\ a \in Projected
    BY <1>1 DEF PuttingStates, NotPutting
  <2> DEFINE s == [stage |-> "locked", artifact |-> a, document |-> d, at |-> n]
  <2>2. s \in PuttingStates /\ s.stage = "locked" /\ s.artifact = a
    BY <2>1 DEF PuttingStates
  <2>3. putting' = [putting EXCEPT ![h] = s]
    <3>1. [putting[h] EXCEPT !.stage = "locked"] = s
      BY <2>1
    <3> HIDE DEF s
    <3> QED
      BY <1>1, <1>3, <3>1
  <2> HIDE DEF s
  <2>4. \A g \in Handlers : putting'[g] = IF g = h THEN s ELSE putting[g]
    BY <1>1, <2>3
  <2>5. \A g \in Handlers : putting'[g].stage \in {"idle", "begun", "locked"}
    BY <1>1, <2>2, <2>4 DEF PuttingStates, NotPutting
  <2>6. StructureTyped'
    BY <1>1, <2>2, <2>3, <2>5 DEF StructInv, StructureTyped, StructureTypeOK
  <2>7. LockedIsDeclared'
    <3>1. \A g \in Handlers : ~(putting[g].stage = "locked" /\ putting[g].artifact = a)
      BY <1>1 DEF RowLocked
    <3>2. declared' = declared
      BY <1>1
    <3> HIDE DEF a
    <3> QED
      BY <1>3, <2>2, <2>4, <3>1, <3>2 DEF StructInv, LockedIsDeclared
  <2>8. RowIsNewest' /\ AsksForward' /\ VersionNamesDocument'
    BY <1>1 DEF StructInv, RowIsNewest, AsksForward, Forward, Reached, VersionNamesDocument
  <2> QED
    BY <2>6, <2>7, <2>8 DEF StructInv
<1> QED
  BY <1>2, <1>3

\* A commit stores what was put as the next version, or finds it stored.
LEMMA CommitPutStep ==
    ASSUME StructInv, NEW h \in Handlers, CommitPut(h)
    PROVE  /\ StructInv'
           /\ \A a \in Projected \ declared : projections'[a] = projections[a]
<1> DEFINE a == putting[h].artifact
           d == putting[h].document
           kept == projections[a] # None /\ projections[a].document = d
           row == [version |-> Versioned(a), document |-> d, at |-> putting[h].at]
<1>1. /\ putting \in [Handlers -> PuttingStates] /\ putting[h].stage = "locked"
      /\ projections \in [Projected -> ProjectionRows \cup {None}]
      /\ published \subseteq Projected \X (Nat \ {0}) \X Documents
      /\ projections' = IF kept THEN projections ELSE [projections EXCEPT ![a] = row]
      /\ published' = published \cup
              {<<a, projections'[a].version, projections'[a].document>>}
      /\ putting' = [putting EXCEPT ![h] = NotPutting]
      /\ UNCHANGED <<declared, puts, asking>>
  BY DEF StructInv, StructureTyped, StructureTypeOK, CommitPut
<1>2. a \in Projected /\ d \in Documents /\ putting[h].at \in Nat
  BY <1>1 DEF PuttingStates, NotPutting
<1>3. a \in declared
  BY <1>1 DEF StructInv, LockedIsDeclared
<1>4. projections[a] # None =>
         /\ projections[a].version \in Nat /\ projections[a].version # 0
         /\ projections[a].document \in Documents
  BY <1>1, <1>2, RowIsNotNone
<1>5. row \in ProjectionRows /\ row.document = d /\ row.version = Versioned(a)
  BY <1>2, <1>4 DEF ProjectionRows, Versioned
<1> HIDE DEF row
<1>6. /\ projections' \in [Projected -> ProjectionRows \cup {None}]
      /\ \A b \in Projected \ {a} : projections'[b] = projections[b]
      /\ projections'[a] = IF kept THEN projections[a] ELSE row
  BY <1>1, <1>2, <1>5
<1>7. /\ projections'[a] # None /\ projections'[a] \in ProjectionRows
      /\ projections'[a].document = d
      /\ projections'[a].version \in Nat \ {0}
      /\ projections[a] # None =>
            \/ projections'[a] = projections[a]
            \/ projections'[a].version = projections[a].version + 1
  <2>1. CASE kept
    BY <1>1, <1>2, <1>4, <1>6, <2>1
  <2>2. CASE ~kept
    <3>1. projections'[a] = row /\ row # None /\ row.version \in Nat \ {0}
      BY <1>5, <1>6, <2>2, RowIsNotNone
    <3>2. projections[a] # None => row.version = projections[a].version + 1
      BY <1>5 DEF Versioned
    <3> QED
      BY <1>5, <3>1, <3>2
  <2> QED
    BY <2>1, <2>2
<1>8. \A b \in Projected : projections[b] # None =>
         /\ projections'[b] # None
         /\ projections[b].version \in Nat /\ projections'[b].version \in Nat
         /\ projections[b].version <= projections'[b].version
         /\ projections[b].version = projections'[b].version
              => projections'[b] = projections[b]
  <2> SUFFICES ASSUME NEW b \in Projected, projections[b] # None
               PROVE  /\ projections'[b] # None
                      /\ projections[b].version \in Nat /\ projections'[b].version \in Nat
                      /\ projections[b].version <= projections'[b].version
                      /\ projections[b].version = projections'[b].version
                           => projections'[b] = projections[b]
    OBVIOUS
  <2>1. projections[b].version \in Nat
    BY <1>1, RowIsNotNone
  <2>2. CASE b = a
    <3> HIDE DEF a
    <3> QED
      BY <1>7, <2>1, <2>2
  <2>3. CASE b # a
    BY <1>6, <2>1, <2>3
  <2> QED
    BY <2>2, <2>3
<1>9. \A g \in Handlers : putting'[g] = IF g = h THEN NotPutting ELSE putting[g]
  BY <1>1
<1>10. StructureTyped'
  <2>1. putting' \in [Handlers -> PuttingStates]
    BY <1>1 DEF PuttingStates
  <2>2. \A g \in Handlers : putting'[g].stage \in {"idle", "begun", "locked"}
    BY <2>1 DEF PuttingStates, NotPutting
  <2>3. published' \subseteq Projected \X (Nat \ {0}) \X Documents
    BY <1>1, <1>2, <1>7
  <2> QED
    BY <1>1, <1>6, <2>1, <2>2, <2>3 DEF StructInv, StructureTyped, StructureTypeOK
<1>11. LockedIsDeclared'
  BY <1>1, <1>9 DEF StructInv, LockedIsDeclared, NotPutting
<1> DEFINE stored == <<a, projections'[a].version, projections'[a].document>>
<1>12. /\ stored[1] = a /\ stored[2] = projections'[a].version
       /\ stored[3] = projections'[a].document
  OBVIOUS
<1>13. published' = published \cup {stored}
  BY <1>1
<1> HIDE DEF stored
<1>14. ASSUME NEW p \in published
       PROVE  /\ projections'[p[1]] # None
              /\ p[2] <= projections'[p[1]].version
              /\ p[2] = projections'[p[1]].version => p[3] = projections'[p[1]].document
  <2>1. p[1] \in Projected /\ p[2] \in Nat
    BY <1>1
  <2>2. /\ projections[p[1]] # None /\ p[2] <= projections[p[1]].version
        /\ p[2] = projections[p[1]].version => p[3] = projections[p[1]].document
    BY DEF StructInv, RowIsNewest
  <2> QED
    BY <1>8, <2>1, <2>2
<1>15. RowIsNewest'
  <2>1. stored[2] <= projections'[stored[1]].version
    BY <1>7, <1>12
  <2> QED
    BY <1>7, <1>12, <1>13, <1>14, <2>1 DEF RowIsNewest
<1>16. VersionNamesDocument'
  <2>1. ASSUME NEW p \in published, p[1] = a, p[2] = stored[2] PROVE p[3] = stored[3]
    BY <1>12, <1>14, <2>1
  <2>2. ASSUME NEW p \in published, NEW q \in published, p[1] = q[1], p[2] = q[2]
        PROVE  p[3] = q[3]
    BY <2>2 DEF StructInv, VersionNamesDocument
  <2> QED
    BY <1>12, <1>13, <2>1, <2>2 DEF VersionNamesDocument
<1>17. AsksForward'
  <2>1. ASSUME NEW b \in Projected, NEW v \in Nat, Reached(b, v)
        PROVE  projections'[b] # None /\ v <= projections'[b].version
    BY <1>8, <2>1 DEF Reached
  <2>2. ASSUME NEW g \in Handlers
        PROVE  /\ asking[g].stage = "identified" =>
                    asking[g].artifact \in Projected /\ asking[g].identity.version \in Nat
               /\ asking[g].stage = "described" =>
                    asking[g].artifact \in Projected /\ asking[g].body.version \in Nat
    <3>1. asking[g] \in AskingStates
      BY DEF StructInv, StructureTyped
    <3> QED
      BY <3>1 DEF AskingStates, NotAsking, ProjectionRows
  <2> QED
    BY <1>1, <2>1, <2>2 DEF StructInv, AsksForward, Forward, Reached
<1>18. \A b \in Projected \ declared : projections'[b] = projections[b]
  BY <1>3, <1>6
<1> QED
  BY <1>10, <1>11, <1>15, <1>16, <1>17, <1>18 DEF StructInv

\* A read goes on, or ends: its statement sees rows at least as new as the last one.
LEMMA AskStep ==
    ASSUME StructInv, NEW h \in Handlers,
           \/ \E a \in Projected : AskIdentity(h, a)
           \/ AskBody(h) \/ AskRelations(h) \/ EndAsking(h)
    PROVE  StructInv' /\ projections' = projections
<1>1. /\ asking \in [Handlers -> AskingStates]
      /\ projections \in [Projected -> ProjectionRows \cup {None}]
      /\ UNCHANGED <<declared, projections, puts, putting, published>>
  BY DEF StructInv, StructureTyped, StructureTypeOK, AskIdentity, AskBody, AskRelations,
         EndAsking
<1>2. \E s \in AskingStates : asking' = [asking EXCEPT ![h] = s] /\ Forward(s)
  <2>1. ASSUME NEW a \in Projected, AskIdentity(h, a) 
        PROVE  \E s \in AskingStates : asking' = [asking EXCEPT ![h] = s] /\ Forward(s)
    <3> DEFINE s == [stage |-> "identified", artifact |-> a, identity |-> projections[a]]
    <3>1. projections[a] # None /\ projections[a] \in ProjectionRows
      BY <1>1, <2>1 DEF AskIdentity, Served
    <3>2. projections[a].version \in Nat
      BY <3>1, RowIsNotNone
    <3>3. s \in AskingStates
      BY <3>1 DEF AskingStates
    <3>4. s.stage = "identified" /\ Reached(s.artifact, s.identity.version)
      BY <3>1, <3>2 DEF Reached
    <3>5. asking' = [asking EXCEPT ![h] = s]
      BY <2>1 DEF AskIdentity
    <3> HIDE DEF s
    <3> QED
      BY <3>3, <3>4, <3>5 DEF Forward
  <2>2. CASE AskBody(h)
    <3>1. PICK a \in Projected, i \in ProjectionRows :
             asking[h] = [stage |-> "identified", artifact |-> a, identity |-> i]
      BY <1>1, <2>2 DEF AskBody, AskingStates, NotAsking
    <3>2. Reached(a, i.version)
      BY <2>2, <3>1 DEF AskBody, StructInv, AsksForward, Forward
    <3>3. projections[a] \in ProjectionRows /\ i.version <= projections[a].version
      BY <1>1, <3>2 DEF Reached
    <3> DEFINE s == [stage |-> "described", artifact |-> a, identity |-> i,
                     body |-> projections[a]]
    <3>4. s \in AskingStates
      BY <3>3 DEF AskingStates
    <3>5. s.stage = "described" /\ s.identity.version <= s.body.version
      BY <3>3
    <3>6. Reached(s.artifact, s.body.version)
      BY <3>3, RowIsNotNone DEF Reached
    <3>7. asking' = [asking EXCEPT ![h] = s]
      BY <2>2, <3>1 DEF AskBody
    <3> HIDE DEF s
    <3> QED
      BY <3>4, <3>5, <3>6, <3>7 DEF Forward
  <2>3. CASE AskRelations(h)
    <3>1. PICK a \in Projected, i \in ProjectionRows, b \in ProjectionRows :
             asking[h] = [stage |-> "described", artifact |-> a, identity |-> i, body |-> b]
      BY <1>1, <2>3 DEF AskRelations, AskingStates, NotAsking
    <3>2. Reached(a, b.version) /\ i.version <= b.version
      BY <2>3, <3>1 DEF AskRelations, StructInv, AsksForward, Forward
    <3>3. projections[a] \in ProjectionRows /\ b.version <= projections[a].version
      BY <1>1, <3>2 DEF Reached
    <3> DEFINE s == [stage |-> "answered", artifact |-> a, identity |-> i, body |-> b,
                     relations |-> projections[a]]
    <3>4. s \in AskingStates
      BY <3>3 DEF AskingStates
    <3>5. /\ s.stage = "answered" /\ s.identity.version <= s.body.version
          /\ s.body.version <= s.relations.version
      BY <3>2, <3>3
    <3>6. asking' = [asking EXCEPT ![h] = s]
      BY <2>3, <3>1 DEF AskRelations
    <3> HIDE DEF s
    <3> QED
      BY <3>4, <3>5, <3>6 DEF Forward
  <2>4. CASE EndAsking(h)
    <3>1. NotAsking \in AskingStates /\ Forward(NotAsking)
      BY DEF AskingStates, NotAsking, Forward
    <3> QED
      BY <2>4, <3>1 DEF EndAsking
  <2> QED
    BY <2>1, <2>2, <2>3, <2>4
<1>3. PICK s \in AskingStates : asking' = [asking EXCEPT ![h] = s] /\ Forward(s)
  BY <1>2
<1>4. \A g \in Handlers : asking'[g] = IF g = h THEN s ELSE asking[g]
  BY <1>1, <1>3
<1>5. asking' \in [Handlers -> AskingStates]
  BY <1>1, <1>3
<1>6. \A g \in Handlers :
         asking'[g].stage \in {"idle", "identified", "described", "answered"}
  BY <1>5 DEF AskingStates, NotAsking
<1>7. StructureTyped'
  BY <1>1, <1>5, <1>6 DEF StructInv, StructureTyped, StructureTypeOK
<1>8. AsksForward'
  BY <1>1, <1>3, <1>4 DEF StructInv, AsksForward, Forward, Reached
<1>9. LockedIsDeclared' /\ RowIsNewest' /\ VersionNamesDocument'
  BY <1>1 DEF StructInv, LockedIsDeclared, RowIsNewest, VersionNamesDocument
<1> QED
  BY <1>1, <1>7, <1>8, <1>9 DEF StructInv

\* An identity is of one document, answers go forward from it, and what is retired
\* stays as it is, whatever puts and reads overlap (structure_api).
THEOREM StructureIsSafe == StructureSpec => StructureSafe
<1>1. StructureInit => StructInv
  <2> SUFFICES ASSUME StructureInit PROVE StructInv
    OBVIOUS
  <2>1. StructureTyped
    BY PutsBound
    DEF StructureInit, StructureTyped, StructureTypeOK, PuttingStates, AskingStates,
        NotPutting, NotAsking
  <2>2. LockedIsDeclared /\ RowIsNewest /\ AsksForward /\ VersionNamesDocument
    BY DEF StructureInit, LockedIsDeclared, RowIsNewest, AsksForward, Forward,
           VersionNamesDocument, NotPutting, NotAsking
  <2> QED
    BY <2>1, <2>2 DEF StructInv
<1>2. ASSUME StructInv, [StructureNext]_structureVars
      PROVE  /\ StructInv'
             /\ \A a \in Projected \ declared : projections'[a] = projections[a]
  <2>1. ASSUME NEW h \in Handlers, NEW a \in Projected, NEW d \in Documents, BeginPut(h, a, d)
        PROVE  StructInv' /\ projections' = projections
    <3> DEFINE s == [stage |-> "begun", artifact |-> a, document |-> d, at |-> puts + 1]
    <3>1. s \in PuttingStates /\ s.stage = "begun" /\ puts + 1 \in 0..MaxPuts
      BY <1>2, <2>1, PutsBound DEF PuttingStates, BeginPut, StructInv, StructureTyped,
                            StructureTypeOK
    <3>2. putting' = [putting EXCEPT ![h] = s] /\ puts' = puts + 1
          /\ UNCHANGED <<declared, projections, asking, published>>
      BY <2>1 DEF BeginPut
    <3> HIDE DEF s
    <3> QED
      BY <1>2, <3>1, <3>2, PutStep
  <2>2. ASSUME NEW h \in Handlers, LockProjected(h)
        PROVE  StructInv' /\ projections' = projections
    BY <1>2, <2>2, LockStep DEF LockProjected
  <2>3. ASSUME NEW h \in Handlers, CommitPut(h) 
        PROVE  StructInv' /\ \A a \in Projected \ declared : projections'[a] = projections[a]
    BY <1>2, <2>3, CommitPutStep
  <2>4. ASSUME NEW h \in Handlers, AbandonPut(h)
        PROVE  StructInv' /\ projections' = projections
    <3>1. NotPutting \in PuttingStates /\ NotPutting.stage = "idle"
      BY DEF PuttingStates, NotPutting
    <3>2. puts' \in 0..MaxPuts
      BY <1>2, <2>4 DEF AbandonPut, StructInv, StructureTyped, StructureTypeOK
    <3> QED
      BY <1>2, <2>4, <3>1, <3>2, PutStep DEF AbandonPut
  <2>5. ASSUME NEW a \in Projected, RetireProjected(a)
        PROVE  StructInv' /\ projections' = projections
    <3>1. /\ \A h \in Handlers : ~(putting[h].stage = "locked" /\ putting[h].artifact = a)
          /\ declared' = declared \ {a}
          /\ UNCHANGED <<projections, puts, putting, asking, published>>
      BY <2>5 DEF RetireProjected, RowLocked
    <3>2. StructureTyped' /\ LockedIsDeclared'
      BY <1>2, <3>1
      DEF StructInv, StructureTyped, StructureTypeOK, LockedIsDeclared
    <3>3. RowIsNewest' /\ AsksForward' /\ VersionNamesDocument'
      BY <1>2, <3>1 DEF StructInv, RowIsNewest, AsksForward, Forward, Reached, VersionNamesDocument
    <3> QED
      BY <3>1, <3>2, <3>3 DEF StructInv
  <2>6. ASSUME NEW h \in Handlers,
               \/ \E a \in Projected : AskIdentity(h, a)
               \/ AskBody(h) \/ AskRelations(h) \/ EndAsking(h)
        PROVE  StructInv' /\ projections' = projections
    BY <1>2, <2>6, AskStep
  <2>7. CASE UNCHANGED structureVars
    <3>1. StructInv'
      BY <1>2, <2>7
      DEF structureVars, StructInv, StructureTyped, StructureTypeOK, LockedIsDeclared,
          RowIsNewest, AsksForward, Forward, Reached, VersionNamesDocument
    <3> QED
      BY <2>7, <3>1 DEF structureVars
  <2> QED
    BY <1>2, <2>1, <2>2, <2>3, <2>4, <2>5, <2>6, <2>7 DEF StructureNext
<1>3. StructInv => StructureTypeOK /\ VersionNamesDocument /\ AnswerGoesForward
  BY DEF StructInv, StructureTyped, AsksForward, Forward, AnswerGoesForward
<1>4. StructInv /\ [StructureNext]_structureVars =>
          StructInv' /\ [\A a \in Projected \ declared : projections'[a] = projections[a]]_structureVars
  BY <1>2
<1> QED
  BY <1>1, <1>3, <1>4, PTL DEF StructureSpec, StructureSafe, RetiredIsFrozen
=============================================================================

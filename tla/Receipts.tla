------------------------------- MODULE Receipts -------------------------------
(***************************************************************************)
(* Idempotency receipts and the event log.  A mutating request reads the   *)
(* receipt of its key, runs, appends its event, saves its receipt and      *)
(* commits, in one transaction; its client may send it again at any time,  *)
(* and hears nothing if the connection ends first.                         *)
(*                                                                         *)
(* Most routes hold an advisory lock on the key (mutation_receipts), or    *)
(* have the key in a unique index and compare on conflict (create_change): *)
(* Locked.  The receipts of trust_api are read without a lock.             *)
(***************************************************************************)
EXTENDS Requests, Integers, Sequences, FiniteSets

CONSTANTS
    Keys, Payloads,
    Locked,         \* the keys of requests to routes that serialise by key
    PageSize,       \* limit of list_events
    MaxSeq          \* bound of the model on event_seq

ASSUME LockedKeys == Locked \subseteq Keys
ASSUME NoneIsNoPayload == None \notin Payloads
ASSUME ReceiptBounds == PageSize \in Nat \ {0} /\ MaxSeq \in Nat

VARIABLES
    receipts,   \* key -> the payload whose response is stored, or None
    effects,    \* key -> sequence of the payloads whose effects are committed
    answers,    \* <<key, payload sent, payload whose response was answered>>
    log,        \* committed rows of docplane.events, <<event_seq, key>>
    nextSeq,    \* the sequence of event_seq; a rollback does not return a value
    failures,   \* keys of which a request ended in a unique violation
    serving,    \* handler -> the request it serves
    cursor,     \* what one reader of list_events sends as `after`
    seen        \* the event_seq it has been given

receiptVars == <<receipts, effects, answers, log, nextSeq, failures, serving,
                 cursor, seen>>

NotServing == [stage |-> "idle"]
InFlight(h) == serving[h].stage \in {"running", "appended"}

ReceiptsInit ==
    /\ receipts = [k \in Keys |-> None]
    /\ effects = [k \in Keys |-> <<>>]
    /\ answers = {} /\ log = {} /\ nextSeq = 1 /\ failures = {}
    /\ serving = [h \in Handlers |-> NotServing]
    /\ cursor = 0 /\ seen = {}

unchangedLog == UNCHANGED <<log, nextSeq, cursor, seen>>
unchangedReader == UNCHANGED <<cursor, seen>>

Deliver(h, k, p) ==
    /\ serving[h] = NotServing
    /\ serving' = [serving EXCEPT ![h] = [stage |-> "delivered", key |-> k, payload |-> p]]
    /\ unchangedLog /\ UNCHANGED <<receipts, effects, answers, failures>>

\* Mutant: the key is not locked.
KeyNeverLocked(k) == TRUE

KeyLockFree(k) == \A h \in Handlers : InFlight(h) => serving[h].key # k

\* Mutant: the digest of the payload is not compared.
LoadAnyReceipt(h) ==
    LET k == serving[h].key
    IN  /\ serving[h].stage = "delivered"
        /\ k \in Locked => KeyLockFree(k)
        /\ serving' = [serving EXCEPT ![h] =
              [@ EXCEPT !.stage = IF receipts[k] = None THEN "running" ELSE "replaying"]]
        /\ unchangedLog /\ UNCHANGED <<receipts, effects, answers, failures>>

\* load_receipt: run, replay the stored response, or refuse a reused key.
LoadReceipt(h) ==
    LET k == serving[h].key
        p == serving[h].payload
    IN  /\ serving[h].stage = "delivered"
        /\ k \in Locked => KeyLockFree(k)
        /\ serving' = [serving EXCEPT ![h] =
              IF receipts[k] = None THEN [@ EXCEPT !.stage = "running"]
              ELSE IF receipts[k] = p THEN [@ EXCEPT !.stage = "replaying"]
              ELSE NotServing]
        /\ unchangedLog /\ UNCHANGED <<receipts, effects, answers, failures>>

\* Mutant: the event is committed by itself.
AppendAtOnce(h) ==
    LET k == serving[h].key
    IN  /\ serving[h].stage = "running"
        /\ nextSeq <= MaxSeq
        /\ nextSeq' = nextSeq + 1
        /\ log' = log \cup {<<nextSeq, k>>}
        /\ serving' = [serving EXCEPT ![h] =
              [stage |-> "appended", key |-> k, payload |-> serving[h].payload,
               rows |-> {}]]
        /\ unchangedReader
        /\ UNCHANGED <<receipts, effects, answers, failures>>

\* append_event: a second inserter of the key waits for the first, and then
\* answers with the event that is there.
AppendEvent(h) ==
    LET k == serving[h].key
        logged == \E e \in log : e[2] = k
    IN  /\ serving[h].stage = "running"
        /\ \A g \in Handlers : serving[g].stage = "appended" => serving[g].key # k
        /\ nextSeq <= MaxSeq
        /\ nextSeq' = nextSeq + 1
        /\ serving' = [serving EXCEPT ![h] =
              [stage |-> "appended", key |-> k, payload |-> serving[h].payload,
               rows |-> IF logged THEN {} ELSE {<<nextSeq, k>>}]]
        /\ unchangedReader
        /\ UNCHANGED <<receipts, effects, answers, failures, log>>

\* save_receipt and the commit, or the unique violation that undoes the whole.
CommitRequest(h) ==
    LET k == serving[h].key
        p == serving[h].payload
    IN  /\ serving[h].stage = "appended"
        /\ IF receipts[k] = None
           THEN /\ receipts' = [receipts EXCEPT ![k] = p]
                /\ effects' = [effects EXCEPT ![k] = Append(@, p)]
                /\ log' = log \cup serving[h].rows
                /\ serving' = [serving EXCEPT ![h] =
                      [stage |-> "replaying", key |-> k, payload |-> p]]
                /\ UNCHANGED failures
           ELSE /\ failures' = failures \cup {k}
                /\ serving' = [serving EXCEPT ![h] = NotServing]
                /\ UNCHANGED <<receipts, effects, log>>
        /\ unchangedReader /\ UNCHANGED <<answers, nextSeq>>

Answer(h) ==
    /\ serving[h].stage = "replaying"
    /\ answers' = answers \cup
          {<<serving[h].key, serving[h].payload, receipts[serving[h].key]>>}
    /\ serving' = [serving EXCEPT ![h] = NotServing]
    /\ unchangedLog /\ UNCHANGED <<receipts, effects, failures>>

\* The connection, or the process, ends: what is committed stays.
LoseRequest(h) ==
    /\ serving[h] # NotServing
    /\ serving' = [serving EXCEPT ![h] = NotServing]
    /\ unchangedLog /\ UNCHANGED <<receipts, effects, answers, failures>>

\* The first PageSize committed events after the cursor (list_events).
NextPage ==
    LET after == {e \in log : e[1] > cursor}
    IN  {e \in after : Cardinality({f \in after : f[1] < e[1]}) < PageSize}

ReadEvents ==
    /\ NextPage # {}
    /\ seen' = seen \cup {e[1] : e \in NextPage}
    /\ cursor' = CHOOSE s \in {e[1] : e \in NextPage} : \A e \in NextPage : e[1] <= s
    /\ UNCHANGED <<receipts, effects, answers, log, nextSeq, failures, serving>>

ReceiptsNext ==
    \/ \E h \in Handlers, k \in Keys, p \in Payloads : Deliver(h, k, p)
    \/ \E h \in Handlers : LoadReceipt(h)
    \/ \E h \in Handlers : AppendEvent(h)
    \/ \E h \in Handlers : CommitRequest(h)
    \/ \E h \in Handlers : Answer(h)
    \/ \E h \in Handlers : LoseRequest(h)
    \/ ReadEvents

ReceiptsSpec == ReceiptsInit /\ [][ReceiptsNext]_receiptVars

-----------------------------------------------------------------------------
(* Properties *)

ReceiptsTypeOK ==
    /\ receipts \in [Keys -> Payloads \cup {None}]
    /\ effects \in [Keys -> Seq(Payloads)]
    /\ answers \subseteq Keys \X Payloads \X (Payloads \cup {None})
    /\ log \subseteq Nat \X Keys
    /\ nextSeq \in Nat /\ cursor \in Nat /\ seen \subseteq Nat
    /\ failures \subseteq Keys
    /\ \A h \in Handlers :
        serving[h].stage \in {"idle", "delivered", "running", "appended", "replaying"}

\* The receipts, locked or not, keep the promise of OnceOnly: one effect per
\* key, and only its own response for an answer, through lost answers, repeats
\* and two deliveries at once.
Once == INSTANCE OnceOnly WITH performed <- effects, answered <- answers
PerformedOnce == Once!OnceSpec

\* An effect and its event are committed together: each key that took effect has
\* exactly one event, and no event is of a key without effect.
OneEventPerEffect ==
    \A k \in Keys :
        Cardinality({e \in log : e[2] = k}) = Len(effects[k])

\* Two deliveries under one lock never end in a violation: the second waits and
\* replays what the first committed (the comment in load_receipt).
LockedNeverFail == failures \cap Locked = {}

\* What the log and the locks add to PerformedOnce: an event for each effect, and no
\* violation under a lock.
ReceiptsSafe == ReceiptsTypeOK /\ OneEventPerEffect /\ LockedNeverFail

\* A reader that follows next_cursor is given every event there is (list_events).
\* The code does not have it: a transaction may commit an event whose event_seq
\* was drawn before one the reader has passed.
CursorMissesNothing == \A e \in log : e[1] <= cursor => e[1] \in seen
=============================================================================

-------------------------------- MODULE Briefs --------------------------------
(***************************************************************************)
(* The brief of an initiative and the updates of its work items            *)
(* (work_brief_api, work_brief).  An update is composed from a brief, is   *)
(* sent under a key, perhaps more than once, and is recorded as an         *)
(* activity that carries every item there is: the checkpoint.  Ordinary    *)
(* activities and transitions of the initiative go on meanwhile.           *)
(***************************************************************************)
EXTENDS Requests, Integers, Sequences, FiniteSets, TLC

CONSTANTS
    ItemIds,
    Updates,            \* what may be asked: item -> what it shall be, and if decided
    UpdateKeys,         \* Idempotency-Keys
    MaxHistory, MaxWorkVersion

ASSUME UpdatesNameItems ==
    \A u \in Updates : DOMAIN u # {} /\ DOMAIN u \subseteq ItemIds
        /\ \A i \in DOMAIN u : {u[i].decided, u[i].item.protected} \subseteq BOOLEAN
ASSUME NoneIsNoItems ==
    \A named \in SUBSET ItemIds :
        None \notin [named -> UNION {{u[i].item : i \in DOMAIN u} : u \in Updates}]
ASSUME HistoryIsBounded == MaxHistory \in Nat /\ MaxWorkVersion \in Nat \ {0}

VARIABLES
    workRow,        \* the initiative: its version, and if it is closed
    history,        \* its activities, in the order they are written
    asked,          \* key -> the update that is sent under it, or None
    updating,       \* handler -> the key it works on, or None
    updateReceipts, \* the keys that have a receipt
    toldStale       \* history: the keys that have been answered WORK_CONTEXT_STALE

briefVars == <<workRow, history, asked, updating, updateReceipts, toldStale>>

BriefsInit ==
    /\ workRow = [version |-> 1, closed |-> FALSE]
    /\ history = <<>>
    /\ asked = [k \in UpdateKeys |-> None]
    /\ updating = [h \in Handlers |-> None]
    /\ updateReceipts = {}
    /\ toldStale = {}

\* Mutant: the token does not count the activities.
ContextOfVersion == [version |-> workRow.version, count |-> 0]

\* _context: the version covers transitions, the count what is appended.
Context == [version |-> workRow.version, count |-> Len(history)]

Note == [items |-> None, revision |-> 0, count |-> 0, changes |-> <<>>, read |-> 0]
Checkpoints == {i \in DOMAIN history : history[i].items # None}

\* _checkpoint: the highest revision, and the last of those.
NewestCheckpoint ==
    CHOOSE i \in Checkpoints : \A j \in Checkpoints :
        \/ history[j].revision < history[i].revision
        \/ history[j].revision = history[i].revision /\ j <= i
Items == IF Checkpoints = {} THEN <<>> ELSE history[NewestCheckpoint].items

-----------------------------------------------------------------------------
(* What else happens to the initiative, under the lock of its row *)

AppendNote ==
    /\ Len(history) < MaxHistory
    /\ history' = Append(history, Note)
    /\ UNCHANGED <<workRow, asked, updating, updateReceipts, toldStale>>

ChangeInitiative ==
    /\ ~workRow.closed /\ workRow.version < MaxWorkVersion
    /\ workRow' \in {[version |-> workRow.version + 1, closed |-> c] : c \in BOOLEAN}
    /\ UNCHANGED <<history, asked, updating, updateReceipts, toldStale>>

-----------------------------------------------------------------------------
(* The update *)

\* A brief is read, under the lock too, and an update is composed from it.
ComposeUpdate(k) ==
    /\ asked[k] = None
    /\ \E changes \in Updates :
        asked' = [asked EXCEPT ![k] =
                     [context |-> Context, read |-> Len(history), changes |-> changes]]
    /\ UNCHANGED <<workRow, history, updating, updateReceipts, toldStale>>

\* Mutant: two deliveries under a key look for its receipt side by side.
UpdateKeyNeverLocked(k) == TRUE

\* The advisory lock of load_receipt, until the transaction ends.
UpdateKeyFree(k) == \A h \in Handlers : updating[h] # k

\* A key that has a receipt is answered from it; the lock of the row is next.
BeginWorkUpdate(h, k) ==
    /\ updating[h] = None
    /\ asked[k] # None /\ k \notin updateReceipts /\ UpdateKeyFree(k)
    /\ updating' = [updating EXCEPT ![h] = k]
    /\ UNCHANGED <<workRow, history, asked, updateReceipts, toldStale>>

\* Mutant: a protected item is guarded while it stays protected only.
MergeableUnlessReleased(changes) ==
    \A i \in DOMAIN changes \cap DOMAIN Items :
        Items[i].protected /\ changes[i].item.protected /\ Items[i] # changes[i].item
        => changes[i].decided

\* A held, deferred or finished item is changed by a decision only.
Mergeable(changes) ==
    \A i \in DOMAIN changes \cap DOMAIN Items :
        Items[i].protected /\ Items[i] # changes[i].item => changes[i].decided

\* Mutant: the items that are named are all there are.
MergedAlone(changes) == [i \in DOMAIN changes |-> changes[i].item]

Merged(changes) ==
    [i \in DOMAIN changes \cup DOMAIN Items |->
        IF i \in DOMAIN changes THEN changes[i].item ELSE Items[i]]

\* Mutant: the activity that carries the checkpoint is not counted.
CheckpointUncounted(ask) ==
    [items |-> Merged(ask.changes), revision |-> workRow.version + 1,
     count |-> Len(history), changes |-> ask.changes, read |-> ask.read]

Checkpoint(ask) ==
    [items |-> Merged(ask.changes), revision |-> workRow.version + 1,
     count |-> Len(history) + 1, changes |-> ask.changes, read |-> ask.read]

\* From the lock of the row to the commit.
CommitWorkUpdate(h) ==
    LET k == updating[h]
        ask == asked[k]
    IN  /\ k # None
        /\ ~workRow.closed /\ ask.context = Context /\ Mergeable(ask.changes)
        /\ Len(history) < MaxHistory /\ workRow.version < MaxWorkVersion
        /\ workRow' = [workRow EXCEPT !.version = @ + 1]
        /\ history' = Append(history, Checkpoint(ask))
        /\ updateReceipts' = updateReceipts \cup {k}
        /\ updating' = [updating EXCEPT ![h] = None]
        /\ UNCHANGED <<asked, toldStale>>

RefuseWorkUpdate(h) ==
    LET k == updating[h]
        stale == asked[k].context # Context
    IN  /\ k # None
        /\ workRow.closed \/ stale \/ ~Mergeable(asked[k].changes)
        /\ updating' = [updating EXCEPT ![h] = None]
        /\ toldStale' = IF ~workRow.closed /\ stale THEN toldStale \cup {k} ELSE toldStale
        /\ UNCHANGED <<workRow, history, asked, updateReceipts>>

BriefsNext ==
    \/ AppendNote \/ ChangeInitiative
    \/ \E k \in UpdateKeys : ComposeUpdate(k)
    \/ \E h \in Handlers, k \in UpdateKeys : BeginWorkUpdate(h, k)
    \/ \E h \in Handlers : CommitWorkUpdate(h) \/ RefuseWorkUpdate(h)

BriefsSpec == BriefsInit /\ [][BriefsNext]_briefVars

-----------------------------------------------------------------------------
(* Properties *)

BriefsTypeOK ==
    /\ workRow.version \in 1..MaxWorkVersion /\ workRow.closed \in BOOLEAN
    /\ Len(history) <= MaxHistory
    /\ \A i \in Checkpoints : \A j \in DOMAIN history[i].items :
            history[i].items[j] \in {u[j].item : u \in {v \in Updates : j \in DOMAIN v}}
    /\ updating \in [Handlers -> UpdateKeys \cup {None}]
    /\ updateReceipts \subseteq UpdateKeys /\ toldStale \subseteq UpdateKeys

\* Whoever records an update has read every activity that is before it, however
\* many others were adding theirs in the meantime (WORK_CONTEXT_STALE).
NothingUnread == \A i \in Checkpoints : history[i].read = i - 1

\* The checkpoint a brief shows is the last one recorded, and the activities it
\* reports since are those that came after it.
BriefIsNewest ==
    Checkpoints # {} =>
        /\ \A i \in Checkpoints : i <= NewestCheckpoint
        /\ Len(history) - history[NewestCheckpoint].count
             = Cardinality({i \in DOMAIN history : i > NewestCheckpoint})

\* "Omission never deletes an item".
OmissionKeepsItems ==
    [][\A i \in DOMAIN Items :
        /\ i \in DOMAIN Items'
        /\ Items'[i] # Items[i] => i \in DOMAIN history'[Len(history')].changes]_briefVars

\* "Or releases a hold": an item that is held or finished is another one only by an
\* update that names the decision, whoever has recorded what since the brief.
HoldsAreDecided ==
    [][\A i \in DOMAIN Items \cap DOMAIN Items' :
        Items[i].protected /\ Items'[i] # Items[i]
        => history'[Len(history')].changes[i].decided]_briefVars

\* An update that was answered WORK_CONTEXT_STALE, whose remedy is to send it under
\* a new key, has not been recorded and never is: "without it, the loser then hits
\* state-based refusals instead of replaying the winner's committed response".
StaleIsUnrecorded == toldStale \cap updateReceipts = {}

\* An update rests on a brief that had everything, is recorded once or refused for
\* good, and neither loses an item nor releases a hold.
BriefsSafe ==
    /\ [](BriefsTypeOK /\ NothingUnread /\ BriefIsNewest /\ StaleIsUnrecorded)
    /\ OmissionKeepsItems /\ HoldsAreDecided
=============================================================================

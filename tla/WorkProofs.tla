----------------------------- MODULE WorkProofs ------------------------------
(***************************************************************************)
(* Proofs about WORK and OBSERVE, each component on its own: the briefs    *)
(* and the updates that rest on them, initiatives and the decisions that   *)
(* close them, captures and their readers, the worker that looks for       *)
(* discrepancies; the observations with the freshness projected from them, *)
(* the coverage gaps with the work items they open, and the conditions of  *)
(* generated artifacts.                                                    *)
(***************************************************************************)
EXTENDS Briefs, Decisions, Captures, Discrepancies, Observations, Coverage, Conditions,
        FiniteSetTheorems, WellFoundedInduction, TLAPS

-----------------------------------------------------------------------------
(***************************************************************************)
(* Briefs: an update rests on a brief that had everything, and no item is  *)
(* lost and no hold released on the way.                                   *)
(***************************************************************************)
ItemValues == UNION {{u[i].item : i \in DOMAIN u} : u \in Updates}
ItemMaps == UNION {[named -> ItemValues] : named \in SUBSET ItemIds}
AskedFor(i) == {u[i].item : u \in {v \in Updates : i \in DOMAIN v}}

Activity ==
    {Note} \cup [items : ItemMaps, revision : Nat, count : Nat, changes : Updates, read : Nat]
Ask == [context : [version : Nat, count : Nat], read : Nat, changes : Updates]

BriefsTyped ==
    /\ workRow \in [version : 1..MaxWorkVersion, closed : BOOLEAN]
    /\ history \in Seq(Activity) /\ Len(history) <= MaxHistory
    /\ asked \in [UpdateKeys -> {None} \cup Ask]
    /\ updating \in [Handlers -> UpdateKeys \cup {None}]
    /\ updateReceipts \subseteq UpdateKeys /\ toldStale \subseteq UpdateKeys

\* A checkpoint is recorded by someone who had read all before it, and counts
\* itself; its items are as somebody asked.
CheckpointsCount ==
    \A i \in Checkpoints :
        /\ history[i].read = i - 1 /\ history[i].count = i
        /\ history[i].revision <= workRow.version
        /\ \A j \in DOMAIN history[i].items : history[i].items[j] \in AskedFor(j)

\* Checkpoints have growing revisions, and there is a last one.
RevisionsGrow ==
    \A i, j \in Checkpoints : i < j => history[i].revision < history[j].revision
LastIsThere ==
    Checkpoints # {} => \E i \in Checkpoints : \A j \in Checkpoints : j <= i

\* What is sent under a key was composed from a state that was before this one.
AskedBefore ==
    \A k \in UpdateKeys : asked[k] # None =>
        /\ asked[k].read = asked[k].context.count
        /\ asked[k].context.version <= workRow.version
        /\ asked[k].context.count <= Len(history)

\* The advisory lock: one delivery of a key is at work, and only without a receipt.
KeysHeld ==
    \A h \in Handlers : updating[h] # None =>
        /\ asked[updating[h]] # None /\ updating[h] \notin updateReceipts
        /\ \A g \in Handlers : updating[g] = updating[h] => g = h

\* A context that was stale is stale for good.
StaleStays ==
    \A k \in toldStale :
        asked[k] # None /\ asked[k].context # Context /\ k \notin updateReceipts

BriefsInv ==
    /\ BriefsTyped /\ CheckpointsCount /\ RevisionsGrow /\ LastIsThere
    /\ AskedBefore /\ KeysHeld /\ StaleStays

-----------------------------------------------------------------------------
(***************************************************************************)
(* Items, checkpoints and what a brief shows.                              *)
(***************************************************************************)
\* The bounds are numbers.
LEMMA Bounds == MaxHistory \in Nat /\ MaxWorkVersion \in Nat /\ 1 <= MaxWorkVersion
BY HistoryIsBounded

\* A checkpoint is no note.
LEMMA ActivityShapes ==
    ASSUME NEW a \in Activity
    PROVE  /\ a.items # None => a \in [items : ItemMaps, revision : Nat, count : Nat,
                                       changes : Updates, read : Nat]
           /\ a.items # None => a.revision \in Nat /\ a.items \in ItemMaps
BY DEF Activity, Note

\* The items of a checkpoint are never the absence of items.
LEMMA ItemsAreNotNone == None \notin ItemMaps
BY NoneIsNoItems DEF ItemMaps, ItemValues

\* The checkpoint of the highest revision is the last one.
ItemsAtLast ==
    \/ Checkpoints = {} /\ Items = <<>>
    \/ \E m \in Checkpoints :
          /\ \A j \in Checkpoints : j <= m
          /\ NewestCheckpoint = m /\ Items = history[m].items

\* So the items a brief shows are those of the last checkpoint.
LEMMA ItemsAreTheLast == BriefsInv => ItemsAtLast
<1> SUFFICES ASSUME BriefsInv, Checkpoints # {}
             PROVE  \E m \in Checkpoints :
                      /\ \A j \in Checkpoints : j <= m
                      /\ NewestCheckpoint = m /\ Items = history[m].items
  BY DEF Items, ItemsAtLast
<1>1. PICK m \in Checkpoints : \A j \in Checkpoints : j <= m
  BY DEF BriefsInv, LastIsThere
<1>2. \A i \in Checkpoints : i \in Nat /\ history[i].revision \in Nat
  <2> SUFFICES ASSUME NEW i \in Checkpoints PROVE i \in Nat /\ history[i].revision \in Nat
    OBVIOUS
  <2>1. i \in 1..Len(history) /\ history[i] \in Activity /\ history[i].items # None
    BY DEF Checkpoints, BriefsInv, BriefsTyped
  <2> QED
    BY <2>1, ActivityShapes
<1> DEFINE Newest(i) == \A j \in Checkpoints :
                \/ history[j].revision < history[i].revision
                \/ history[j].revision = history[i].revision /\ j <= i
<1>3. Newest(m)
  <2> SUFFICES ASSUME NEW j \in Checkpoints
               PROVE  \/ history[j].revision < history[m].revision
                      \/ history[j].revision = history[m].revision /\ j <= m
    OBVIOUS
  <2>1. CASE j = m
    BY <1>1, <2>1
  <2>2. CASE j # m
    <3>1. j < m
      BY <1>1, <1>2, <2>2
    <3> QED
      BY <3>1 DEF BriefsInv, RevisionsGrow
  <2> QED
    BY <2>1, <2>2
<1>4. ASSUME NEW i \in Checkpoints, Newest(i) PROVE i = m
  <2>1. \/ history[m].revision < history[i].revision
        \/ history[m].revision = history[i].revision /\ m <= i
    BY <1>4
  <2>2. CASE i # m
    <3>1. i < m
      BY <1>1, <1>2, <2>2
    <3>2. history[i].revision < history[m].revision
      BY <3>1 DEF BriefsInv, RevisionsGrow
    <3> QED
      BY <1>2, <2>1, <3>1, <3>2
  <2> QED
    BY <2>2
<1>5. NewestCheckpoint = m
  <2>1. NewestCheckpoint = CHOOSE i \in Checkpoints : Newest(i)
    BY DEF NewestCheckpoint
  <2> HIDE DEF Newest
  <2> QED
    BY <1>3, <1>4, <2>1
<1> QED
  BY <1>1, <1>5 DEF Items

\* What an update makes of the items: those it names as it says, the others as they
\* were.
LEMMA MergedItems ==
    ASSUME NEW changes
    PROVE  /\ DOMAIN Merged(changes) = DOMAIN changes \cup DOMAIN Items
           /\ \A i \in DOMAIN changes : Merged(changes)[i] = changes[i].item
           /\ \A i \in DOMAIN Items \ DOMAIN changes : Merged(changes)[i] = Items[i]
           /\ Merged(changes) = [i \in DOMAIN changes \cup DOMAIN Items |-> Merged(changes)[i]]
BY DEF Merged

\* Merged items are items somebody asked for.
LEMMA MergedIsTyped ==
    ASSUME BriefsInv, NEW changes \in Updates
    PROVE  /\ Merged(changes) \in ItemMaps
           /\ \A i \in DOMAIN Merged(changes) : Merged(changes)[i] \in AskedFor(i)
<1>1. DOMAIN Items \subseteq ItemIds /\ \A i \in DOMAIN Items : Items[i] \in AskedFor(i)
  <2>1. CASE Checkpoints = {} /\ Items = <<>>
    BY <2>1
  <2>2. CASE \E m \in Checkpoints : NewestCheckpoint = m /\ Items = history[m].items
    <3>1. PICK m \in Checkpoints : Items = history[m].items
      BY <2>2
    <3>2. history[m] \in Activity /\ history[m].items # None
      BY DEF Checkpoints, BriefsInv, BriefsTyped
    <3>3. history[m].items \in ItemMaps
      BY <3>2, ActivityShapes
    <3> QED
      BY <3>1, <3>3 DEF BriefsInv, CheckpointsCount, ItemMaps
  <2> QED
    BY <2>1, <2>2, ItemsAreTheLast DEF ItemsAtLast
<1>2. DOMAIN changes \subseteq ItemIds /\ \A i \in DOMAIN changes : changes[i].item \in AskedFor(i)
  BY UpdatesNameItems DEF AskedFor
<1>3. \A i \in DOMAIN Merged(changes) : Merged(changes)[i] \in AskedFor(i)
  BY <1>1, <1>2, MergedItems
<1>4. \A i : AskedFor(i) \subseteq ItemValues
  BY DEF AskedFor, ItemValues
<1>5. Merged(changes) \in ItemMaps
  <2> DEFINE named == DOMAIN changes \cup DOMAIN Items
  <2>1. named \in SUBSET ItemIds
    BY <1>1, <1>2
  <2>2. Merged(changes) \in [named -> ItemValues]
    BY <1>3, <1>4, MergedItems
  <2> HIDE DEF named
  <2> QED
    BY <2>1, <2>2 DEF ItemMaps
<1> QED
  BY <1>3, <1>5

-----------------------------------------------------------------------------
(***************************************************************************)
(* The steps that append to the history.                                   *)
(***************************************************************************)
\* The first state has it.
LEMMA BriefsInitHolds == BriefsInit => BriefsInv
<1> SUFFICES ASSUME BriefsInit PROVE BriefsInv
  OBVIOUS
<1>1. history = <<>> /\ Checkpoints = {}
  BY DEF BriefsInit, Checkpoints
<1>2. BriefsTyped
  BY Bounds DEF BriefsInit, BriefsTyped
<1> QED
  BY <1>1, <1>2 DEF BriefsInit, BriefsInv, CheckpointsCount, RevisionsGrow, LastIsThere,
     AskedBefore, KeysHeld, StaleStays

\* What appending does to the checkpoints there are.
LEMMA Appended ==
    ASSUME BriefsInv, NEW a \in Activity, history' = Append(history, a)
    PROVE  /\ Len(history) \in Nat /\ Len(history') = Len(history) + 1
           /\ history' \in Seq(Activity)
           /\ \A i \in 1..Len(history) : history'[i] = history[i]
           /\ history'[Len(history')] = a
           /\ Checkpoints \subseteq 1..Len(history)
           /\ Checkpoints' = IF a.items = None THEN Checkpoints
                             ELSE Checkpoints \cup {Len(history')}
<1>1. history \in Seq(Activity)
  BY DEF BriefsInv, BriefsTyped
<1>2. /\ Len(history) \in Nat /\ Len(history') = Len(history) + 1
      /\ history' \in Seq(Activity)
      /\ \A i \in 1..Len(history) : history'[i] = history[i]
      /\ history'[Len(history')] = a
  BY <1>1
<1>3. /\ DOMAIN history = 1..Len(history)
      /\ DOMAIN history' = (1..Len(history)) \cup {Len(history')}
  BY <1>1, <1>2
<1>4. Checkpoints \subseteq 1..Len(history)
  BY <1>3 DEF Checkpoints
<1>5. Checkpoints' = {i \in (1..Len(history)) \cup {Len(history')} : history'[i].items # None}
  BY <1>3 DEF Checkpoints
<1>6. Checkpoints = {i \in 1..Len(history) : history[i].items # None}
  BY <1>3 DEF Checkpoints
<1>7. Checkpoints' = IF a.items = None THEN Checkpoints
                     ELSE Checkpoints \cup {Len(history')}
  BY <1>2, <1>5, <1>6
<1> QED
  BY <1>2, <1>4, <1>7

\* A note makes every context stale and no checkpoint.
LEMMA AppendNoteStep == BriefsInv /\ AppendNote => BriefsInv'
<1> SUFFICES ASSUME BriefsInv, AppendNote PROVE BriefsInv'
  OBVIOUS
<1>1. Note \in Activity /\ Note.items = None
  BY DEF Activity, Note
<1>2. /\ history' = Append(history, Note) /\ Len(history) < MaxHistory
      /\ UNCHANGED <<workRow, asked, updating, updateReceipts, toldStale>>
  BY DEF AppendNote
<1>3. /\ Len(history) \in Nat /\ Len(history') = Len(history) + 1
      /\ history' \in Seq(Activity)
      /\ \A i \in 1..Len(history) : history'[i] = history[i]
      /\ Checkpoints \subseteq 1..Len(history) /\ Checkpoints' = Checkpoints
  BY <1>1, <1>2, Appended
<1>4. \A i \in Checkpoints' : i \in Checkpoints /\ history'[i] = history[i]
  BY <1>3
<1>5. BriefsTyped'
  BY <1>2, <1>3, Bounds DEF BriefsInv, BriefsTyped
<1>6. CheckpointsCount' /\ RevisionsGrow' /\ LastIsThere'
  BY <1>2, <1>3, <1>4 DEF BriefsInv, CheckpointsCount, RevisionsGrow, LastIsThere
<1>7. AskedBefore'
  <2> SUFFICES ASSUME NEW k \in UpdateKeys, asked[k] # None
               PROVE  /\ asked[k].read = asked[k].context.count
                      /\ asked[k].context.version <= workRow.version
                      /\ asked[k].context.count <= Len(history')
    BY <1>2 DEF AskedBefore
  <2>1. asked[k] \in Ask
    BY DEF BriefsInv, BriefsTyped
  <2> QED
    BY <1>3, <2>1 DEF BriefsInv, AskedBefore, Ask
<1>8. KeysHeld'
  BY <1>2 DEF BriefsInv, KeysHeld
<1>9. StaleStays'
  <2> SUFFICES ASSUME NEW k \in toldStale
               PROVE  asked[k] # None /\ asked[k].context # Context' /\ k \notin updateReceipts
    BY <1>2 DEF StaleStays
  <2>1. k \in UpdateKeys /\ asked[k] # None /\ k \notin updateReceipts /\ asked[k] \in Ask
    BY DEF BriefsInv, BriefsTyped, StaleStays
  <2>2. asked[k].context.count <= Len(history) /\ asked[k].context.count \in Nat
    BY <2>1 DEF BriefsInv, AskedBefore, Ask
  <2>3. Context'.count = Len(history) + 1
    BY <1>3 DEF Context
  <2> QED
    BY <1>3, <2>1, <2>2, <2>3
<1> QED
  BY <1>5, <1>6, <1>7, <1>8, <1>9 DEF BriefsInv

\* The checkpoint of an update that is recorded.
LEMMA CheckpointIsTyped ==
    ASSUME BriefsInv, NEW h \in Handlers, CommitWorkUpdate(h)
    PROVE  LET ask == asked[updating[h]]
           IN  /\ updating[h] \in UpdateKeys /\ ask \in Ask
               /\ ask.context = Context /\ ask.read = Len(history)
               /\ Len(history) \in Nat /\ workRow.version \in Nat
               /\ Checkpoint(ask) \in Activity
               /\ Checkpoint(ask).items = Merged(ask.changes)
               /\ Checkpoint(ask).items # None
<1> DEFINE k == updating[h]
           ask == asked[k]
<1>1. k \in UpdateKeys /\ ask # None /\ ask \in Ask /\ ask.context = Context
  BY DEF CommitWorkUpdate, BriefsInv, BriefsTyped, KeysHeld
<1>2. Len(history) \in Nat /\ workRow.version \in Nat
  BY Bounds DEF BriefsInv, BriefsTyped
<1>3. ask.read = Len(history)
  BY <1>1 DEF BriefsInv, AskedBefore, Context
<1>4. ask.changes \in Updates /\ ask.read \in Nat
  BY <1>1 DEF Ask
<1>5. Merged(ask.changes) \in ItemMaps
  BY <1>4, MergedIsTyped
<1>6. Checkpoint(ask) \in Activity
  <2> HIDE DEF ask
  <2> QED
    BY <1>2, <1>4, <1>5 DEF Checkpoint, Activity
<1>7. Checkpoint(ask).items = Merged(ask.changes)
  BY DEF Checkpoint
<1> QED
  BY <1>1, <1>2, <1>3, <1>5, <1>6, <1>7, ItemsAreNotNone

\* A recorded update is the last checkpoint, of the highest revision.
LEMMA CommitWorkUpdateStep ==
    ASSUME BriefsInv, NEW h \in Handlers, CommitWorkUpdate(h)
    PROVE  BriefsInv'
<1> DEFINE k == updating[h]
           ask == asked[k]
           a == Checkpoint(ask)
           n == Len(history)
<1>1. /\ k \in UpdateKeys /\ ask \in Ask /\ ask.context = Context /\ ask.read = n
      /\ n \in Nat /\ workRow.version \in Nat
      /\ a \in Activity /\ a.items = Merged(ask.changes) /\ a.items # None
  BY CheckpointIsTyped
<1>2. /\ k # None /\ n < MaxHistory /\ workRow.version < MaxWorkVersion
      /\ workRow' = [workRow EXCEPT !.version = workRow.version + 1]
      /\ history' = Append(history, a)
      /\ updateReceipts' = updateReceipts \cup {k}
      /\ updating' = [updating EXCEPT ![h] = None]
      /\ UNCHANGED <<asked, toldStale>>
  BY DEF CommitWorkUpdate
<1>3. a.revision = workRow.version + 1 /\ a.count = n + 1 /\ a.read = n
  BY <1>1 DEF Checkpoint
<1>4. \A j \in DOMAIN a.items : a.items[j] \in AskedFor(j)
  <2>1. ask.changes \in Updates
    BY <1>1 DEF Ask
  <2> QED
    BY <1>1, <2>1, MergedIsTyped
<1>5. updating \in [Handlers -> UpdateKeys \cup {None}]
  BY DEF BriefsInv, BriefsTyped
<1>6. \A g \in Handlers : updating'[g] = IF g = h THEN None ELSE updating[g]
  BY <1>2, <1>5
<1>7. workRow \in [version : 1..MaxWorkVersion, closed : BOOLEAN]
  BY DEF BriefsInv, BriefsTyped
<1>8. workRow'.version = workRow.version + 1 /\ workRow' \in [version : 1..MaxWorkVersion, closed : BOOLEAN]
  BY <1>1, <1>2, <1>7, Bounds
<1> HIDE DEF a
<1>9. /\ Len(history') = n + 1 /\ history' \in Seq(Activity)
      /\ \A i \in 1..n : history'[i] = history[i]
      /\ history'[n + 1] = a
      /\ Checkpoints \subseteq 1..n /\ Checkpoints' = Checkpoints \cup {n + 1}
  <2>1. Len(history') = n + 1
    BY <1>1, <1>2, Appended
  <2> QED
    BY <1>1, <1>2, <2>1, Appended
<1>10. \A i \in Checkpoints : history'[i] = history[i] /\ i \in 1..n
  BY <1>9
<1>11. BriefsTyped'
  BY <1>1, <1>2, <1>5, <1>8, <1>9, Bounds DEF BriefsInv, BriefsTyped
<1>12. \A i \in Checkpoints : history[i].revision \in Nat /\ history[i].revision <= workRow.version
  <2> SUFFICES ASSUME NEW i \in Checkpoints
               PROVE  history[i].revision \in Nat /\ history[i].revision <= workRow.version
    OBVIOUS
  <2>1. history[i] \in Activity /\ history[i].items # None
    BY DEF Checkpoints, BriefsInv, BriefsTyped
  <2> QED
    BY <2>1, ActivityShapes DEF BriefsInv, CheckpointsCount
<1>13. CheckpointsCount'
  <2> SUFFICES ASSUME NEW i \in Checkpoints'
               PROVE  /\ history'[i].read = i - 1 /\ history'[i].count = i
                      /\ history'[i].revision <= workRow'.version
                      /\ \A j \in DOMAIN history'[i].items : history'[i].items[j] \in AskedFor(j)
    BY DEF CheckpointsCount
  <2>1. CASE i \in Checkpoints
    <3>1. /\ history[i].read = i - 1 /\ history[i].count = i
          /\ \A j \in DOMAIN history[i].items : history[i].items[j] \in AskedFor(j)
      BY <2>1 DEF BriefsInv, CheckpointsCount
    <3>2. history[i].revision <= workRow'.version
      BY <1>1, <1>8, <1>12, <2>1
    <3> QED
      BY <1>10, <2>1, <3>1, <3>2
  <2>2. CASE i = n + 1
    BY <1>1, <1>3, <1>4, <1>8, <1>9, <2>2
  <2> QED
    BY <1>9, <2>1, <2>2
<1>14. RevisionsGrow'
  <2> SUFFICES ASSUME NEW i \in Checkpoints', NEW j \in Checkpoints', i < j
               PROVE  history'[i].revision < history'[j].revision
    BY DEF RevisionsGrow
  <2>1. CASE i \in Checkpoints /\ j \in Checkpoints
    BY <1>10, <2>1 DEF BriefsInv, RevisionsGrow
  <2>2. CASE i \in Checkpoints /\ j = n + 1
    BY <1>1, <1>3, <1>9, <1>10, <1>12, <2>2
  <2>3. CASE i = n + 1
    BY <1>1, <1>9, <1>10, <2>3
  <2> QED
    BY <1>9, <2>1, <2>2, <2>3
<1>15. LastIsThere'
  BY <1>1, <1>9, <1>10 DEF LastIsThere
<1>16. AskedBefore'
  <2> SUFFICES ASSUME NEW j \in UpdateKeys, asked[j] # None
               PROVE  /\ asked[j].read = asked[j].context.count
                      /\ asked[j].context.version <= workRow'.version
                      /\ asked[j].context.count <= Len(history')
    BY <1>2 DEF AskedBefore
  <2>1. asked[j] \in Ask
    BY DEF BriefsInv, BriefsTyped
  <2> QED
    BY <1>1, <1>8, <1>9, <2>1 DEF BriefsInv, AskedBefore, Ask
<1>17. KeysHeld'
  BY <1>2, <1>6 DEF BriefsInv, KeysHeld
<1>18. StaleStays'
  <2> SUFFICES ASSUME NEW j \in toldStale
               PROVE  asked[j] # None /\ asked[j].context # Context' /\ j \notin updateReceipts'
    BY <1>2 DEF StaleStays
  <2>1. j \in UpdateKeys /\ asked[j] # None /\ j \notin updateReceipts /\ asked[j] \in Ask
    BY DEF BriefsInv, BriefsTyped, StaleStays
  <2>2. j # k
    BY <1>1 DEF BriefsInv, StaleStays
  <2>3. asked[j].context.count <= n /\ asked[j].context.count \in Nat
    BY <2>1 DEF BriefsInv, AskedBefore, Ask
  <2>4. Context'.count = n + 1
    BY <1>9 DEF Context
  <2> QED
    BY <1>1, <1>2, <2>1, <2>2, <2>3, <2>4
<1> QED
  BY <1>11, <1>13, <1>14, <1>15, <1>16, <1>17, <1>18 DEF BriefsInv

-----------------------------------------------------------------------------
(***************************************************************************)
(* The other steps.                                                        *)
(***************************************************************************)
\* A transition makes every context stale.
LEMMA ChangeInitiativeStep == BriefsInv /\ ChangeInitiative => BriefsInv'
<1> SUFFICES ASSUME BriefsInv, ChangeInitiative PROVE BriefsInv'
  OBVIOUS
<1>1. /\ workRow \in [version : 1..MaxWorkVersion, closed : BOOLEAN]
      /\ workRow.version < MaxWorkVersion
      /\ UNCHANGED <<history, asked, updating, updateReceipts, toldStale>>
  BY DEF ChangeInitiative, BriefsInv, BriefsTyped
<1>2. /\ workRow' \in [version : 1..MaxWorkVersion, closed : BOOLEAN]
      /\ workRow'.version = workRow.version + 1 /\ workRow.version \in Nat
  BY <1>1, Bounds DEF ChangeInitiative
<1>3. BriefsTyped'
  BY <1>1, <1>2 DEF BriefsInv, BriefsTyped
<1>4. Checkpoints' = Checkpoints
  BY <1>1 DEF Checkpoints
<1>5. CheckpointsCount'
  <2> SUFFICES ASSUME NEW i \in Checkpoints
               PROVE  /\ history[i].read = i - 1 /\ history[i].count = i
                      /\ history[i].revision <= workRow'.version
                      /\ \A j \in DOMAIN history[i].items : history[i].items[j] \in AskedFor(j)
    BY <1>1, <1>4 DEF CheckpointsCount
  <2>1. history[i] \in Activity /\ history[i].items # None
    BY DEF Checkpoints, BriefsInv, BriefsTyped
  <2>2. history[i].revision \in Nat
    BY <2>1, ActivityShapes
  <2> QED
    BY <1>2, <2>2 DEF BriefsInv, CheckpointsCount
<1>6. RevisionsGrow' /\ LastIsThere'
  BY <1>1, <1>4 DEF BriefsInv, RevisionsGrow, LastIsThere
<1>7. AskedBefore'
  <2> SUFFICES ASSUME NEW k \in UpdateKeys, asked[k] # None
               PROVE  /\ asked[k].read = asked[k].context.count
                      /\ asked[k].context.version <= workRow'.version
                      /\ asked[k].context.count <= Len(history)
    BY <1>1 DEF AskedBefore
  <2>1. asked[k] \in Ask
    BY DEF BriefsInv, BriefsTyped
  <2> QED
    BY <1>2, <2>1 DEF BriefsInv, AskedBefore, Ask
<1>8. KeysHeld'
  BY <1>1 DEF BriefsInv, KeysHeld
<1>9. StaleStays'
  <2> SUFFICES ASSUME NEW k \in toldStale
               PROVE  asked[k] # None /\ asked[k].context # Context' /\ k \notin updateReceipts
    BY <1>1 DEF StaleStays
  <2>1. k \in UpdateKeys /\ asked[k] # None /\ k \notin updateReceipts /\ asked[k] \in Ask
    BY DEF BriefsInv, BriefsTyped, StaleStays
  <2>2. asked[k].context.version <= workRow.version /\ asked[k].context.version \in Nat
    BY <2>1 DEF BriefsInv, AskedBefore, Ask
  <2>3. Context'.version = workRow.version + 1
    BY <1>2 DEF Context
  <2> QED
    BY <1>2, <2>1, <2>2, <2>3
<1> QED
  BY <1>3, <1>5, <1>6, <1>7, <1>8, <1>9 DEF BriefsInv

\* An update is composed from the context of now.
LEMMA ComposeUpdateStep ==
    ASSUME BriefsInv, NEW k \in UpdateKeys, ComposeUpdate(k)
    PROVE  BriefsInv'
<1>1. /\ asked[k] = None
      /\ UNCHANGED <<workRow, history, updating, updateReceipts, toldStale>>
      /\ asked \in [UpdateKeys -> {None} \cup Ask]
  BY DEF ComposeUpdate, BriefsInv, BriefsTyped
<1>2. PICK changes \in Updates :
        asked' = [asked EXCEPT ![k] =
                     [context |-> Context, read |-> Len(history), changes |-> changes]]
  BY DEF ComposeUpdate
<1> DEFINE ask == [context |-> Context, read |-> Len(history), changes |-> changes]
<1>3. Len(history) \in Nat /\ workRow.version \in Nat
  BY Bounds DEF BriefsInv, BriefsTyped
<1>4. /\ ask \in Ask /\ ask.read = Len(history)
      /\ ask.context.version = workRow.version /\ ask.context.count = Len(history)
  BY <1>3 DEF Ask, Context
<1>5. asked' = [asked EXCEPT ![k] = ask]
  BY <1>2
<1> HIDE DEF ask
<1>6. \A j \in UpdateKeys : asked'[j] = IF j = k THEN ask ELSE asked[j]
  BY <1>1, <1>5
<1>7. BriefsTyped'
  BY <1>1, <1>4, <1>5 DEF BriefsInv, BriefsTyped
<1>8. Checkpoints' = Checkpoints /\ Context' = Context
  BY <1>1 DEF Checkpoints, Context
<1>9. CheckpointsCount' /\ RevisionsGrow' /\ LastIsThere'
  BY <1>1, <1>8 DEF BriefsInv, CheckpointsCount, RevisionsGrow, LastIsThere
<1>10. AskedBefore'
  BY <1>1, <1>3, <1>4, <1>6 DEF BriefsInv, AskedBefore
<1>11. \A j \in UpdateKeys : asked[j] # None => asked'[j] = asked[j]
  BY <1>1, <1>6
<1>12. KeysHeld'
  <2>1. \A h \in Handlers : updating[h] # None => updating[h] \in UpdateKeys
    BY DEF BriefsInv, BriefsTyped
  <2> QED
    BY <1>1, <1>11, <2>1 DEF BriefsInv, KeysHeld
<1>13. StaleStays'
  <2>1. toldStale \subseteq UpdateKeys
    BY DEF BriefsInv, BriefsTyped
  <2> QED
    BY <1>1, <1>8, <1>11, <2>1 DEF BriefsInv, StaleStays
<1> QED
  BY <1>7, <1>9, <1>10, <1>12, <1>13 DEF BriefsInv

\* A key without a receipt is taken by one handler.
LEMMA BeginWorkUpdateStep ==
    ASSUME BriefsInv, NEW h \in Handlers, NEW k \in UpdateKeys, BeginWorkUpdate(h, k)
    PROVE  BriefsInv'
<1>1. /\ updating[h] = None /\ asked[k] # None /\ k \notin updateReceipts
      /\ \A g \in Handlers : updating[g] # k
      /\ updating' = [updating EXCEPT ![h] = k]
      /\ UNCHANGED <<workRow, history, asked, updateReceipts, toldStale>>
      /\ updating \in [Handlers -> UpdateKeys \cup {None}]
  BY DEF BeginWorkUpdate, UpdateKeyFree, BriefsInv, BriefsTyped
<1>2. \A g \in Handlers : updating'[g] = IF g = h THEN k ELSE updating[g]
  BY <1>1
<1>3. BriefsTyped'
  BY <1>1 DEF BriefsInv, BriefsTyped
<1>4. Checkpoints' = Checkpoints /\ Context' = Context
  BY <1>1 DEF Checkpoints, Context
<1>5. CheckpointsCount' /\ RevisionsGrow' /\ LastIsThere' /\ AskedBefore' /\ StaleStays'
  BY <1>1, <1>4 DEF BriefsInv, CheckpointsCount, RevisionsGrow, LastIsThere, AskedBefore, StaleStays
<1>6. KeysHeld'
  BY <1>1, <1>2 DEF BriefsInv, KeysHeld
<1> QED
  BY <1>3, <1>5, <1>6 DEF BriefsInv

\* A refused update records nothing, and a stale one stays stale.
LEMMA RefuseWorkUpdateStep ==
    ASSUME BriefsInv, NEW h \in Handlers, RefuseWorkUpdate(h)
    PROVE  BriefsInv'
<1> DEFINE k == updating[h]
<1>1. /\ k # None /\ k \in UpdateKeys /\ asked[k] # None /\ k \notin updateReceipts
      /\ updating' = [updating EXCEPT ![h] = None]
      /\ toldStale' \in {toldStale, toldStale \cup {k}}
      /\ asked[k].context = Context => toldStale' = toldStale
      /\ UNCHANGED <<workRow, history, asked, updateReceipts>>
      /\ updating \in [Handlers -> UpdateKeys \cup {None}]
  BY DEF RefuseWorkUpdate, BriefsInv, BriefsTyped, KeysHeld
<1>2. \A g \in Handlers : updating'[g] = IF g = h THEN None ELSE updating[g]
  BY <1>1
<1>3. BriefsTyped'
  BY <1>1 DEF BriefsInv, BriefsTyped
<1>4. Checkpoints' = Checkpoints /\ Context' = Context
  BY <1>1 DEF Checkpoints, Context
<1>5. CheckpointsCount' /\ RevisionsGrow' /\ LastIsThere' /\ AskedBefore'
  BY <1>1, <1>4 DEF BriefsInv, CheckpointsCount, RevisionsGrow, LastIsThere, AskedBefore
<1>6. KeysHeld'
  BY <1>1, <1>2 DEF BriefsInv, KeysHeld
<1>7. StaleStays'
  BY <1>1, <1>4 DEF BriefsInv, StaleStays
<1> QED
  BY <1>3, <1>5, <1>6, <1>7 DEF BriefsInv

\* Every step keeps the invariant.
LEMMA NextKeepsInv == BriefsInv /\ [BriefsNext]_briefVars => BriefsInv'
<1> SUFFICES ASSUME BriefsInv, [BriefsNext]_briefVars PROVE BriefsInv'
  OBVIOUS
<1>1. CASE AppendNote
  BY <1>1, AppendNoteStep
<1>2. CASE ChangeInitiative
  BY <1>2, ChangeInitiativeStep
<1>3. ASSUME NEW k \in UpdateKeys, ComposeUpdate(k) PROVE BriefsInv'
  BY <1>3, ComposeUpdateStep
<1>4. ASSUME NEW h \in Handlers, NEW k \in UpdateKeys, BeginWorkUpdate(h, k) PROVE BriefsInv'
  BY <1>4, BeginWorkUpdateStep
<1>5. ASSUME NEW h \in Handlers, CommitWorkUpdate(h) PROVE BriefsInv'
  BY <1>5, CommitWorkUpdateStep
<1>6. ASSUME NEW h \in Handlers, RefuseWorkUpdate(h) PROVE BriefsInv'
  BY <1>6, RefuseWorkUpdateStep
<1>7. CASE UNCHANGED briefVars
  BY <1>7 DEF briefVars, BriefsInv, BriefsTyped, CheckpointsCount, RevisionsGrow, LastIsThere,
     AskedBefore, KeysHeld, StaleStays, Checkpoints, Context
<1> QED
  BY <1>1, <1>2, <1>3, <1>4, <1>5, <1>6, <1>7 DEF BriefsNext

-----------------------------------------------------------------------------
(***************************************************************************)
(* What the initiative can rely on.                                        *)
(***************************************************************************)
\* Every state has the inductive invariant.
THEOREM BriefsInvariant == BriefsSpec => []BriefsInv
<1>1. BriefsInit => BriefsInv
  BY BriefsInitHolds
<1>2. BriefsInv /\ [BriefsNext]_briefVars => BriefsInv'
  BY NextKeepsInv
<1> QED
  BY <1>1, <1>2, PTL DEF BriefsSpec

\* The last checkpoint counts up to itself, so the activities that came after it
\* are as many as a brief reports.
LEMMA NewestFromInv == BriefsInv => BriefIsNewest
<1> SUFFICES ASSUME BriefsInv, Checkpoints # {}
             PROVE  /\ \A i \in Checkpoints : i <= NewestCheckpoint
                    /\ Len(history) - history[NewestCheckpoint].count
                         = Cardinality({i \in DOMAIN history : i > NewestCheckpoint})
  BY DEF BriefIsNewest
<1>1. PICK m \in Checkpoints : /\ \A j \in Checkpoints : j <= m
                              /\ NewestCheckpoint = m
  BY ItemsAreTheLast DEF ItemsAtLast
<1>2. history \in Seq(Activity) /\ Len(history) \in Nat /\ DOMAIN history = 1..Len(history)
  BY DEF BriefsInv, BriefsTyped
<1>3. m \in 1..Len(history) /\ history[m].count = m
  BY <1>2 DEF Checkpoints, BriefsInv, CheckpointsCount
<1>4. {i \in DOMAIN history : i > m} = (m + 1)..Len(history)
  BY <1>2, <1>3
<1>5. Cardinality((m + 1)..Len(history)) = Len(history) - m
  <2>1. m + 1 \in Int /\ Len(history) \in Int
    BY <1>2, <1>3
  <2>2. Cardinality((m + 1)..Len(history))
           = IF m + 1 > Len(history) THEN 0 ELSE Len(history) - (m + 1) + 1
    BY <2>1, FS_Interval
  <2> QED
    BY <1>2, <1>3, <2>2
<1> QED
  BY <1>1, <1>3, <1>4, <1>5

\* The parts of BriefsSafe that speak of one state.
LEMMA StateFromInv == BriefsInv => BriefsTypeOK /\ NothingUnread /\ BriefIsNewest /\ StaleIsUnrecorded
<1> SUFFICES ASSUME BriefsInv PROVE BriefsTypeOK /\ NothingUnread /\ StaleIsUnrecorded
  BY NewestFromInv
<1>1. BriefsTypeOK
  BY DEF BriefsInv, BriefsTyped, CheckpointsCount, AskedFor, BriefsTypeOK
<1>2. NothingUnread
  BY DEF BriefsInv, CheckpointsCount, NothingUnread
<1>3. StaleIsUnrecorded
  BY DEF BriefsInv, StaleStays, StaleIsUnrecorded
<1> QED
  BY <1>1, <1>2, <1>3

\* Omission never deletes an item, in one step.
KeepsItems ==
    \A i \in DOMAIN Items :
        /\ i \in DOMAIN Items'
        /\ Items'[i] # Items[i] => i \in DOMAIN history'[Len(history')].changes

\* Nor does it release a hold.
KeepsHolds ==
    \A i \in DOMAIN Items \cap DOMAIN Items' :
        Items[i].protected /\ Items'[i] # Items[i]
        => history'[Len(history')].changes[i].decided

\* The items change with the checkpoints only.
LEMMA SameItems ==
    ASSUME BriefsInv, BriefsInv', Checkpoints' = Checkpoints,
           \A i \in Checkpoints : history'[i] = history[i]
    PROVE  Items' = Items
<1>1. CASE Checkpoints = {}
  <2>1. Checkpoints' = {}
    BY <1>1
  <2>2. Items = <<>> /\ Items' = <<>>
    BY <1>1, <2>1 DEF Items
  <2> QED
    BY <2>2
<1>2. CASE Checkpoints # {}
  <2>1. PICK m \in Checkpoints : /\ \A j \in Checkpoints : j <= m
                                /\ Items = history[m].items
    BY <1>2, ItemsAreTheLast DEF ItemsAtLast
  <2>2. Checkpoints' # {}
    BY <1>2
  <2>3. ItemsAtLast'
    BY ItemsAreTheLast, PTL
  <2>4. PICK n \in Checkpoints' : /\ \A j \in Checkpoints' : j <= n
                                 /\ Items' = history'[n].items
    BY <2>2, <2>3 DEF ItemsAtLast
  <2>5. m \in Nat /\ n \in Nat
    <3>1. DOMAIN history = 1..Len(history) /\ Len(history) \in Nat
      BY DEF BriefsInv, BriefsTyped
    <3> QED
      BY <2>1, <2>4, <3>1 DEF Checkpoints
  <2>6. m = n
    BY <2>1, <2>4, <2>5
  <2> QED
    BY <2>1, <2>4, <2>6
<1> QED
  BY <1>1, <1>2

\* An update that is recorded makes the items what it says, merged.
LEMMA CommittedItems ==
    ASSUME BriefsInv, BriefsInv', NEW h \in Handlers, CommitWorkUpdate(h)
    PROVE  LET ask == asked[updating[h]]
           IN  /\ Items' = Merged(ask.changes)
               /\ history'[Len(history')].changes = ask.changes
               /\ ask.changes \in Updates /\ Mergeable(ask.changes)
<1> DEFINE ask == asked[updating[h]]
           a == Checkpoint(ask)
<1>1. /\ ask \in Ask /\ a \in Activity /\ a.items = Merged(ask.changes) /\ a.items # None
      /\ Len(history) \in Nat
  BY CheckpointIsTyped
<1>2. history' = Append(history, a) /\ Mergeable(ask.changes)
  BY DEF CommitWorkUpdate
<1>3. ask.changes \in Updates
  BY <1>1 DEF Ask
<1>4. a.changes = ask.changes
  BY DEF Checkpoint
<1> HIDE DEF a
<1>5. /\ Len(history') = Len(history) + 1 /\ history'[Len(history')] = a
      /\ Checkpoints \subseteq 1..Len(history)
      /\ Checkpoints' = Checkpoints \cup {Len(history')}
  BY <1>1, <1>2, Appended
<1>6. ItemsAtLast'
  BY ItemsAreTheLast, PTL
<1>7. PICK n \in Checkpoints' : /\ \A j \in Checkpoints' : j <= n
                               /\ Items' = history'[n].items
  BY <1>5, <1>6 DEF ItemsAtLast
<1>8. n = Len(history')
  <2>1. Checkpoints \subseteq 1..Len(history) /\ Len(history) \in Nat
        /\ Len(history') = Len(history) + 1
        /\ n \in Checkpoints \cup {Len(history')} /\ Len(history') <= n
    BY <1>1, <1>5, <1>7
  <2> QED
    BY <2>1
<1> QED
  BY <1>1, <1>2, <1>3, <1>4, <1>5, <1>7, <1>8

\* No step loses an item or releases a hold undecided.
LEMMA StepKeeps == BriefsInv /\ BriefsInv' /\ [BriefsNext]_briefVars => KeepsItems /\ KeepsHolds
<1> SUFFICES ASSUME BriefsInv, BriefsInv', [BriefsNext]_briefVars PROVE KeepsItems /\ KeepsHolds
  OBVIOUS
<1>1. ASSUME Items' = Items PROVE KeepsItems /\ KeepsHolds
  BY <1>1 DEF KeepsItems, KeepsHolds
<1>2. CASE AppendNote
  <2>1. Note \in Activity /\ Note.items = None
    BY DEF Activity, Note
  <2>2. history' = Append(history, Note)
    BY <1>2 DEF AppendNote
  <2>3. Checkpoints' = Checkpoints /\ \A i \in Checkpoints : history'[i] = history[i]
    BY <2>1, <2>2, Appended
  <2> QED
    BY <1>1, <2>3, SameItems
<1>3. CASE UNCHANGED history
  <2>1. Checkpoints' = Checkpoints /\ \A i \in Checkpoints : history'[i] = history[i]
    BY <1>3 DEF Checkpoints
  <2> QED
    BY <1>1, <2>1, SameItems
<1>4. ASSUME NEW h \in Handlers, CommitWorkUpdate(h) PROVE KeepsItems /\ KeepsHolds
  <2> DEFINE changes == asked[updating[h]].changes
  <2>1. /\ Items' = Merged(changes) /\ history'[Len(history')].changes = changes
        /\ Mergeable(changes)
    BY <1>4, CommittedItems
  <2> HIDE DEF changes
  <2>2. /\ DOMAIN Merged(changes) = DOMAIN changes \cup DOMAIN Items
        /\ \A i \in DOMAIN changes : Merged(changes)[i] = changes[i].item
        /\ \A i \in DOMAIN Items \ DOMAIN changes : Merged(changes)[i] = Items[i]
    BY MergedItems
  <2>3. KeepsItems
    BY <2>1, <2>2 DEF KeepsItems
  <2>4. KeepsHolds
    <3> SUFFICES ASSUME NEW i \in DOMAIN Items, Items[i].protected,
                        Merged(changes)[i] # Items[i]
                 PROVE  changes[i].decided
      BY <2>1 DEF KeepsHolds
    <3>1. i \in DOMAIN changes /\ changes[i].item # Items[i]
      BY <2>2
    <3> QED
      BY <2>1, <3>1 DEF Mergeable
  <2> QED
    BY <2>3, <2>4
<1> QED
  BY <1>2, <1>3, <1>4 DEF BriefsNext, briefVars, ChangeInitiative, ComposeUpdate,
     BeginWorkUpdate, RefuseWorkUpdate

\* An update rests on a brief that had everything, is recorded once or refused for
\* good, and neither loses an item nor releases a hold.
THEOREM UpdatesAreSafe == BriefsSpec => BriefsSafe
<1>1. BriefsInv => BriefsTypeOK /\ NothingUnread /\ BriefIsNewest /\ StaleIsUnrecorded
  BY StateFromInv
<1>2. BriefsInv /\ BriefsInv' /\ [BriefsNext]_briefVars => [KeepsItems]_briefVars /\ [KeepsHolds]_briefVars
  BY StepKeeps
<1>3. [][KeepsItems]_briefVars => OmissionKeepsItems
  BY PTL DEF KeepsItems, OmissionKeepsItems
<1>4. [][KeepsHolds]_briefVars => HoldsAreDecided
  BY PTL DEF KeepsHolds, HoldsAreDecided
<1>5. BriefsSpec => []BriefsInv
  BY BriefsInvariant
<1> QED
  BY <1>1, <1>2, <1>3, <1>4, <1>5, PTL DEF BriefsSpec, BriefsSafe

-----------------------------------------------------------------------------
(***************************************************************************)
(* Initiatives and Decisions: any number of handlers that read, and write  *)
(* by the version they read.                                               *)
(***************************************************************************)
WorkingStates ==
    {NotWorking}
    \cup [stage : {"working"}, initiative : DOMAIN initiatives, expected : Nat \ {0},
          answers : [Domains -> Answer]]

Closing == [version : Nat, answers : [Domains -> Answer]]

\* What a caller read is what the row says, for as long as the version is the same.
ReadStands ==
    \A h \in Handlers : working[h] # NotWorking =>
        LET row == initiatives[working[h].initiative]
        IN  /\ working[h].expected <= row.version
            /\ working[h].expected = row.version => working[h].answers = row.answers

\* An initiative is closed once, at a version that it has reached; before, it has
\* no deferrals.
ClosedOnce ==
    \A i \in DOMAIN initiatives :
        /\ Complete(i) => closings[i] \in Closing /\ closings[i].version <= initiatives[i].version
        /\ ~Complete(i) => \A g \in deferrals : g[1] # i

InitInv ==
    /\ InitiativesTypeOK /\ working \in [Handlers -> WorkingStates]
    /\ ReadStands /\ ClosedOnce
    /\ ClosedAnswered /\ ClosedAsRead /\ ClosureStands

-----------------------------------------------------------------------------
\* The rows and the fields of a handler's record.
LEMMA InitiativeShapes ==
    ASSUME InitInv
    PROVE  /\ DOMAIN initiatives = 1..Len(initiatives) /\ Len(initiatives) \in Nat
           /\ DOMAIN closings = DOMAIN initiatives /\ initiatives \in Seq(InitiativeRow)
           /\ \A i \in DOMAIN initiatives : initiatives[i] \in InitiativeRow
           /\ NotWorking.stage = "idle"
           /\ \A h \in Handlers : working[h] # NotWorking =>
                 /\ working[h].stage = "working" /\ working[h].initiative \in DOMAIN initiatives
                 /\ working[h].expected \in Nat \ {0}
                 /\ working[h].answers \in [Domains -> Answer]
BY DEF InitInv, InitiativesTypeOK, WorkingStates, NotWorking

\* Answers that are given or recorded are answers, and none is lost.
LEMMA EffectiveKeeps ==
    ASSUME NEW recorded \in [Domains -> Answer], NEW given \in [Domains -> Answers]
    PROVE  /\ Effective(recorded, given) \in [Domains -> Answer]
           /\ \A d \in Domains : recorded[d].disposition # None
                                 => Effective(recorded, given)[d].disposition # None
<1>1. \A d \in Domains : given[d].disposition \in Dispositions \cup {None}
                         /\ given[d].noted \in BOOLEAN
  BY AnswersAreAnswers
<1>2. \A d \in Domains : recorded[d].disposition \in Dispositions \cup {None}
                         /\ recorded[d].noted \in BOOLEAN
  BY DEF Answer
<1>3. ASSUME NEW d \in Domains
      PROVE  /\ Effective(recorded, given)[d] \in Answer
             /\ recorded[d].disposition # None => Effective(recorded, given)[d].disposition # None
  <2>1. (given[d].noted \/ recorded[d].noted) \in BOOLEAN
    OBVIOUS
  <2> DEFINE what == IF given[d].disposition # None THEN given[d].disposition
                     ELSE recorded[d].disposition
             said == given[d].noted \/ recorded[d].noted
  <2>2. what \in Dispositions \cup {None} /\ said \in BOOLEAN
    BY <1>1, <1>2
  <2>3. Effective(recorded, given)[d] = [disposition |-> what, noted |-> said]
    BY DEF Effective
  <2>4. recorded[d].disposition # None => what # None
    OBVIOUS
  <2> HIDE DEF what, said
  <2> QED
    BY <2>2, <2>3, <2>4 DEF Answer
<1> QED
  BY <1>3 DEF Effective

\* A row is written under its lock by who has read it, and has another version; its
\* closure, if it has one, is the one that was or the one of this write.
LEMMA WrittenRow ==
    ASSUME InitInv, NEW h \in Handlers, NEW i \in DOMAIN initiatives,
           NEW row \in InitiativeRow,
           Fresh(h), i = working[h].initiative,
           initiatives' = [initiatives EXCEPT ![i] = row],
           row.version = initiatives[i].version + 1,
           working' = [working EXCEPT ![h] = NotWorking],
           \/ /\ row.state # "COMPLETE" /\ ~Complete(i)
              /\ UNCHANGED <<deferrals, closings>>
           \/ /\ row.state = "COMPLETE" /\ Complete(i)
              /\ \A d \in Domains : row.answers[d].disposition # None
              /\ UNCHANGED <<deferrals, closings>>
           \/ /\ row.state = "COMPLETE" /\ ~Complete(i)
              /\ MayClose(row, row.answers)
              /\ deferrals' = deferrals \cup Deferred(i, row.answers)
              /\ closings' = [closings EXCEPT ![i] =
                     [version |-> row.version, answers |-> row.answers]]
    PROVE  InitInv'
<1>1. /\ initiatives' \in Seq(InitiativeRow) /\ DOMAIN initiatives' = DOMAIN initiatives
      /\ Len(initiatives') = Len(initiatives)
      /\ \A j \in DOMAIN initiatives : initiatives'[j] = IF j = i THEN row ELSE initiatives[j]
      /\ initiatives[i].version \in Nat /\ initiatives[i].version < row.version
      /\ row.answers \in [Domains -> Answer] /\ row.version \in Nat
  BY InitiativeShapes DEF InitiativeRow
<1>2. working' \in [Handlers -> WorkingStates']
  <2>1. WorkingStates' = WorkingStates
    BY <1>1 DEF WorkingStates
  <2>2. NotWorking \in WorkingStates
    BY DEF WorkingStates
  <2> QED
    BY <2>1, <2>2 DEF InitInv
<1>3. /\ closings' \in Seq(Closing \cup {None}) /\ Len(closings') = Len(closings)
      /\ \A j \in DOMAIN initiatives \ {i} : closings'[j] = closings[j]
  <2>1. [version |-> row.version, answers |-> row.answers] \in Closing
    BY <1>1 DEF Closing
  <2>2. PICK closing \in Closing : closing = [version |-> row.version, answers |-> row.answers]
    BY <2>1
  <2>3. closings \in Seq(Closing \cup {None}) /\ i \in DOMAIN closings
        /\ DOMAIN closings = DOMAIN initiatives
    BY InitiativeShapes DEF InitInv, InitiativesTypeOK, Closing
  <2>4. closings' = closings \/ closings' = [closings EXCEPT ![i] = closing]
    BY <2>2
  <2> QED
    BY <2>3, <2>4
<1>4. /\ deferrals' \subseteq (DOMAIN initiatives) \X Domains
      /\ \A j \in DOMAIN initiatives \ {i} : \A g \in deferrals' : g[1] = j <=> g \in deferrals /\ g[1] = j
  BY DEF InitInv, InitiativesTypeOK, Deferred
<1>5. InitiativesTypeOK'
  <2>1. \A g \in Handlers : working'[g].stage \in {"idle", "working"}
    BY InitiativeShapes DEF InitInv, InitiativesTypeOK
  <2> QED
    BY <1>1, <1>3, <1>4, <2>1 DEF InitInv, InitiativesTypeOK, Closing
<1>6. ReadStands'
  <2> SUFFICES ASSUME NEW g \in Handlers, working'[g] # NotWorking
               PROVE  LET r == initiatives'[working'[g].initiative]
                      IN  /\ working'[g].expected <= r.version
                          /\ working'[g].expected = r.version => working'[g].answers = r.answers
    BY DEF ReadStands
  <2>1. working'[g] = working[g] /\ working[g] # NotWorking
    BY DEF InitInv
  <2>2. working[g].initiative \in DOMAIN initiatives /\ working[g].expected \in Nat
    BY <2>1, InitiativeShapes
  <2>3. working[g].expected <= initiatives[working[g].initiative].version
        /\ (working[g].expected = initiatives[working[g].initiative].version =>
                working[g].answers = initiatives[working[g].initiative].answers)
    BY <2>1 DEF InitInv, ReadStands
  <2>4. CASE working[g].initiative = i
    BY <1>1, <2>1, <2>2, <2>3, <2>4
  <2>5. CASE working[g].initiative # i
    BY <1>1, <2>1, <2>2, <2>3, <2>5
  <2> QED
    BY <2>4, <2>5
<1>7. ASSUME NEW j \in DOMAIN initiatives, j # i
      PROVE  /\ Complete(j)' <=> Complete(j)
             /\ closings'[j] = closings[j] /\ initiatives'[j] = initiatives[j]
             /\ {g \in deferrals' : g[1] = j} = {g \in deferrals : g[1] = j}
  BY <1>1, <1>3, <1>4, <1>7 DEF Complete
<1>8. Complete(i)' <=> row.state = "COMPLETE"
  BY <1>1 DEF Complete
<1>9. CASE Complete(i)
  <2>1. closings'[i] = closings[i] /\ deferrals' = deferrals /\ row.state = "COMPLETE"
        /\ closings[i] \in Closing /\ closings[i].version <= initiatives[i].version
    BY <1>9 DEF InitInv, ClosedOnce
  <2>2. closings'[i].version # initiatives'[i].version
        /\ closings'[i].version <= initiatives'[i].version
    BY <1>1, <2>1 DEF Closing
  <2>3. ClosedOnce'
    BY <1>1, <1>7, <1>8, <2>1, <2>2 DEF InitInv, ClosedOnce
  <2>4. ClosedAnswered'
    BY <1>1, <1>7, <1>9 DEF InitInv, ClosedAnswered
  <2>5. ClosedAsRead'
    BY <1>1, <1>7, <2>2 DEF InitInv, ClosedAsRead
  <2>6. ClosureStands'
    BY <1>1, <1>7, <2>2 DEF InitInv, ClosureStands, Deferred
  <2> QED
    BY <1>2, <1>5, <1>6, <2>3, <2>4, <2>5, <2>6 DEF InitInv
<1>10. CASE ~Complete(i) /\ row.state # "COMPLETE"
  <2>1. deferrals' = deferrals
    BY <1>10
  <2>2. ClosedOnce'
    BY <1>1, <1>7, <1>8, <1>10, <2>1 DEF InitInv, ClosedOnce
  <2>3. ClosedAnswered'
    BY <1>1, <1>7, <1>8, <1>10 DEF InitInv, ClosedAnswered
  <2>4. ClosedAsRead'
    BY <1>1, <1>7, <1>8, <1>10 DEF InitInv, ClosedAsRead
  <2>5. ClosureStands'
    BY <1>1, <1>7, <1>8, <1>10 DEF InitInv, ClosureStands, Deferred
  <2> QED
    BY <1>2, <1>5, <1>6, <2>2, <2>3, <2>4, <2>5 DEF InitInv
<1>11. CASE ~Complete(i) /\ row.state = "COMPLETE"
  <2>1. /\ MayClose(row, row.answers)
        /\ deferrals' = deferrals \cup Deferred(i, row.answers)
        /\ closings' = [closings EXCEPT ![i] =
               [version |-> row.version, answers |-> row.answers]]
    BY <1>11
  <2>2. PICK closing : closing = [version |-> row.version, answers |-> row.answers]
    OBVIOUS
  <2>3. closings'[i] = closing /\ closing \in Closing /\ closing.version = row.version
        /\ closing.answers = row.answers
    BY <1>1, <2>1, <2>2, InitiativeShapes DEF Closing
  <2>4. {g \in deferrals' : g[1] = i} = Deferred(i, row.answers)
    BY <1>11, <2>1 DEF InitInv, ClosedOnce, Deferred
  <2>5. ClosedOnce'
    BY <1>1, <1>7, <1>8, <1>11, <2>3 DEF InitInv, ClosedOnce
  <2>6. ClosedAnswered'
    BY <1>1, <1>7, <2>1 DEF InitInv, ClosedAnswered, MayClose
  <2>7. ClosedAsRead'
    BY <1>1, <1>7, <2>3 DEF InitInv, ClosedAsRead
  <2>8. ClosureStands'
    <3>1. MayClose(initiatives'[i], initiatives'[i].answers)
          /\ {g \in deferrals' : g[1] = i} = Deferred(i, initiatives'[i].answers)
      BY <1>1, <2>1, <2>4
    <3>2. \A j \in DOMAIN initiatives : j # i /\ Complete(j)'
              /\ initiatives'[j].version = closings'[j].version =>
              /\ MayClose(initiatives'[j], initiatives'[j].answers)
              /\ {g \in deferrals' : g[1] = j} = Deferred(j, initiatives'[j].answers)
      BY <1>7 DEF InitInv, ClosureStands
    <3> QED
      <4>1. SUFFICES ASSUME NEW j \in DOMAIN initiatives', Complete(j)',
                            initiatives'[j].version = closings'[j].version
                     PROVE  /\ MayClose(initiatives'[j], initiatives'[j].answers)
                            /\ {g \in deferrals' : g[1] = j}
                                   = Deferred(j, initiatives'[j].answers)
        BY DEF ClosureStands, MayClose, Deferred
      <4>2. DOMAIN initiatives' = DOMAIN initiatives
        BY <1>1
      <4>3. CASE j = i
        BY <3>1, <4>3
      <4>4. CASE j # i
        BY <3>2, <4>1, <4>2, <4>4
      <4> QED
        BY <4>3, <4>4
  <2> QED
    BY <1>2, <1>5, <1>6, <2>5, <2>6, <2>7, <2>8 DEF InitInv
<1> QED
  BY <1>9, <1>10, <1>11

\* The disciplined writes of a row: the answers recorded meanwhile are those the
\* writer had read.
LEMMA FreshReads ==
    ASSUME InitInv, NEW h \in Handlers, Fresh(h)
    PROVE  /\ working[h].initiative \in DOMAIN initiatives
           /\ working[h].answers = initiatives[working[h].initiative].answers
           /\ initiatives[working[h].initiative] \in InitiativeRow
BY InitiativeShapes DEF Fresh, InitInv, ReadStands

\* An initiative goes to another state, which is COMPLETE only through the gate.
LEMMA TransitionStep ==
    ASSUME InitInv, NEW h \in Handlers, NEW to \in States, NEW given \in [Domains -> Answers],
           NEW monitoring \in BOOLEAN, TransitionInitiative(h, to, given, monitoring)
    PROVE  InitInv'
<1>1. PICK i : i = working[h].initiative
  OBVIOUS
<1>2. PICK r : r = initiatives[i]
  OBVIOUS
<1>3. PICK answers : answers = Effective(r.answers, given)
  OBVIOUS
<1>4. PICK monitored : monitored = (monitoring \/ r.monitored)
  OBVIOUS
<1>5. /\ Fresh(h) /\ i \in DOMAIN initiatives /\ r \in InitiativeRow
      /\ working[h].answers = r.answers
  BY <1>1, <1>2, FreshReads DEF TransitionInitiative
<1>6. /\ r.answers \in [Domains -> Answer] /\ r.version \in Nat \ {0} /\ r.state \in States
      /\ r.monitored \in BOOLEAN /\ r.links \in SUBSET Domains /\ r.promoted \in BOOLEAN
  BY <1>5 DEF InitiativeRow
<1>7. answers \in [Domains -> Answer] /\ monitored \in BOOLEAN
  BY <1>3, <1>4, <1>6, EffectiveKeeps
<1>8. PICK v : v = r.version + 1
  OBVIOUS
<1>9. v \in Nat \ {0}
  BY <1>6, <1>8
<1> DEFINE row == [r EXCEPT !.state = to, !.version = v, !.monitored = monitored,
                            !.answers = answers]
<1>10. /\ to \in Transitions[r.state] /\ (to = "COMPLETE" => MayClose(r, answers))
       /\ initiatives' = [initiatives EXCEPT ![i] = row]
       /\ working' = [working EXCEPT ![h] = NotWorking]
       /\ IF to = "COMPLETE"
          THEN /\ deferrals' = deferrals \cup Deferred(i, answers)
               /\ closings' = [closings EXCEPT ![i] = [version |-> v, answers |-> answers]]
          ELSE UNCHANGED <<deferrals, closings>>
  BY <1>1, <1>2, <1>3, <1>4, <1>5, <1>8 DEF TransitionInitiative
<1>11. /\ row \in InitiativeRow /\ row.state = to /\ row.version = v
       /\ row.answers = answers /\ row.links = r.links /\ row.promoted = r.promoted
  BY <1>5, <1>7, <1>9 DEF InitiativeRow
<1> HIDE DEF row
<1>12. r.state # "COMPLETE"
  BY <1>10 DEF Transitions
<1>13. MayClose(r, answers) => MayClose(row, row.answers)
  BY <1>11 DEF MayClose
<1>14. ~Complete(i) /\ row.version = initiatives[i].version + 1
  BY <1>2, <1>8, <1>11, <1>12 DEF Complete
<1>15. CASE to = "COMPLETE"
  <2>1. /\ row.state = "COMPLETE" /\ MayClose(row, row.answers)
        /\ deferrals' = deferrals \cup Deferred(i, row.answers)
        /\ closings' = [closings EXCEPT ![i] =
               [version |-> row.version, answers |-> row.answers]]
    BY <1>10, <1>11, <1>13, <1>15
  <2> QED
    BY <1>1, <1>5, <1>10, <1>11, <1>14, <2>1, WrittenRow
<1>16. CASE to # "COMPLETE"
  <2>1. row.state # "COMPLETE" /\ UNCHANGED <<deferrals, closings>>
    BY <1>10, <1>11, <1>16
  <2> QED
    BY <1>1, <1>5, <1>10, <1>11, <1>14, <2>1, WrittenRow
<1> QED
  BY <1>15, <1>16

\* Answers are recorded, of an initiative in any state.
LEMMA DispositionsStep ==
    ASSUME InitInv, NEW h \in Handlers, NEW given \in [Domains -> Answers],
           NEW monitoring \in BOOLEAN, UpdateDispositions(h, given, monitoring)
    PROVE  InitInv'
<1>1. PICK i : i = working[h].initiative
  OBVIOUS
<1>2. PICK r : r = initiatives[i]
  OBVIOUS
<1>3. PICK answers : answers = Effective(r.answers, given)
  OBVIOUS
<1>4. PICK monitored : monitored = (monitoring \/ r.monitored)
  OBVIOUS
<1>5. Fresh(h) /\ i \in DOMAIN initiatives /\ r \in InitiativeRow
  BY <1>1, <1>2, FreshReads DEF UpdateDispositions
<1>6. r.answers \in [Domains -> Answer] /\ r.version \in Nat \ {0} /\ r.monitored \in BOOLEAN
  BY <1>5 DEF InitiativeRow
<1>7. /\ answers \in [Domains -> Answer] /\ monitored \in BOOLEAN
      /\ \A d \in Domains : r.answers[d].disposition # None => answers[d].disposition # None
  BY <1>3, <1>4, <1>6, EffectiveKeeps
<1>8. PICK v : v = r.version + 1
  OBVIOUS
<1>9. v \in Nat \ {0}
  BY <1>6, <1>8
<1> DEFINE row == [r EXCEPT !.version = v, !.monitored = monitored, !.answers = answers]
<1>10. /\ initiatives' = [initiatives EXCEPT ![i] = row]
       /\ working' = [working EXCEPT ![h] = NotWorking] /\ UNCHANGED <<deferrals, closings>>
  BY <1>1, <1>2, <1>3, <1>4, <1>5, <1>8, InitiativeShapes DEF UpdateDispositions
<1>11. /\ row \in InitiativeRow /\ row.state = r.state /\ row.version = v
       /\ row.answers = answers
  BY <1>5, <1>7, <1>9 DEF InitiativeRow
<1> HIDE DEF row
<1>12. row.version = initiatives[i].version + 1 /\ (Complete(i) <=> row.state = "COMPLETE")
  BY <1>2, <1>8, <1>11 DEF Complete
<1>13. Complete(i) => \A d \in Domains : row.answers[d].disposition # None
  BY <1>2, <1>5, <1>7, <1>11 DEF InitInv, ClosedAnswered
<1> QED
  BY <1>1, <1>5, <1>10, <1>11, <1>12, <1>13, WrittenRow

\* A promotion is recorded, of an initiative in any state.
LEMMA PromotionStep ==
    ASSUME InitInv, NEW h \in Handlers, NEW promoted \in BOOLEAN, UpdatePromotion(h, promoted)
    PROVE  InitInv'
<1>1. PICK i : i = working[h].initiative
  OBVIOUS
<1>2. PICK r : r = initiatives[i]
  OBVIOUS
<1>5. Fresh(h) /\ i \in DOMAIN initiatives /\ r \in InitiativeRow
  BY <1>1, <1>2, FreshReads DEF UpdatePromotion
<1>8. PICK v : v = r.version + 1
  OBVIOUS
<1>9. v \in Nat \ {0}
  BY <1>5, <1>8 DEF InitiativeRow
<1> DEFINE row == [r EXCEPT !.version = v, !.promoted = promoted]
<1>10. /\ initiatives' = [initiatives EXCEPT ![i] = row]
       /\ working' = [working EXCEPT ![h] = NotWorking] /\ UNCHANGED <<deferrals, closings>>
  BY <1>1, <1>2, <1>5, <1>8, InitiativeShapes DEF UpdatePromotion
<1>11. /\ row \in InitiativeRow /\ row.state = r.state /\ row.version = v
       /\ row.answers = r.answers
  BY <1>5, <1>9 DEF InitiativeRow
<1> HIDE DEF row
<1>12. row.version = initiatives[i].version + 1 /\ (Complete(i) <=> row.state = "COMPLETE")
  BY <1>2, <1>8, <1>11 DEF Complete
<1>13. Complete(i) => \A d \in Domains : row.answers[d].disposition # None
  BY <1>2, <1>5, <1>11 DEF InitInv, ClosedAnswered
<1> QED
  BY <1>1, <1>5, <1>10, <1>11, <1>12, <1>13, WrittenRow

\* A link is added without a version: the gate that a closure passed stays passed.
LEMMA LinkStep ==
    ASSUME InitInv, NEW i \in DOMAIN initiatives, NEW d \in Domains, AddLink(i, d)
    PROVE  InitInv'
<1>1. PICK r : r = initiatives[i]
  OBVIOUS
<1>2. PICK links : links = r.links \cup {d}
  OBVIOUS
<1>3. r \in InitiativeRow /\ links \in SUBSET Domains /\ r.links \subseteq links
  BY <1>1, <1>2, InitiativeShapes DEF InitiativeRow
<1> DEFINE row == [r EXCEPT !.links = links]
<1>4. /\ initiatives' = [initiatives EXCEPT ![i] = row]
      /\ UNCHANGED <<deferrals, closings, working>>
  BY <1>1, <1>2, InitiativeShapes DEF AddLink
<1>5. /\ row \in InitiativeRow /\ row.state = r.state /\ row.version = r.version
      /\ row.answers = r.answers /\ row.links = links /\ row.promoted = r.promoted
  BY <1>3 DEF InitiativeRow
<1> HIDE DEF row
<1>6. /\ initiatives' \in Seq(InitiativeRow) /\ DOMAIN initiatives' = DOMAIN initiatives
      /\ Len(initiatives') = Len(initiatives)
      /\ \A j \in DOMAIN initiatives : initiatives'[j] = IF j = i THEN row ELSE initiatives[j]
  BY <1>4, <1>5, InitiativeShapes
<1>7. \A j \in DOMAIN initiatives :
          /\ initiatives'[j].state = initiatives[j].state
          /\ initiatives'[j].version = initiatives[j].version
          /\ initiatives'[j].answers = initiatives[j].answers
          /\ initiatives'[j].promoted = initiatives[j].promoted
          /\ initiatives[j].links \subseteq initiatives'[j].links
  BY <1>1, <1>3, <1>5, <1>6
<1>8. InitiativesTypeOK' /\ working' \in [Handlers -> WorkingStates']
  <2>1. WorkingStates' = WorkingStates
    BY <1>6 DEF WorkingStates
  <2> QED
    BY <1>4, <1>6, <2>1 DEF InitInv, InitiativesTypeOK
<1>9. ReadStands'
  BY <1>4, <1>7, InitiativeShapes DEF InitInv, ReadStands
<1>10. ClosedOnce' /\ ClosedAnswered' /\ ClosedAsRead'
  BY <1>4, <1>6, <1>7 DEF InitInv, ClosedOnce, ClosedAnswered, ClosedAsRead, Complete
<1>11. ClosureStands'
  <2>1. \A j \in DOMAIN initiatives :
            MayClose(initiatives[j], initiatives[j].answers) =>
                MayClose(initiatives'[j], initiatives'[j].answers)
    BY <1>7 DEF MayClose
  <2>2. \A j \in DOMAIN initiatives :
            Complete(j)' /\ initiatives'[j].version = closings'[j].version =>
                /\ MayClose(initiatives'[j], initiatives'[j].answers)
                /\ {g \in deferrals' : g[1] = j} = Deferred(j, initiatives'[j].answers)
    BY <1>4, <1>7, <2>1 DEF InitInv, ClosureStands, Complete
  <2> QED
    BY <1>6, <2>2 DEF ClosureStands, MayClose, Deferred
<1> QED
  BY <1>8, <1>9, <1>10, <1>11 DEF InitInv

\* An initiative is created in a state that is not a closed one.
LEMMA CreateInitiativeStep ==
    ASSUME InitInv, NEW state \in States, CreateInitiative(state)
    PROVE  InitInv'
<1>1. PICK row : row = [state |-> state, version |-> 1, promoted |-> FALSE, monitored |-> FALSE,
                        answers |-> [d \in Domains |-> Unanswered], links |-> {}]
  OBVIOUS
<1>2. PICK n : n = Len(initiatives) + 1
  OBVIOUS
<1>3. row \in InitiativeRow /\ row.state = state
  BY <1>1 DEF InitiativeRow, Unanswered, Answer
<1>4. /\ initiatives' = Append(initiatives, row) /\ closings' = Append(closings, None)
      /\ UNCHANGED <<deferrals, working>> /\ state # "COMPLETE"
  BY <1>1 DEF CreateInitiative
<1>5. /\ initiatives' \in Seq(InitiativeRow)
      /\ DOMAIN initiatives' = DOMAIN initiatives \cup {n} /\ n \notin DOMAIN initiatives
      /\ \A j \in DOMAIN initiatives : initiatives'[j] = initiatives[j]
      /\ initiatives'[n] = row /\ Len(initiatives') = n
  BY <1>2, <1>3, <1>4, InitiativeShapes
<1>6. /\ closings' \in Seq(Closing \cup {None}) /\ Len(closings') = n
      /\ \A j \in DOMAIN initiatives : closings'[j] = closings[j]
  <2>1. closings \in Seq(Closing \cup {None}) /\ Len(closings) = Len(initiatives)
        /\ DOMAIN closings = DOMAIN initiatives
    BY InitiativeShapes DEF InitInv, InitiativesTypeOK, Closing
  <2> QED
    BY <1>2, <1>4, <2>1
<1>7. deferrals' \subseteq (DOMAIN initiatives) \X Domains
  BY <1>4 DEF InitInv, InitiativesTypeOK
<1>8. InitiativesTypeOK'
  BY <1>4, <1>5, <1>6, <1>7 DEF InitInv, InitiativesTypeOK, Closing
<1>9. working' \in [Handlers -> WorkingStates']
  <2>1. WorkingStates \subseteq WorkingStates'
    BY <1>5 DEF WorkingStates
  <2> QED
    BY <1>4, <2>1 DEF InitInv
<1>10. ReadStands'
  BY <1>4, <1>5, InitiativeShapes DEF InitInv, ReadStands
<1>11. ~Complete(n)' /\ \A j \in DOMAIN initiatives : Complete(j)' <=> Complete(j)
  BY <1>3, <1>4, <1>5 DEF Complete
<1>12. ClosedOnce'
  BY <1>4, <1>5, <1>6, <1>7, <1>11 DEF InitInv, ClosedOnce
<1>13. ClosedAnswered' /\ ClosedAsRead'
  BY <1>5, <1>6, <1>11 DEF InitInv, ClosedAnswered, ClosedAsRead
<1>14. ClosureStands'
  <2>1. \A j \in DOMAIN initiatives :
            Complete(j)' /\ initiatives'[j].version = closings'[j].version =>
                /\ MayClose(initiatives'[j], initiatives'[j].answers)
                /\ {g \in deferrals' : g[1] = j} = Deferred(j, initiatives'[j].answers)
    BY <1>4, <1>5, <1>6, <1>11 DEF InitInv, ClosureStands
  <2> QED
    BY <1>5, <1>11, <2>1 DEF ClosureStands, MayClose, Deferred
<1> QED
  BY <1>8, <1>9, <1>10, <1>12, <1>13, <1>14 DEF InitInv

\* A caller reads the row, or gives up.
LEMMA ReadInitiativeStep ==
    ASSUME InitInv, NEW h \in Handlers,
           AbandonWork(h) \/ \E i \in DOMAIN initiatives : ReadInitiative(h, i)
    PROVE  InitInv'
<1>1. PICK w \in WorkingStates :
          /\ working' = [working EXCEPT ![h] = w]
          /\ w = NotWorking \/ /\ w.initiative \in DOMAIN initiatives
                               /\ w.expected = initiatives[w.initiative].version
                               /\ w.answers = initiatives[w.initiative].answers
  <2>1. CASE AbandonWork(h)
    BY <2>1 DEF AbandonWork, WorkingStates
  <2>2. ASSUME NEW i \in DOMAIN initiatives, ReadInitiative(h, i)
        PROVE  \E w \in WorkingStates :
                  /\ working' = [working EXCEPT ![h] = w]
                  /\ w.initiative \in DOMAIN initiatives
                  /\ w.expected = initiatives[w.initiative].version
                  /\ w.answers = initiatives[w.initiative].answers
    <3> DEFINE w == [stage |-> "working", initiative |-> i,
                     expected |-> initiatives[i].version, answers |-> initiatives[i].answers]
    <3>1. initiatives[i].version \in Nat \ {0} /\ initiatives[i].answers \in [Domains -> Answer]
      BY InitiativeShapes DEF InitiativeRow
    <3>2. w \in WorkingStates
      BY <3>1 DEF WorkingStates
    <3>3. working' = [working EXCEPT ![h] = w]
      BY <2>2 DEF ReadInitiative
    <3> QED
      BY <3>2, <3>3
  <2> QED
    BY <2>1, <2>2
<1>2. UNCHANGED <<initiatives, deferrals, closings>>
  BY DEF AbandonWork, ReadInitiative
<1>3. /\ working' \in [Handlers -> WorkingStates]
      /\ \A g \in Handlers : working'[g] = IF g = h THEN w ELSE working[g]
  BY <1>1 DEF InitInv
<1>4. w.stage \in {"idle", "working"}
  BY DEF WorkingStates, NotWorking
<1>5. InitiativesTypeOK' /\ working' \in [Handlers -> WorkingStates']
  BY <1>2, <1>3, <1>4 DEF InitInv, InitiativesTypeOK, WorkingStates
<1>6. ReadStands'
  <2>1. \A g \in Handlers : working'[g] # NotWorking =>
            LET row == initiatives[working'[g].initiative]
            IN  /\ working'[g].expected <= row.version
                /\ working'[g].expected = row.version => working'[g].answers = row.answers
    <3>1. w # NotWorking => initiatives[w.initiative].version \in Nat
      BY <1>1, InitiativeShapes DEF InitiativeRow
    <3> QED
      BY <1>1, <1>3, <3>1 DEF InitInv, ReadStands
  <2> QED
    BY <1>2, <2>1 DEF ReadStands
<1> QED
  BY <1>2, <1>5, <1>6 DEF InitInv, ClosedOnce, ClosedAnswered, ClosedAsRead, ClosureStands,
     Complete, MayClose, Deferred

\* Initiatives are closed on answers that were given, and as they were read, and stay
\* so (work_api), whoever transitions, answers, promotes and links at once.
THEOREM InitiativesAreSafe == InitiativesSpec => []InitiativesSafe
<1>1. InitiativesInit => InitInv
  <2> SUFFICES ASSUME InitiativesInit PROVE InitInv
    OBVIOUS
  <2>1. /\ initiatives = <<>> /\ closings = <<>> /\ DOMAIN initiatives = {} /\ deferrals = {}
        /\ \A h \in Handlers : working[h] = NotWorking /\ working[h].stage = "idle"
        /\ working \in [Handlers -> WorkingStates]
    BY DEF InitiativesInit, NotWorking, WorkingStates
  <2>2. InitiativesTypeOK
    BY <2>1 DEF InitiativesTypeOK
  <2> QED
    BY <2>1, <2>2 DEF InitInv, ReadStands, ClosedOnce, ClosedAnswered, ClosedAsRead, ClosureStands
<1>2. InitInv /\ [InitiativesNext]_initiativeVars => InitInv'
  <2> SUFFICES ASSUME InitInv, [InitiativesNext]_initiativeVars PROVE InitInv'
    OBVIOUS
  <2>1. CASE UNCHANGED initiativeVars
    BY <2>1 DEF initiativeVars, InitInv, InitiativesTypeOK, WorkingStates, ReadStands, ClosedOnce,
       ClosedAnswered, ClosedAsRead, ClosureStands, Complete, MayClose, Deferred
  <2> QED
    BY <2>1, CreateInitiativeStep, LinkStep, ReadInitiativeStep, TransitionStep, DispositionsStep,
       PromotionStep DEF InitiativesNext
<1>3. InitInv => InitiativesSafe
  BY DEF InitInv, InitiativesSafe
<1> QED
  BY <1>1, <1>2, <1>3, PTL DEF InitiativesSpec

-----------------------------------------------------------------------------
ActivityKinds == {"DECISION_REQUIRED", "RESOLUTION", "NOTE"}
ActivityRow == [kind : ActivityKinds, createdAt : Nat, seen : Nat]
AddingStates == {NotAdding} \cup [stage : {"adding"}, began : Nat, seen : Nat]

\* What somebody could see when a transaction began was dated before it; no activity
\* has seen one that was written later.
SeenIsEarlier ==
    /\ \A r \in DOMAIN activities :
        /\ activities[r].seen <= Len(activities) /\ activities[r].createdAt <= begun
        /\ \A a \in DOMAIN activities :
              a <= activities[r].seen => activities[a].createdAt < activities[r].createdAt
    /\ \A h \in Handlers : adding[h] # NotAdding =>
        /\ adding[h].seen <= Len(activities) /\ adding[h].began <= begun
        /\ \A a \in DOMAIN activities :
              a <= adding[h].seen => activities[a].createdAt < adding[h].began

DecInv ==
    /\ activities \in Seq(ActivityRow) /\ begun \in Nat
    /\ adding \in [Handlers -> AddingStates]
    /\ SeenIsEarlier

\* A resolution by somebody who could see the decision asked for takes it off the
\* queue (work_queues), whatever waits for which lock.
THEOREM ResolutionsClear == DecisionsSpec => []ResolutionClears
<1>1. DecisionsInit => DecInv
  BY DEF DecisionsInit, DecInv, AddingStates, SeenIsEarlier
<1>2. DecInv /\ [DecisionsNext]_decisionVars => DecInv'
  <2> SUFFICES ASSUME DecInv, [DecisionsNext]_decisionVars PROVE DecInv'
    OBVIOUS
  <2>1. /\ activities \in Seq(ActivityRow) /\ Len(activities) \in Nat /\ begun \in Nat
        /\ DOMAIN activities = 1..Len(activities)
        /\ \A a \in DOMAIN activities : activities[a].createdAt \in Nat /\ activities[a].seen \in Nat
        /\ \A h \in Handlers : adding[h] # NotAdding =>
              adding[h].began \in Nat /\ adding[h].seen \in Nat
    <3>1. activities \in Seq(ActivityRow) /\ begun \in Nat
          /\ adding \in [Handlers -> AddingStates]
      BY DEF DecInv
    <3>2. \A a \in DOMAIN activities : activities[a] \in ActivityRow
      BY <3>1
    <3>3. \A a \in DOMAIN activities : activities[a].createdAt \in Nat /\ activities[a].seen \in Nat
      BY <3>2 DEF ActivityRow
    <3>4. \A h \in Handlers : adding[h] # NotAdding =>
              adding[h].began \in Nat /\ adding[h].seen \in Nat
      BY <3>1 DEF AddingStates
    <3> QED
      BY <3>1, <3>3, <3>4
  <2>2. ASSUME NEW h \in Handlers, BeginActivity(h)
        PROVE  DecInv'
    <3>1. PICK w : w = [stage |-> "adding", began |-> begun + 1, seen |-> Len(activities)]
      OBVIOUS
    <3>2. w \in AddingStates /\ w.began = begun + 1 /\ w.seen = Len(activities)
      BY <2>1, <3>1 DEF AddingStates
    <3>3. /\ begun' = begun + 1 /\ activities' = activities
          /\ adding' = [adding EXCEPT ![h] = w]
      BY <2>2, <3>1 DEF BeginActivity
    <3>4. /\ adding' \in [Handlers -> AddingStates]
          /\ \A g \in Handlers : adding'[g] = IF g = h THEN w ELSE adding[g]
      BY <3>2, <3>3 DEF DecInv
    <3>5. SeenIsEarlier'
      BY <2>1, <3>2, <3>3, <3>4 DEF DecInv, SeenIsEarlier
    <3> QED
      BY <2>1, <3>3, <3>4, <3>5 DEF DecInv
  <2>3. ASSUME NEW h \in Handlers, NEW kind \in ActivityKinds, AddActivity(h, kind)
        PROVE  DecInv'
    <3>1. PICK row : row = [kind |-> kind, createdAt |-> adding[h].began, seen |-> adding[h].seen]
      OBVIOUS
    <3>2. /\ row \in ActivityRow /\ row.createdAt = adding[h].began /\ row.seen = adding[h].seen
          /\ adding[h] # NotAdding
      BY <2>1, <2>3, <3>1 DEF ActivityRow, AddActivity
    <3>3. /\ activities' = Append(activities, row) /\ begun' = begun
          /\ adding' = [adding EXCEPT ![h] = NotAdding]
      BY <2>3, <3>1 DEF AddActivity
    <3>4. PICK n : n = Len(activities) + 1
      OBVIOUS
    <3>5. /\ activities' \in Seq(ActivityRow) /\ Len(activities') = n
          /\ DOMAIN activities' = DOMAIN activities \cup {n} /\ n \notin DOMAIN activities
          /\ \A a \in DOMAIN activities : activities'[a] = activities[a]
          /\ activities'[n] = row
      BY <2>1, <3>2, <3>3, <3>4
    <3>6. /\ adding' \in [Handlers -> AddingStates]
          /\ \A g \in Handlers : adding'[g] = IF g = h THEN NotAdding ELSE adding[g]
      BY <3>3 DEF DecInv, AddingStates
    <3>7. \A r \in DOMAIN activities' :
              /\ activities'[r].seen <= Len(activities') /\ activities'[r].createdAt <= begun'
              /\ \A a \in DOMAIN activities' :
                    a <= activities'[r].seen =>
                        activities'[a].createdAt < activities'[r].createdAt
      <4>1. adding[h].seen < n /\ adding[h].began <= begun
            /\ \A a \in DOMAIN activities :
                   a <= adding[h].seen => activities[a].createdAt < adding[h].began
        BY <2>1, <3>2, <3>4 DEF DecInv, SeenIsEarlier
      <4>2. \A r \in DOMAIN activities :
                /\ activities[r].seen < n /\ activities[r].createdAt <= begun
                /\ \A a \in DOMAIN activities :
                      a <= activities[r].seen =>
                          activities[a].createdAt < activities[r].createdAt
        BY <2>1, <3>4 DEF DecInv, SeenIsEarlier
      <4> QED
        BY <2>1, <3>2, <3>3, <3>4, <3>5, <4>1, <4>2
    <3>8. \A g \in Handlers : adding'[g] # NotAdding =>
              /\ adding'[g].seen <= Len(activities') /\ adding'[g].began <= begun'
              /\ \A a \in DOMAIN activities' :
                    a <= adding'[g].seen => activities'[a].createdAt < adding'[g].began
      BY <2>1, <3>3, <3>4, <3>5, <3>6 DEF DecInv, SeenIsEarlier
    <3> QED
      BY <2>1, <3>3, <3>5, <3>6, <3>7, <3>8 DEF DecInv, SeenIsEarlier
  <2>4. ASSUME NEW h \in Handlers, AbandonActivity(h)
        PROVE  DecInv'
    <3>1. /\ adding' \in [Handlers -> AddingStates] /\ UNCHANGED <<activities, begun>>
          /\ \A g \in Handlers : adding'[g] = IF g = h THEN NotAdding ELSE adding[g]
      BY <2>4 DEF AbandonActivity, DecInv, AddingStates
    <3> QED
      BY <3>1 DEF DecInv, SeenIsEarlier
  <2>5. CASE UNCHANGED decisionVars
    BY <2>5 DEF decisionVars, DecInv, SeenIsEarlier
  <2> QED
    BY <2>2, <2>3, <2>4, <2>5 DEF DecisionsNext, ActivityKinds
<1>3. DecInv => ResolutionClears
  <2> SUFFICES ASSUME DecInv, NEW a \in DecisionsNeeded, NEW r \in DOMAIN activities,
                      Resolves(r)
               PROVE  activities[r].seen < a
    BY DEF ResolutionClears
  <2>1. /\ a \in DOMAIN activities /\ a \in Nat /\ activities[r].seen \in Nat
        /\ activities[a].createdAt \in Nat /\ activities[r].createdAt \in Nat
        /\ ~(activities[r].createdAt > activities[a].createdAt)
    <3>1. a \in DOMAIN activities /\ activities \in Seq(ActivityRow)
          /\ ~(activities[r].createdAt > activities[a].createdAt)
      BY DEF DecInv, DecisionsNeeded
    <3>2. activities[a] \in ActivityRow /\ activities[r] \in ActivityRow /\ a \in Nat
      BY <3>1
    <3> QED
      BY <3>1, <3>2 DEF ActivityRow
  <2>2. a <= activities[r].seen => activities[a].createdAt < activities[r].createdAt
    BY <2>1 DEF DecInv, SeenIsEarlier
  <2> QED
    BY <2>1, <2>2
<1> QED
  BY <1>1, <1>2, <1>3, PTL DEF DecisionsSpec

\* Initiatives are closed on answers, and who resolves a question he could see is
\* heard, in the two tables of WORK at once (work_api, work_catalogue).
THEOREM WorkIsAlwaysAnswered ==
    InitiativesSpec /\ DecisionsSpec => []WorkIsAnswered
BY InitiativesAreSafe, ResolutionsClear, PTL DEF WorkIsAnswered

-----------------------------------------------------------------------------
(***************************************************************************)
(* Captures: triaged by any number of handlers, while readers walk the     *)
(* inbox page by page.                                                     *)
(***************************************************************************)
CaptureRow == [status : Outcomes \cup {"INBOX"}, visible : BOOLEAN]

TriageStates ==
    {NotTriaging}
    \cup [stage : {"creating"}, capture : DOMAIN captures]
    \cup [stage : {"triaging"}, capture : DOMAIN captures, outcome : Outcomes]

Reading ==
    [stage : {"walking", "finished"}, status : {"INBOX", "all"}, boundary : Nat,
     before : Nat, standing : SUBSET Nat, had : [1..MaxCaptures -> 0..1]]

\* s names the captures of outcome o, each once.
Names(s, o) ==
    /\ s \in Seq(DOMAIN captures)
    /\ \A i \in DOMAIN s : captures[s[i]].status = o
    /\ \A i, j \in DOMAIN s : s[i] = s[j] => i = j
    /\ \A c \in DOMAIN captures : captures[c].status = o => \E i \in DOMAIN s : s[i] = c

\* A capture has one who triages it, and is in the inbox until he is done.
TriageAlone ==
    \A g, h \in Handlers :
        triaging[g].stage = "triaging" /\ triaging[h].stage = "triaging"
        /\ triaging[g].capture = triaging[h].capture => g = h
TriageOfInbox ==
    \A h \in Handlers :
        triaging[h].stage = "triaging" => captures[triaging[h].capture].status = "INBOX"

\* What a walk has had so far: of the rows that stood when it began and stand yet,
\* those at and above the cursor, and no row below it.
WalkReached ==
    walk.stage # "none" =>
        /\ walk \in Reading /\ walk.standing \subseteq Visible
        /\ \A c \in walk.standing : c <= walk.boundary
        /\ \A c \in 1..MaxCaptures : walk.had[c] = 1 => c >= walk.before
        /\ \A c \in walk.standing \cap Matching(walk.status) :
              c >= walk.before \/ walk.stage = "finished" => walk.had[c] = 1

CapInv ==
    /\ captures \in Seq(CaptureRow) /\ Len(captures) <= MaxCaptures
    /\ triaging \in [Handlers -> TriageStates] /\ TriageAlone /\ TriageOfInbox
    /\ Names(promotedFrom, "PROMOTED") /\ Names(attachedFrom, "ATTACHED")
    /\ walk.stage \in {"none", "walking", "finished"} /\ WalkReached

-----------------------------------------------------------------------------
\* The rows and the fields of a handler's record.
LEMMA CaptureShapes ==
    ASSUME CapInv
    PROVE  /\ DOMAIN captures = 1..Len(captures) /\ Len(captures) \in Nat
           /\ DOMAIN captures \subseteq 1..MaxCaptures
           /\ \A c \in DOMAIN captures : captures[c] \in CaptureRow
           /\ NotTriaging.stage = "idle"
           /\ \A h \in Handlers :
                 /\ triaging[h].stage \in {"idle", "creating", "triaging"}
                 /\ triaging[h].stage # "idle" => triaging[h].capture \in DOMAIN captures
                 /\ triaging[h].stage = "triaging" => triaging[h].outcome \in Outcomes
<1>1. captures \in Seq(CaptureRow) /\ Len(captures) <= MaxCaptures
  BY DEF CapInv
<1>2. DOMAIN captures = 1..Len(captures) /\ Len(captures) \in Nat
      /\ \A c \in DOMAIN captures : captures[c] \in CaptureRow
  BY <1>1
<1>3. DOMAIN captures \subseteq 1..MaxCaptures
  BY <1>1, <1>2, CaptureBounds
<1>4. triaging \in [Handlers -> TriageStates]
  BY DEF CapInv
<1> QED
  BY <1>2, <1>3, <1>4 DEF TriageStates, NotTriaging

\* A set of numbers has its smallest, and a bounded one its greatest.
LEMMA LeastExists ==
    ASSUME NEW S \in SUBSET Nat, S # {}
    PROVE  \E x \in S : \A y \in S : x <= y
<1> DEFINE Below == {ss \in Nat \X Nat : ss[1] < ss[2]}
<1>1. OpToRel(<, Nat) = Below
  BY DEF OpToRel
<1>2. IsWellFoundedOn(Below, Nat)
  BY <1>1, NatLessThanWellFounded
<1>3. \E x \in S : \A y \in S : ~(<<y, x>> \in Below)
  <2> HIDE DEF Below
  <2> QED
    BY <1>2, WFMin
<1>4. PICK x \in S : \A y \in S : ~(<<y, x>> \in Below)
  BY <1>3
<1>5. \A y \in S : x <= y
  <2> TAKE y \in S
  <2>1. x \in Nat /\ y \in Nat
    OBVIOUS
  <2>2. ~(y < x)
    BY <1>4, <2>1
  <2> QED
    BY <2>1, <2>2
<1> QED
  BY <1>5

\* The same, of a set that is bounded.
LEMMA MostExists ==
    ASSUME NEW b \in Nat, NEW S \in SUBSET (1..b), S # {}
    PROVE  \E x \in S : \A y \in S : y <= x
<1> DEFINE Far == {b - n : n \in S}
<1>1. \A n \in S : b - n \in Nat
  OBVIOUS
<1>2. Far \in SUBSET Nat /\ Far # {}
  BY <1>1
<1>3. \E x \in Far : \A y \in Far : x <= y
  <2> HIDE DEF Far
  <2> QED
    BY <1>2, LeastExists
<1>4. PICK m \in S : \A y \in Far : b - m <= y
  BY <1>3
<1>5. \A n \in S : b - m <= b - n
  BY <1>4
<1>6. \A n \in S : n \in Nat /\ m \in Nat
  OBVIOUS
<1> QED
  BY <1>5, <1>6

-----------------------------------------------------------------------------
(***************************************************************************)
(* Triage.                                                                 *)
(***************************************************************************)
\* The captures of another outcome, or of none, may be added and changed: a
\* sequence names those of its outcome still.
LEMMA NamesKeep ==
    ASSUME NEW s, NEW t, NEW o \in Outcomes, Names(s, o), t = s,
           DOMAIN captures \subseteq DOMAIN captures',
           \A c \in DOMAIN captures :
               captures'[c].status = o <=> captures[c].status = o,
           \A c \in DOMAIN captures' \ DOMAIN captures : captures'[c].status # o
    PROVE  Names(t, o)'
<1>1. s \in Seq(DOMAIN captures')
  BY DEF Names
<1>2. \A i \in DOMAIN s : s[i] \in DOMAIN captures
  BY DEF Names
<1> QED
  BY <1>1, <1>2 DEF Names

\* A capture that gets the outcome is named by what is made from it.
LEMMA NamesAdded ==
    ASSUME NEW s, NEW t, NEW o \in Outcomes, Names(s, o), NEW c \in DOMAIN captures,
           captures[c].status = "INBOX", captures'[c].status = o, t = Append(s, c),
           DOMAIN captures' = DOMAIN captures,
           \A d \in DOMAIN captures \ {c} : captures'[d] = captures[d]
    PROVE  Names(t, o)'
<1> DEFINE n == Len(s) + 1
<1>1. /\ s \in Seq(DOMAIN captures) /\ t \in Seq(DOMAIN captures) /\ n \notin DOMAIN s
      /\ DOMAIN t = DOMAIN s \cup {n} /\ t[n] = c
      /\ \A i \in DOMAIN s : t[i] = s[i] /\ s[i] \in DOMAIN captures
  BY DEF Names
<1>2. \A i \in DOMAIN s : s[i] # c
  BY DEF Names, Outcomes
<1>3. \A i \in DOMAIN t : captures'[t[i]].status = o
  BY <1>1, <1>2 DEF Names
<1>4. \A i, j \in DOMAIN t : t[i] = t[j] => i = j
  BY <1>1, <1>2 DEF Names
<1>5. \A d \in DOMAIN captures : captures'[d].status = o => \E i \in DOMAIN t : t[i] = d
  BY <1>1 DEF Names
<1> QED
  BY <1>1, <1>3, <1>4, <1>5 DEF Names

\* One capture has one name, or none.
LEMMA NamesOne ==
    ASSUME NEW s, NEW o, Names(s, o), NEW c \in DOMAIN captures
    PROVE  Cardinality({i \in DOMAIN s : s[i] = c}) = IF captures[c].status = o THEN 1 ELSE 0
<1>1. CASE captures[c].status = o
  <2>1. PICK i \in DOMAIN s : s[i] = c
    BY <1>1 DEF Names
  <2>2. {j \in DOMAIN s : s[j] = c} = {i}
    BY <2>1 DEF Names
  <2>3. Cardinality({i}) = 1
    BY FS_Singleton
  <2> QED
    BY <1>1, <2>2, <2>3
<1>2. CASE captures[c].status # o
  <2>1. {j \in DOMAIN s : s[j] = c} = {}
    BY <1>2 DEF Names
  <2> QED
    BY <1>2, <2>1, FS_EmptySet
<1> QED
  BY <1>1, <1>2

\* A walk goes on as rows are added, become visible and leave the inbox: what stood
\* when it began stands, or does not match any more.
LEMMA WalkKeeps ==
    ASSUME CapInv, DOMAIN captures \subseteq DOMAIN captures',
           \A c \in DOMAIN captures :
               /\ captures[c].visible => captures'[c].visible
               /\ captures'[c].status \in {captures[c].status} \cup Outcomes,
           walk' = walk
    PROVE  walk'.stage \in {"none", "walking", "finished"} /\ WalkReached'
<1>1. walk.stage \in {"none", "walking", "finished"}
  BY DEF CapInv
<1>2. CASE walk.stage = "none"
  BY <1>2 DEF WalkReached
<1>3. CASE walk.stage # "none"
  <2>1. /\ walk \in Reading /\ walk.standing \subseteq Visible
        /\ \A c \in walk.standing : c <= walk.boundary
        /\ \A c \in 1..MaxCaptures : walk.had[c] = 1 => c >= walk.before
        /\ \A c \in walk.standing \cap Matching(walk.status) :
              c >= walk.before \/ walk.stage = "finished" => walk.had[c] = 1
    BY <1>3 DEF CapInv, WalkReached
  <2>2. Visible \subseteq Visible'
    BY DEF Visible
  <2>3. PICK status : status = walk.status
    OBVIOUS
  <2>4. status \in {"INBOX", "all"}
    BY <2>1, <2>3 DEF Reading
  <2>5. \A c \in walk.standing : c \in Matching(status)' => c \in Matching(status)
    BY <2>1, <2>4 DEF Matching, Visible, Outcomes
  <2>6. \A c \in walk.standing \cap Matching(status)' :
            c >= walk.before \/ walk.stage = "finished" => walk.had[c] = 1
    BY <2>1, <2>3, <2>5
  <2> QED
    BY <1>1, <1>3, <2>1, <2>2, <2>3, <2>6 DEF WalkReached, Reading
<1> QED
  BY <1>1, <1>2, <1>3

\* A capture is made, and becomes visible.
LEMMA CaptureStep ==
    ASSUME CapInv, NEW h \in Handlers, BeginCapture(h) \/ CommitCapture(h)
    PROVE  CapInv'
<1>1. CASE BeginCapture(h)
  <2>1. PICK row : row = [status |-> "INBOX", visible |-> FALSE]
    OBVIOUS
  <2>2. PICK n : n = Len(captures) + 1
    OBVIOUS
  <2>3. PICK w : w = [stage |-> "creating", capture |-> n]
    OBVIOUS
  <2>4. /\ captures' = Append(captures, row) /\ triaging' = [triaging EXCEPT ![h] = w]
        /\ UNCHANGED <<promotedFrom, attachedFrom, walk>> /\ Len(captures) < MaxCaptures
    BY <1>1, <2>1, <2>2, <2>3 DEF BeginCapture
  <2>5. row \in CaptureRow /\ row.status = "INBOX" /\ ~row.visible /\ w.stage = "creating"
    BY <2>1, <2>3 DEF CaptureRow
  <2>6. /\ captures' \in Seq(CaptureRow) /\ Len(captures') = n /\ n <= MaxCaptures
        /\ DOMAIN captures' = DOMAIN captures \cup {n} /\ n \notin DOMAIN captures
        /\ \A c \in DOMAIN captures : captures'[c] = captures[c]
        /\ captures'[n] = row
    BY <2>2, <2>4, <2>5, CaptureShapes, CaptureBounds DEF CapInv
  <2>7. /\ triaging' \in [Handlers -> TriageStates']
        /\ \A g \in Handlers : triaging'[g] = IF g = h THEN w ELSE triaging[g]
    <3>1. TriageStates \subseteq TriageStates' /\ w \in TriageStates'
      BY <2>3, <2>6 DEF TriageStates
    <3>2. triaging \in [Handlers -> TriageStates]
      BY DEF CapInv
    <3> QED
      BY <2>4, <3>1, <3>2
  <2>8. TriageAlone' /\ TriageOfInbox'
    BY <2>5, <2>6, <2>7, CaptureShapes DEF CapInv, TriageAlone, TriageOfInbox
  <2>9. Names(promotedFrom, "PROMOTED")' /\ Names(attachedFrom, "ATTACHED")'
    <3>1. PICK p : p = promotedFrom
      OBVIOUS
    <3>2. PICK a : a = attachedFrom
      OBVIOUS
    <3>3. Names(p, "PROMOTED")' /\ Names(a, "ATTACHED")'
      BY <2>5, <2>6, <3>1, <3>2, NamesKeep DEF CapInv, Outcomes
    <3> QED
      BY <2>4, <3>1, <3>2, <3>3
  <2>10. walk'.stage \in {"none", "walking", "finished"} /\ WalkReached'
    BY <2>4, <2>6, WalkKeeps
  <2> QED
    BY <2>6, <2>7, <2>8, <2>9, <2>10 DEF CapInv
<1>2. CASE CommitCapture(h)
  <2>1. PICK c : c = triaging[h].capture
    OBVIOUS
  <2>2. /\ captures' = [captures EXCEPT ![c].visible = TRUE] /\ c \in DOMAIN captures
        /\ triaging' = [triaging EXCEPT ![h] = NotTriaging]
        /\ UNCHANGED <<promotedFrom, attachedFrom, walk>>
    BY <1>2, <2>1, CaptureShapes DEF CommitCapture
  <2>3. PICK r : r = captures[c]
    OBVIOUS
  <2>4. PICK row : row = [r EXCEPT !.visible = TRUE]
    OBVIOUS
  <2>5. row \in CaptureRow /\ row.status = r.status /\ row.visible
    <3>1. r \in CaptureRow
      BY <2>2, <2>3, CaptureShapes
    <3> QED
      BY <2>4, <3>1 DEF CaptureRow
  <2>6. /\ captures' \in Seq(CaptureRow) /\ DOMAIN captures' = DOMAIN captures
        /\ Len(captures') = Len(captures)
        /\ \A d \in DOMAIN captures : captures'[d] = IF d = c THEN row ELSE captures[d]
    BY <2>2, <2>3, <2>4, <2>5 DEF CapInv
  <2>7. /\ triaging' \in [Handlers -> TriageStates']
        /\ \A g \in Handlers : triaging'[g] = IF g = h THEN NotTriaging ELSE triaging[g]
    <3>1. TriageStates' = TriageStates /\ NotTriaging \in TriageStates
      BY <2>6 DEF TriageStates
    <3>2. triaging \in [Handlers -> TriageStates]
      BY DEF CapInv
    <3> QED
      BY <2>2, <3>1, <3>2
  <2>8. TriageAlone' /\ TriageOfInbox'
    <3>1. \A g \in Handlers : triaging'[g].stage = "triaging" =>
              triaging'[g] = triaging[g] /\ triaging[g].capture \in DOMAIN captures
      BY <2>7, CaptureShapes
    <3>2. \A d \in DOMAIN captures : captures'[d].status = captures[d].status
      BY <2>3, <2>5, <2>6
    <3> QED
      BY <3>1, <3>2 DEF CapInv, TriageAlone, TriageOfInbox
  <2>9. Names(promotedFrom, "PROMOTED")' /\ Names(attachedFrom, "ATTACHED")'
    <3>1. PICK p : p = promotedFrom
      OBVIOUS
    <3>2. PICK a : a = attachedFrom
      OBVIOUS
    <3>3. \A d \in DOMAIN captures : captures'[d].status = captures[d].status
      BY <2>3, <2>5, <2>6
    <3>4. Names(p, "PROMOTED")' /\ Names(a, "ATTACHED")'
      BY <2>6, <3>1, <3>2, <3>3, NamesKeep DEF CapInv, Outcomes
    <3> QED
      BY <2>2, <3>1, <3>2, <3>4
  <2>10. walk'.stage \in {"none", "walking", "finished"} /\ WalkReached'
    BY <2>2, <2>3, <2>5, <2>6, WalkKeeps
  <2> QED
    BY <2>6, <2>7, <2>8, <2>9, <2>10 DEF CapInv
<1> QED
  BY <1>1, <1>2

\* A capture is taken from the inbox by one handler.
LEMMA BeginTriageStep ==
    ASSUME CapInv, NEW h \in Handlers, NEW c \in DOMAIN captures, NEW outcome \in Outcomes,
           BeginTriage(h, c, outcome)
    PROVE  CapInv'
<1>1. PICK w : w = [stage |-> "triaging", capture |-> c, outcome |-> outcome]
  OBVIOUS
<1>2. /\ triaging' = [triaging EXCEPT ![h] = w] /\ CaptureFree(c)
      /\ captures[c].status = "INBOX"
      /\ UNCHANGED <<captures, promotedFrom, attachedFrom, walk>>
  BY <1>1 DEF BeginTriage
<1>3. w \in TriageStates /\ w.stage = "triaging" /\ w.capture = c
  BY <1>1 DEF TriageStates
<1>4. /\ triaging' \in [Handlers -> TriageStates']
      /\ \A g \in Handlers : triaging'[g] = IF g = h THEN w ELSE triaging[g]
  BY <1>2, <1>3 DEF CapInv, TriageStates
<1>5. TriageAlone' /\ TriageOfInbox'
  BY <1>2, <1>3, <1>4 DEF CapInv, TriageAlone, TriageOfInbox, CaptureFree
<1> QED
  BY <1>2, <1>4, <1>5 DEF CapInv, Names, WalkReached, Visible, Matching

\* The triage is committed with what is made from the capture.
LEMMA CommitTriageStep ==
    ASSUME CapInv, NEW h \in Handlers, CommitTriage(h)
    PROVE  CapInv'
<1>1. PICK c : c = triaging[h].capture
  OBVIOUS
<1>2. PICK outcome : outcome = triaging[h].outcome
  OBVIOUS
<1>3. /\ captures' = [captures EXCEPT ![c].status = outcome]
      /\ promotedFrom' = IF outcome = "PROMOTED" THEN Append(promotedFrom, c) ELSE promotedFrom
      /\ attachedFrom' = IF outcome = "ATTACHED" THEN Append(attachedFrom, c) ELSE attachedFrom
      /\ triaging' = [triaging EXCEPT ![h] = NotTriaging] /\ walk' = walk
      /\ triaging[h].stage = "triaging"
  BY <1>1, <1>2 DEF CommitTriage
<1>4. c \in DOMAIN captures /\ outcome \in Outcomes /\ captures[c].status = "INBOX"
  BY <1>1, <1>2, <1>3, CaptureShapes DEF CapInv, TriageOfInbox
<1>5. PICK r : r = captures[c]
  OBVIOUS
<1>6. PICK row : row = [r EXCEPT !.status = outcome]
  OBVIOUS
<1>7. row \in CaptureRow /\ row.status = outcome /\ row.visible = r.visible
  <2>1. r \in CaptureRow
    BY <1>4, <1>5, CaptureShapes
  <2> QED
    BY <1>4, <1>6, <2>1 DEF CaptureRow
<1>8. /\ captures' \in Seq(CaptureRow) /\ DOMAIN captures' = DOMAIN captures
      /\ Len(captures') = Len(captures)
      /\ \A d \in DOMAIN captures : captures'[d] = IF d = c THEN row ELSE captures[d]
  BY <1>3, <1>4, <1>5, <1>6, <1>7 DEF CapInv
<1>9. /\ triaging' \in [Handlers -> TriageStates']
      /\ \A g \in Handlers : triaging'[g] = IF g = h THEN NotTriaging ELSE triaging[g]
  <2>1. TriageStates' = TriageStates /\ NotTriaging \in TriageStates
    BY <1>8 DEF TriageStates
  <2>2. triaging \in [Handlers -> TriageStates]
    BY DEF CapInv
  <2> QED
    BY <1>3, <2>1, <2>2
<1>10. TriageAlone' /\ TriageOfInbox'
  <2>1. TriageAlone'
    BY <1>9, CaptureShapes DEF CapInv, TriageAlone
  <2>2. \A g \in Handlers : g # h /\ triaging[g].stage = "triaging" => triaging[g].capture # c
    BY <1>1, <1>3 DEF CapInv, TriageAlone
  <2>3. TriageOfInbox'
    BY <1>8, <1>9, <2>2, CaptureShapes DEF CapInv, TriageOfInbox
  <2> QED
    BY <2>1, <2>3
<1>11. ASSUME NEW s, NEW t, NEW o \in Outcomes, Names(s, o),
              t = IF outcome = o THEN Append(s, c) ELSE s
       PROVE  Names(t, o)'
  <2>1. CASE outcome = o
    BY <1>4, <1>7, <1>8, <1>11, <2>1, NamesAdded
  <2>2. CASE outcome # o
    <3>1. \A d \in DOMAIN captures : captures'[d].status = o <=> captures[d].status = o
      BY <1>4, <1>7, <1>8, <2>2 DEF Outcomes
    <3> QED
      BY <1>8, <1>11, <2>2, <3>1, NamesKeep
  <2> QED
    BY <2>1, <2>2
<1>12. Names(promotedFrom, "PROMOTED")' /\ Names(attachedFrom, "ATTACHED")'
  <2>1. ASSUME NEW p, p = promotedFrom, NEW q, q = promotedFrom',
               NEW a, a = attachedFrom, NEW b, b = attachedFrom'
        PROVE  Names(q, "PROMOTED")' /\ Names(b, "ATTACHED")'
    BY <1>3, <1>11, <2>1 DEF CapInv, Outcomes
  <2> QED
    BY <2>1
<1>13. walk'.stage \in {"none", "walking", "finished"} /\ WalkReached'
  BY <1>3, <1>4, <1>5, <1>7, <1>8, WalkKeeps
<1> QED
  BY <1>8, <1>9, <1>10, <1>12, <1>13 DEF CapInv

\* A transaction ends that writes nothing.
LEMMA AbandonTriageStep ==
    ASSUME CapInv, NEW h \in Handlers, AbandonTriage(h)
    PROVE  CapInv'
<1>1. /\ triaging' = [triaging EXCEPT ![h] = NotTriaging]
      /\ UNCHANGED <<captures, promotedFrom, attachedFrom, walk>>
  BY DEF AbandonTriage
<1>2. /\ triaging' \in [Handlers -> TriageStates']
      /\ \A g \in Handlers : triaging'[g] = IF g = h THEN NotTriaging ELSE triaging[g]
  BY <1>1 DEF CapInv, TriageStates
<1>3. TriageAlone' /\ TriageOfInbox'
  BY <1>1, <1>2, CaptureShapes DEF CapInv, TriageAlone, TriageOfInbox
<1> QED
  BY <1>1, <1>2, <1>3 DEF CapInv, Names, WalkReached, Visible, Matching

-----------------------------------------------------------------------------
(***************************************************************************)
(* The walk.                                                               *)
(***************************************************************************)
\* A page has all the rows that remain, from the newest down to its oldest.
LEMMA PageIsUpward ==
    ASSUME NEW n \in Nat, NEW R \in SUBSET (1..n), NEW m \in PageOf(R),
           NEW c \in R, c >= m
    PROVE  c \in PageOf(R)
<1> DEFINE above(x) == {d \in R : d > x}
<1>1. IsFiniteSet(R)
  <2>1. IsFiniteSet(1..n)
    BY FS_Interval
  <2> QED
    BY <2>1, FS_Subset
<1>2. IsFiniteSet(above(m)) /\ above(c) \subseteq above(m)
  <2>1. m \in Nat /\ c \in Nat /\ \A d \in R : d \in Nat
    BY DEF PageOf
  <2>2. ASSUME NEW d \in R, d > c PROVE d > m
    BY <2>1, <2>2
  <2>4. above(c) \subseteq above(m)
    BY <2>2
  <2>3. above(m) \subseteq R
    OBVIOUS
  <2> QED
    BY <1>1, <2>3, <2>4, FS_Subset
<1>3. Cardinality(above(c)) <= Cardinality(above(m)) /\ Cardinality(above(c)) \in Nat
      /\ Cardinality(above(m)) \in Nat
  BY <1>2, FS_Subset, FS_CardinalityType
<1>4. Cardinality(above(m)) < PageLimit
  BY DEF PageOf
<1> QED
  BY <1>3, <1>4, CaptureBounds DEF PageOf

\* A page of a walk, from wherever the cursor is.
LEMMA ReadPageKeeps ==
    ASSUME CapInv, UNCHANGED captures,
           NEW status \in {"INBOX", "all"}, NEW boundary \in Nat, NEW before \in Nat,
           NEW standing \in SUBSET Visible, NEW had \in [1..MaxCaptures -> 0..1],
           \A c \in standing : c <= boundary,
           \A c \in 1..MaxCaptures : had[c] = 1 => c >= before,
           \A c \in standing \cap Matching(status) : c >= before => had[c] = 1,
           ReadPage(status, boundary, before, standing, had)
    PROVE  walk'.stage \in {"none", "walking", "finished"} /\ WalkReached'
<1>1. PICK R : R = Remaining(status, boundary, before)
  OBVIOUS
<1>2. PICK page : page = PageOf(R)
  OBVIOUS
<1>3. PICK stage : stage = IF page = R THEN "finished" ELSE "walking"
  OBVIOUS
<1>4. PICK from : from = IF page = {} THEN before ELSE CHOOSE c \in page : \A d \in page : c <= d
  OBVIOUS
<1>5. PICK now : now = [c \in 1..MaxCaptures |-> had[c] + IF c \in page THEN 1 ELSE 0]
  OBVIOUS
<1>6. walk' = [stage |-> stage, status |-> status, boundary |-> boundary,
               before |-> from, standing |-> standing, had |-> now]
  BY <1>1, <1>2, <1>3, <1>4, <1>5 DEF ReadPage
<1>7. /\ R \in SUBSET (1..Len(captures)) /\ Len(captures) \in Nat /\ page \subseteq R
      /\ R \subseteq 1..MaxCaptures
      /\ \A c \in R : c \in Nat /\ c < before /\ c <= boundary
  BY <1>1, <1>2, CaptureShapes DEF Remaining, Matching, Visible, PageOf
<1>8. page # {} => from \in page /\ \A d \in page : from <= d
  <2> SUFFICES ASSUME page # {} PROVE from \in page /\ \A d \in page : from <= d
    OBVIOUS
  <2>1. \E c \in page : \A d \in page : c <= d
    BY <1>7, LeastExists
  <2> QED
    BY <1>4, <2>1
<1>9. from \in Nat /\ from <= before
  <2>1. CASE page = {}
    BY <1>4, <2>1
  <2>2. CASE page # {}
    <3>1. from \in R
      BY <1>7, <1>8, <2>2
    <3>2. from \in Nat /\ from < before
      BY <1>7, <3>1
    <3> QED
      BY <3>2
  <2> QED
    BY <2>1, <2>2
<1>10. \A c \in page : had[c] = 0
  BY <1>7
<1>11. /\ now \in [1..MaxCaptures -> 0..1]
       /\ \A c \in 1..MaxCaptures : now[c] = 1 <=> had[c] = 1 \/ c \in page
  BY <1>5, <1>10
<1>12. \A c \in 1..MaxCaptures : now[c] = 1 => c >= from
  BY <1>7, <1>8, <1>9, <1>11
<1>13. \A c \in R : c >= from => c \in page
  <2>1. CASE page = {}
    BY <1>4, <1>7, <2>1
  <2>2. CASE page # {}
    BY <1>2, <1>7, <1>8, <2>2, PageIsUpward
  <2> QED
    BY <2>1, <2>2
<1>14. ASSUME NEW c \in standing \cap Matching(status), c >= from \/ stage = "finished"
       PROVE  now[c] = 1
  <2>1. c \in 1..MaxCaptures /\ c \in Nat /\ c <= boundary
    BY CaptureShapes DEF Matching, Visible
  <2>2. CASE c >= before
    BY <1>11, <2>1, <2>2
  <2>3. CASE c < before
    <3>1. c \in R
      BY <1>1, <2>1, <2>3 DEF Remaining
    <3>2. c \in page
      BY <1>3, <1>13, <1>14, <3>1
    <3> QED
      BY <1>11, <2>1, <3>2
  <2> QED
    BY <2>1, <2>2, <2>3
<1>15. /\ walk' \in Reading /\ walk'.stage = stage /\ walk'.status = status
       /\ walk'.boundary = boundary /\ walk'.before = from /\ walk'.standing = standing
       /\ walk'.had = now
  <2>1. stage \in {"walking", "finished"} /\ standing \in SUBSET Nat
    BY <1>3, CaptureShapes DEF Visible
  <2> QED
    BY <1>6, <1>9, <1>11, <2>1 DEF Reading
<1>16. Visible' = Visible /\ Matching(status)' = Matching(status)
  BY DEF Visible, Matching
<1>17. \A c \in standing \cap Matching(status)' :
           c >= from \/ stage = "finished" => now[c] = 1
  BY <1>14, <1>16
<1> QED
  BY <1>3, <1>12, <1>15, <1>16, <1>17 DEF WalkReached

\* The reader asks for the first page, or the next.
LEMMA WalkStep ==
    ASSUME CapInv, NextPage \/ \E status \in {"INBOX", "all"} : StartWalk(status)
    PROVE  CapInv'
<1>1. UNCHANGED <<captures, promotedFrom, attachedFrom, triaging>>
  BY DEF NextPage, StartWalk
<1>2. walk'.stage \in {"none", "walking", "finished"} /\ WalkReached'
  <2>1. CASE NextPage
    <3>1. /\ walk \in Reading /\ walk.standing \subseteq Visible
          /\ \A c \in walk.standing : c <= walk.boundary
          /\ \A c \in 1..MaxCaptures : walk.had[c] = 1 => c >= walk.before
          /\ \A c \in walk.standing \cap Matching(walk.status) :
                c >= walk.before => walk.had[c] = 1
      BY <2>1 DEF NextPage, CapInv, WalkReached
    <3>2. /\ walk.status \in {"INBOX", "all"} /\ walk.boundary \in Nat /\ walk.before \in Nat
          /\ walk.had \in [1..MaxCaptures -> 0..1]
      BY <3>1 DEF Reading
    <3> QED
      BY <1>1, <2>1, <3>1, <3>2, ReadPageKeeps DEF NextPage
  <2>2. ASSUME NEW status \in {"INBOX", "all"}, StartWalk(status)
        PROVE  walk'.stage \in {"none", "walking", "finished"} /\ WalkReached'
    <3>1. PICK boundary : boundary = CHOOSE c \in Visible : \A d \in Visible : d <= c
      OBVIOUS
    <3>2. PICK none : none = [c \in 1..MaxCaptures |-> 0]
      OBVIOUS
    <3>3. Visible \in SUBSET (1..MaxCaptures) /\ Visible # {} /\ MaxCaptures \in Nat
      BY <2>2, CaptureShapes, CaptureBounds DEF Visible, StartWalk
    <3>4. boundary \in Visible /\ \A d \in Visible : d <= boundary
      <4>1. \E c \in Visible : \A d \in Visible : d <= c
        BY <3>3, MostExists
      <4> QED
        BY <3>1, <4>1
    <3>5. boundary \in Nat /\ MaxCaptures + 1 \in Nat
          /\ none \in [1..MaxCaptures -> 0..1] /\ \A c \in 1..MaxCaptures : none[c] = 0
      BY <3>2, <3>3, <3>4
    <3>6. Matching(status) \in SUBSET Visible
          /\ \A c \in Matching(status) : c <= boundary /\ ~(c >= MaxCaptures + 1)
      BY <3>3, <3>4 DEF Matching
    <3>7. ReadPage(status, boundary, MaxCaptures + 1, Matching(status), none)
      BY <2>2, <3>1, <3>2 DEF StartWalk
    <3>8. /\ \A c \in 1..MaxCaptures : none[c] = 1 => c >= MaxCaptures + 1
          /\ \A c \in Matching(status) \cap Matching(status) :
                c >= MaxCaptures + 1 => none[c] = 1
      BY <3>5, <3>6
    <3> QED
      BY <1>1, <3>5, <3>6, <3>7, <3>8, ReadPageKeeps
  <2> QED
    BY <2>1, <2>2
<1> QED
  BY <1>1, <1>2 DEF CapInv, TriageStates, TriageAlone, TriageOfInbox, Names

\* A capture has one outcome, and a walk of the list has each row once, while others
\* arrive and are triaged (work_api).
THEOREM CapturesAreSafe == CapturesSpec => []CapturesSafe
<1>1. CapturesInit => CapInv
  <2> SUFFICES ASSUME CapturesInit PROVE CapInv
    OBVIOUS
  <2>1. /\ captures = <<>> /\ promotedFrom = <<>> /\ attachedFrom = <<>>
        /\ DOMAIN captures = {} /\ Len(captures) = 0 /\ walk.stage = "none"
        /\ \A h \in Handlers : triaging[h].stage = "idle"
        /\ triaging \in [Handlers -> TriageStates]
    BY DEF CapturesInit, NotTriaging, NoWalk, TriageStates
  <2>2. captures \in Seq(CaptureRow) /\ Len(captures) <= MaxCaptures
    BY <2>1, CaptureBounds
  <2>3. Names(promotedFrom, "PROMOTED") /\ Names(attachedFrom, "ATTACHED")
    BY <2>1 DEF Names
  <2> QED
    BY <2>1, <2>2, <2>3 DEF CapInv, TriageAlone, TriageOfInbox, WalkReached
<1>2. CapInv /\ [CapturesNext]_captureVars => CapInv'
  <2> SUFFICES ASSUME CapInv, [CapturesNext]_captureVars PROVE CapInv'
    OBVIOUS
  <2>1. CASE UNCHANGED captureVars
    BY <2>1 DEF captureVars, CapInv, TriageStates, TriageAlone, TriageOfInbox, Names,
       WalkReached, Visible, Matching
  <2> QED
    BY <2>1, CaptureStep, BeginTriageStep, CommitTriageStep, AbandonTriageStep, WalkStep
    DEF CapturesNext
<1>3. CapInv => CapturesSafe
  <2> SUFFICES ASSUME CapInv PROVE CapturesSafe
    OBVIOUS
  <2>1. CapturesTypeOK
    BY DEF CapInv, CapturesTypeOK, Names, CaptureRow
  <2>2. OneOutcome
    BY NamesOne DEF CapInv, OneOutcome
  <2>3. WalkSkipsNothing
    BY DEF CapInv, WalkReached, WalkSkipsNothing
  <2>4. WalkRepeatsNothing
    <3> SUFFICES ASSUME walk.stage # "none", NEW c \in 1..MaxCaptures
                 PROVE  walk.had[c] <= 1
      BY DEF WalkRepeatsNothing
    <3>1. walk \in Reading
      BY DEF CapInv, WalkReached
    <3>2. walk.had[c] \in 0..1
      BY <3>1 DEF Reading
    <3> QED
      BY <3>2
  <2> QED
    BY <2>1, <2>2, <2>3, <2>4 DEF CapturesSafe
<1> QED
  BY <1>1, <1>2, <1>3, PTL DEF CapturesSpec

-----------------------------------------------------------------------------
(***************************************************************************)
(* Discrepancies: passes of the worker and decisions of reviewers that     *)
(* load and save one ledger, with nothing between them.                    *)
(***************************************************************************)
\* What a history is, a ledger, what a pass may find, and a walk.
HistoryRows ==
    [state : OpenStates \cup {"COMPLETE"}, version : Nat, count : 0..MaxActivities]
Ledgers == [Subjects -> FlagRow \cup {None}]
Findings == [state : OpenStates, resolutions : (SUBSET (1..MaxActivities)) \ {{}}]
Walks == [subject : Subjects, head : HistoryRows, got : SUBSET (1..MaxActivities), had : Nat]
PassStates ==
    {NoPass}
    \cup [stage : {"reading"}, previous : Ledgers, left : SUBSET Subjects,
          evaluated : SUBSET Subjects, found : [Subjects -> Findings \cup {None}],
          walk : Walks \cup {None}]
ReviewStates ==
    {NoReview}
    \cup [stage : {"deciding"}, subject : Subjects, status : ReviewStatuses,
          loaded : Ledgers]

\* The activities from a to b.
Span(a, b) == {i \in 1..b : i >= a}

\* What a walk has got is the newest activities of its history, without a gap.
WalkIsTail(w) ==
    /\ w.had <= w.head.count
    /\ w.got = Span(w.head.count - w.had + 1, w.head.count)

WholeFinding(f) == \E n \in 0..MaxActivities : f.resolutions = 1..n

\* Every closed row of a ledger was decided on the evidence it has.
DecidedIn(ledger) ==
    \A s \in Subjects :
        ledger[s] # None /\ ledger[s].status # "OPEN" =>
            <<s, ledger[s].fingerprint, ledger[s].status>> \in decided

DiscInv ==
    /\ histories \in [Subjects -> HistoryRows]
    /\ flags \in Ledgers
    /\ pass \in PassStates /\ review \in ReviewStates
    /\ DecidedIn(flags)
    /\ pass # NoPass =>
        /\ DecidedIn(pass.previous)
        /\ pass.walk # None => WalkIsTail(pass.walk)
        /\ \A s \in Subjects : pass.found[s] # None => WholeFinding(pass.found[s])
    /\ review # NoReview => DecidedIn(review.loaded) /\ review.loaded[review.subject] # None

-----------------------------------------------------------------------------
(***************************************************************************)
(* The walk of a history.                                                  *)
(***************************************************************************)
\* How many activities a page has.
LEMMA PageSize ==
    ASSUME NEW last \in Nat
    PROVE  LET page == {i \in 1..last : i > last - HistoryPage}
               k == IF last < HistoryPage THEN last ELSE HistoryPage
           IN  page = Span(last - k + 1, last) /\ Cardinality(page) = k
<1> DEFINE page == {i \in 1..last : i > last - HistoryPage}
           k == IF last < HistoryPage THEN last ELSE HistoryPage
<1>1. HistoryPage \in Nat \ {0} /\ k \in Nat /\ k <= last
  BY WorkerBounds
<1>2. page = (last - k + 1)..last
  BY <1>1
<1>3. page = Span(last - k + 1, last)
  BY <1>1 DEF Span
<1>4. Cardinality((last - k + 1)..last) = k
  <2>1. last - k + 1 \in Int /\ last \in Int
    BY <1>1
  <2>2. Cardinality((last - k + 1)..last) =
            IF last - k + 1 > last THEN 0 ELSE last - (last - k + 1) + 1
    BY <2>1, FS_Interval
  <2> QED
    BY <1>1, <2>2
<1> QED
  BY <1>2, <1>3, <1>4

\* The first page of a walk.
LEMMA WalkBegins ==
    ASSUME histories \in [Subjects -> HistoryRows], NEW s \in Subjects, NEW w,
           w = [subject |-> s, head |-> histories[s], got |-> HistoryAt(s, 0),
                had |-> Cardinality(HistoryAt(s, 0))]
    PROVE  w \in Walks /\ WalkIsTail(w)
<1> DEFINE n == histories[s].count
           k == IF n < HistoryPage THEN n ELSE HistoryPage
<1>1. n \in Nat /\ n <= MaxActivities /\ histories[s] \in HistoryRows
      /\ HistoryPage \in Nat \ {0} /\ MaxActivities \in Nat
  BY WorkerBounds DEF HistoryRows
<1>2. HistoryAt(s, 0) = {i \in 1..n : i > n - HistoryPage}
  <2>1. n - 0 = n
    BY <1>1
  <2> QED
    BY <2>1 DEF HistoryAt
<1>3. HistoryAt(s, 0) = Span(n - k + 1, n) /\ Cardinality(HistoryAt(s, 0)) = k
  BY <1>1, <1>2, PageSize
<1>4. Span(n - k + 1, n) \in SUBSET (1..MaxActivities) /\ k \in Nat /\ k <= n
  BY <1>1 DEF Span
<1> HIDE DEF k
<1>5. w.subject = s /\ w.head = histories[s] /\ w.got = Span(n - k + 1, n) /\ w.had = k
  BY <1>3
<1>6. w \in Walks
  BY <1>1, <1>3, <1>4 DEF Walks
<1> QED
  BY <1>4, <1>5, <1>6 DEF WalkIsTail

\* Another page, of a history that has not moved.
LEMMA WalkGoesOn ==
    ASSUME NEW w \in Walks, WalkIsTail(w), histories \in [Subjects -> HistoryRows],
           w.had < w.head.count, histories[w.subject].count = w.head.count,
           NEW next, next = HistoryAt(w.subject, w.had),
           NEW v, v.subject = w.subject, v.head = w.head, v.got = w.got \cup next,
           v.had = w.had + Cardinality(next)
    PROVE  WalkIsTail(v) /\ v.got \in SUBSET (1..MaxActivities) /\ v.had \in Nat
<1> DEFINE n == w.head.count
           last == n - w.had
           k == IF last < HistoryPage THEN last ELSE HistoryPage
<1>1. n \in Nat /\ w.had \in Nat /\ last \in Nat /\ n <= MaxActivities
      /\ HistoryPage \in Nat \ {0} /\ MaxActivities \in Nat
  BY WorkerBounds DEF Walks, HistoryRows
<1>2. next = {i \in 1..last : i > last - HistoryPage}
  BY DEF HistoryAt
<1>3. next = Span(last - k + 1, last) /\ Cardinality(next) = k
  <2> HIDE DEF last
  <2> QED
    BY <1>1, <1>2, PageSize
<1>4. w.got = Span(n - w.had + 1, n)
  BY DEF WalkIsTail
<1>5. k \in Nat /\ k <= last /\ v.had = w.had + k
  BY <1>1, <1>3
<1> HIDE DEF k
<1>6. Span(n - w.had + 1, n) \cup Span(last - k + 1, last) = Span(n - v.had + 1, n)
  BY <1>1, <1>5 DEF Span
<1>7. v.got = Span(n - v.had + 1, n) /\ v.had <= n /\ v.had \in Nat
  BY <1>1, <1>3, <1>4, <1>5, <1>6
<1>8. Span(n - v.had + 1, n) \in SUBSET (1..MaxActivities)
  BY <1>1 DEF Span
<1> QED
  BY <1>7, <1>8 DEF WalkIsTail

\* A walk that has as many activities as its history had has all of them.
LEMMA WalkEndsWhole ==
    ASSUME NEW w \in Walks, WalkIsTail(w), w.had = w.head.count
    PROVE  /\ EvidenceOf(w.head, w.got) \in Findings \cup {None}
           /\ EvidenceOf(w.head, w.got) # None => WholeFinding(EvidenceOf(w.head, w.got))
<1> DEFINE n == w.head.count
<1>1. n \in 0..MaxActivities /\ MaxActivities \in Nat
      /\ w.head.state \in OpenStates \cup {"COMPLETE"}
  BY WorkerBounds DEF Walks, HistoryRows
<1>2. w.got = 1..n
  BY <1>1 DEF WalkIsTail, Span
<1>3. CASE EvidenceOf(w.head, w.got) = None
  BY <1>3
<1>4. CASE EvidenceOf(w.head, w.got) # None
  <2>1. /\ EvidenceOf(w.head, w.got) = [state |-> w.head.state, resolutions |-> w.got]
        /\ w.head.state \in OpenStates /\ w.got # {}
    BY <1>1, <1>4 DEF EvidenceOf
  <2>2. w.got \in (SUBSET (1..MaxActivities)) \ {{}}
    BY <1>1, <1>2, <2>1
  <2>3. EvidenceOf(w.head, w.got) \in Findings
    BY <2>1, <2>2 DEF Findings
  <2>4. EvidenceOf(w.head, w.got).resolutions = 1..n
    BY <1>2, <2>1
  <2>5. WholeFinding(EvidenceOf(w.head, w.got))
    BY <1>1, <2>4 DEF WholeFinding
  <2> QED
    BY <2>3, <2>5
<1> QED
  BY <1>3, <1>4

-----------------------------------------------------------------------------
(***************************************************************************)
(* The steps.                                                              *)
(***************************************************************************)
\* A row of the ledger is not None.
LEMMA FlagIsNotNone ==
    ASSUME NEW r \in FlagRow
    PROVE  r # None
<1>1. r \in [fingerprint : [state : OpenStates, resolutions : SUBSET (1..MaxActivities)],
             detection : {"DETECTED", "NOT_DETECTED", "NOT_REEVALUATED"},
             status : ReviewStatuses \cup {"OPEN"}]
  BY DEF FlagRow
<1> QED
  BY <1>1, NoneIsNoFlag

\* What a pass makes of a row is closed only if the row was, on the same evidence.
LEMMA ReevaluatedRow ==
    ASSUME NEW old \in FlagRow \cup {None}, NEW found \in Findings \cup {None},
           NEW evaluated \in BOOLEAN, NEW r, r = Reevaluated(old, found, evaluated)
    PROVE  /\ r \in FlagRow \cup {None}
           /\ r # None /\ r.status # "OPEN" =>
                /\ old # None /\ old.status = r.status /\ old.fingerprint = r.fingerprint
           /\ old # None =>
                /\ r # None /\ r.status \in {"OPEN", old.status}
                /\ r.detection = "NOT_DETECTED" => evaluated /\ found = None
<1>1. CASE found = None /\ old = None
  BY <1>1 DEF Reevaluated
<1>2. CASE found = None /\ old # None
  <2>1. PICK f, d, st : /\ old = [fingerprint |-> f, detection |-> d, status |-> st]
                        /\ st \in ReviewStatuses \cup {"OPEN"}
    BY <1>2 DEF FlagRow
  <2>2. PICK e \in {"NOT_DETECTED", "NOT_REEVALUATED"} :
           /\ r = [old EXCEPT !.detection = e]
           /\ e = "NOT_DETECTED" => evaluated
    BY <1>2 DEF Reevaluated
  <2>3. r = [fingerprint |-> f, detection |-> e, status |-> st]
    BY <2>1, <2>2
  <2>4. r \in FlagRow
    BY <1>2, <2>1, <2>3 DEF FlagRow
  <2>5. r # None
    BY <2>4, FlagIsNotNone
  <2> QED
    BY <1>2, <2>1, <2>2, <2>3, <2>4, <2>5
<1>3. CASE found # None
  <2>1. PICK st \in {"OPEN"} \cup ReviewStatuses :
           /\ r = [fingerprint |-> found, detection |-> "DETECTED", status |-> st]
           /\ st # "OPEN" => old # None /\ old.fingerprint = found /\ old.status = st
           /\ old # None => st \in {"OPEN", old.status}
    BY <1>3 DEF Reevaluated, FlagRow
  <2>2. r \in FlagRow
    <3>1. found \in [state : OpenStates, resolutions : (SUBSET (1..MaxActivities)) \ {{}}]
      BY <1>3 DEF Findings
    <3>2. st \in ReviewStatuses \cup {"OPEN"}
      BY <2>1
    <3> QED
      BY <2>1, <3>1, <3>2 DEF FlagRow
  <2>3. r # None
    BY <2>2, FlagIsNotNone
  <2> QED
    BY <2>1, <2>2, <2>3
<1> QED
  BY <1>1, <1>2, <1>3

\* The work on initiatives goes on: what a pass has seen, it has seen.
LEMMA HistoriesStep ==
    ASSUME DiscInv, NEW s \in Subjects, RecordResolution(s) \/ ChangeState(s)
    PROVE  DiscInv' /\ flags' = flags
<1>1. UNCHANGED <<flags, decided, pass, review>>
  BY DEF RecordResolution, ChangeState
<1>2. PICK st \in OpenStates \cup {"COMPLETE"}, v \in Nat, n \in 0..MaxActivities :
         histories[s] = [state |-> st, version |-> v, count |-> n]
  BY DEF DiscInv, HistoryRows
<1>3. CASE RecordResolution(s)
  <2>1. n + 1 \in 0..MaxActivities
    BY <1>2, <1>3, WorkerBounds DEF RecordResolution
  <2>2. [histories[s] EXCEPT !.count = @ + 1] = [state |-> st, version |-> v, count |-> n + 1]
    BY <1>2
  <2>3. histories' = [histories EXCEPT ![s] = [state |-> st, version |-> v, count |-> n + 1]]
    BY <1>3, <2>2 DEF RecordResolution
  <2>4. histories' \in [Subjects -> HistoryRows]
    BY <2>1, <2>3 DEF DiscInv, HistoryRows
  <2> QED
    BY <1>1, <2>4 DEF DiscInv, DecidedIn
<1>4. CASE ChangeState(s)
  <2>1. PICK st2 \in OpenStates \cup {"COMPLETE"} :
           histories' = [histories EXCEPT ![s].state = st2, ![s].version = @ + 1]
    BY <1>4 DEF ChangeState
  <2>2. PICK q : q = [histories[s] EXCEPT !.state = st2]
    OBVIOUS
  <2>3. q = [state |-> st2, version |-> v, count |-> n]
    BY <1>2, <2>2
  <2>4. [q EXCEPT !.version = @ + 1] = [state |-> st2, version |-> v + 1, count |-> n]
    BY <2>3
  <2>5. histories' =
            [histories EXCEPT ![s] = [state |-> st2, version |-> v + 1, count |-> n]]
    BY <2>1, <2>2, <2>4 DEF DiscInv
  <2>6. histories' \in [Subjects -> HistoryRows]
    BY <2>5 DEF DiscInv, HistoryRows
  <2> QED
    BY <1>1, <2>6 DEF DiscInv, DecidedIn
<1> QED
  BY <1>3, <1>4

\* A step of a pass that leaves the ledger.
LEMMA PassGoesOn ==
    ASSUME DiscInv, NEW p \in PassStates, pass' = p,
           UNCHANGED <<histories, flags, decided, review>>,
           p # NoPass =>
               /\ DecidedIn(p.previous)
               /\ p.walk # None => WalkIsTail(p.walk)
               /\ \A s \in Subjects : p.found[s] # None => WholeFinding(p.found[s])
    PROVE  DiscInv'
<1>1. \A l : DecidedIn(l)' = DecidedIn(l)
  BY DEF DecidedIn
<1>2. /\ histories' \in [Subjects -> HistoryRows] /\ flags' \in Ledgers
      /\ pass' \in PassStates /\ review' \in ReviewStates
  BY DEF DiscInv
<1>3. DecidedIn(flags)'
  BY DEF DiscInv, DecidedIn
<1>4. pass' # NoPass =>
          /\ DecidedIn(pass.previous)'
          /\ (pass.walk # None => WalkIsTail(pass.walk))'
          /\ (\A s \in Subjects : pass.found[s] # None => WholeFinding(pass.found[s]))'
  BY DEF DecidedIn, WalkIsTail, WholeFinding
<1>5. review' # NoReview =>
          DecidedIn(review.loaded)' /\ review'.loaded[review'.subject] # None
  BY DEF DiscInv, DecidedIn
<1> QED
  BY <1>2, <1>3, <1>4, <1>5 DEF DiscInv

\* The steps of a pass before it saves.
LEMMA LoadStep ==
    ASSUME DiscInv, LoadLedger
    PROVE  DiscInv'
<1> DEFINE p == [stage |-> "reading", previous |-> flags, left |-> Subjects,
                 evaluated |-> {}, found |-> [s \in Subjects |-> None], walk |-> None]
<1>1. p \in PassStates
  BY DEF PassStates, DiscInv
<1>2. pass' = p /\ UNCHANGED <<histories, flags, decided, review>>
  BY DEF LoadLedger
<1>3. DecidedIn(p.previous) /\ p.walk = None /\ \A s \in Subjects : p.found[s] = None
  BY DEF DiscInv
<1> HIDE DEF p
<1> QED
  BY <1>1, <1>2, <1>3, PassGoesOn

\* What a pass is while it reads.
LEMMA PassFields ==
    ASSUME DiscInv, pass.stage = "reading"
    PROVE  /\ pass \in [stage : {"reading"}, previous : Ledgers, left : SUBSET Subjects,
                        evaluated : SUBSET Subjects,
                        found : [Subjects -> Findings \cup {None}],
                        walk : Walks \cup {None}]
           /\ pass # NoPass /\ DecidedIn(pass.previous)
           /\ pass.walk # None => pass.walk \in Walks /\ WalkIsTail(pass.walk)
           /\ \A s \in Subjects : pass.found[s] # None => WholeFinding(pass.found[s])
<1>1. pass # NoPass
  BY DEF NoPass
<1> QED
  BY <1>1 DEF DiscInv, PassStates

\* A pass that changes its walk, what is left, or what it found.
LEMMA PassMoves ==
    ASSUME DiscInv, pass.stage = "reading", UNCHANGED <<histories, flags, decided, review>>,
           NEW left \in SUBSET Subjects, NEW evaluated \in SUBSET Subjects,
           NEW found \in [Subjects -> Findings \cup {None}], NEW w \in Walks \cup {None},
           pass' = [stage |-> "reading", previous |-> pass.previous, left |-> left,
                    evaluated |-> evaluated, found |-> found, walk |-> w],
           w # None => WalkIsTail(w),
           \A s \in Subjects : found[s] # None => WholeFinding(found[s])
    PROVE  DiscInv'
<1> DEFINE p == [stage |-> "reading", previous |-> pass.previous, left |-> left,
                 evaluated |-> evaluated, found |-> found, walk |-> w]
<1>1. pass.previous \in Ledgers /\ DecidedIn(pass.previous)
  BY PassFields
<1>2. p \in PassStates
  BY <1>1 DEF PassStates
<1>3. p.previous = pass.previous /\ p.walk = w /\ p.found = found
  OBVIOUS
<1>4. pass' = p
  OBVIOUS
<1> HIDE DEF p
<1> QED
  BY <1>1, <1>2, <1>3, <1>4, PassGoesOn

\* A walk begins.
LEMMA StartStep ==
    ASSUME DiscInv, NEW s \in Subjects, StartWalkOf(s)
    PROVE  DiscInv'
<1> DEFINE w == [subject |-> s, head |-> histories[s], got |-> HistoryAt(s, 0),
                 had |-> Cardinality(HistoryAt(s, 0))]
<1>1. histories \in [Subjects -> HistoryRows]
  BY DEF DiscInv
<1>2. w \in Walks /\ WalkIsTail(w)
  BY <1>1, WalkBegins
<1>3. pass.stage = "reading" /\ pass' = [pass EXCEPT !.walk = w]
      /\ UNCHANGED <<histories, flags, decided, review>>
  BY DEF StartWalkOf
<1> HIDE DEF w
<1>4. pass' = [stage |-> "reading", previous |-> pass.previous, left |-> pass.left,
               evaluated |-> pass.evaluated, found |-> pass.found, walk |-> w]
  BY <1>3, PassFields
<1>5. /\ pass.left \in SUBSET Subjects /\ pass.evaluated \in SUBSET Subjects
      /\ pass.found \in [Subjects -> Findings \cup {None}]
      /\ \A x \in Subjects : pass.found[x] # None => WholeFinding(pass.found[x])
  BY <1>3, PassFields
<1> QED
  BY <1>2, <1>3, <1>4, <1>5, PassMoves

\* A walk goes on or is given up.
LEMMA ReadStep ==
    ASSUME DiscInv, ReadHistoryPage
    PROVE  DiscInv'
<1> DEFINE w == pass.walk
           next == HistoryAt(w.subject, w.had)
<1>1. /\ pass.stage = "reading" /\ w # None /\ w.had < w.head.count
      /\ UNCHANGED <<histories, flags, decided, review>>
  BY DEF ReadHistoryPage
<1>2. w \in Walks /\ WalkIsTail(w)
  BY <1>1, PassFields
<1>3. /\ pass.left \in SUBSET Subjects /\ pass.evaluated \in SUBSET Subjects
      /\ pass.found \in [Subjects -> Findings \cup {None}]
      /\ \A x \in Subjects : pass.found[x] # None => WholeFinding(pass.found[x])
  BY <1>1, PassFields
<1>4. CASE Refused(w, next)
  <2>1. pass' = [pass EXCEPT !.left = @ \ {w.subject}, !.walk = None]
    BY <1>4 DEF ReadHistoryPage
  <2> HIDE DEF w
  <2>2. pass' = [stage |-> "reading", previous |-> pass.previous,
                 left |-> pass.left \ {w.subject}, evaluated |-> pass.evaluated,
                 found |-> pass.found, walk |-> None]
    BY <1>1, <2>1, PassFields
  <2>3. pass.left \ {w.subject} \in SUBSET Subjects
    BY <1>3
  <2> QED
    BY <1>1, <1>3, <2>2, <2>3, PassMoves
<1>5. CASE ~ Refused(w, next)
  <2>1. pass' = [pass EXCEPT !.walk.got = @ \cup next, !.walk.had = @ + Cardinality(next)]
    BY <1>5 DEF ReadHistoryPage
  <2>2. PICK x : x = [w EXCEPT !.got = @ \cup next]
    OBVIOUS
  <2>3. PICK v : v = [x EXCEPT !.had = @ + Cardinality(next)]
    OBVIOUS
  <2>4. w = [subject |-> w.subject, head |-> w.head, got |-> w.got, had |-> w.had]
    BY <1>2 DEF Walks
  <2>5. x = [subject |-> w.subject, head |-> w.head, got |-> w.got \cup next,
             had |-> w.had]
    <3> HIDE DEF w, next
    <3> QED
      BY <2>2, <2>4
  <2>6. v = [subject |-> w.subject, head |-> w.head, got |-> w.got \cup next,
             had |-> w.had + Cardinality(next)]
    <3> HIDE DEF w, next
    <3> QED
      BY <2>3, <2>5
  <2>7. pass' = [pass EXCEPT !.walk = v]
    <3> HIDE DEF next
    <3>1. PICK q : q = [pass EXCEPT !.walk = x]
      OBVIOUS
    <3>2. q = [pass EXCEPT !.walk.got = @ \cup next]
      BY <2>2, <3>1
    <3>3. q.walk = x
      BY <1>1, <3>1, PassFields
    <3>4. pass' = [q EXCEPT !.walk.had = @ + Cardinality(next)]
      BY <2>1, <3>2
    <3>5. pass' = [q EXCEPT !.walk = v]
      BY <2>3, <3>3, <3>4
    <3> HIDE DEF w
    <3> QED
      BY <1>1, <3>1, <3>5, PassFields
  <2>8. histories[w.subject].count = w.head.count
    BY <1>5 DEF Refused
  <2>9. v.subject = w.subject /\ v.head = w.head /\ v.got = w.got \cup next
        /\ v.had = w.had + Cardinality(next)
    <3> HIDE DEF w, next
    <3> QED
      BY <2>6
  <2>10. histories \in [Subjects -> HistoryRows]
    BY DEF DiscInv
  <2>11. PICK ww : ww = w
    OBVIOUS
  <2>12. PICK nn : nn = next
    OBVIOUS
  <2>13. WalkIsTail(v) /\ v.got \in SUBSET (1..MaxActivities) /\ v.had \in Nat
    <3>1. ww \in Walks /\ WalkIsTail(ww) /\ ww.had < ww.head.count
          /\ histories[ww.subject].count = ww.head.count
          /\ nn = HistoryAt(ww.subject, ww.had)
      BY <1>1, <1>2, <2>8, <2>11, <2>12
    <3>2. v.subject = ww.subject /\ v.head = ww.head /\ v.got = ww.got \cup nn
          /\ v.had = ww.had + Cardinality(nn)
      BY <2>9, <2>11, <2>12
    <3> QED
      BY <2>10, <3>1, <3>2, WalkGoesOn
  <2>14. v \in Walks
    <3>1. w.subject \in Subjects /\ w.head \in HistoryRows
      BY <1>2 DEF Walks
    <3> HIDE DEF w, next
    <3> QED
      BY <2>6, <2>9, <2>13, <3>1 DEF Walks
  <2>15. pass' = [stage |-> "reading", previous |-> pass.previous, left |-> pass.left,
                  evaluated |-> pass.evaluated, found |-> pass.found, walk |-> v]
    BY <1>1, <2>7, PassFields
  <2> QED
    BY <1>1, <1>3, <2>13, <2>14, <2>15, PassMoves
<1> QED
  BY <1>4, <1>5

\* A walk ends.
LEMMA EndStep ==
    ASSUME DiscInv, NEW s \in Subjects, EndWalkOf(s)
    PROVE  DiscInv'
<1>1. PICK w, e : w = pass.walk /\ e = EvidenceOf(w.head, w.got)
  OBVIOUS
<1>2. /\ pass.stage = "reading" /\ w # None /\ w.had = w.head.count
      /\ UNCHANGED <<histories, flags, decided, review>>
      /\ pass' = [pass EXCEPT !.left = @ \ {s}, !.walk = None,
                              !.evaluated = @ \cup {s}, !.found[s] = e]
  BY <1>1 DEF EndWalkOf
<1>3. w \in Walks /\ WalkIsTail(w)
  BY <1>1, <1>2, PassFields
<1>4. e \in Findings \cup {None} /\ (e # None => WholeFinding(e))
  BY <1>1, <1>2, <1>3, WalkEndsWhole
<1>5. /\ pass.left \in SUBSET Subjects /\ pass.evaluated \in SUBSET Subjects
      /\ pass.found \in [Subjects -> Findings \cup {None}]
      /\ \A x \in Subjects : pass.found[x] # None => WholeFinding(pass.found[x])
  BY <1>2, PassFields
<1> DEFINE found == [pass.found EXCEPT ![s] = e]
<1>6. pass' = [stage |-> "reading", previous |-> pass.previous,
               left |-> pass.left \ {s}, evaluated |-> pass.evaluated \cup {s},
               found |-> found, walk |-> None]
  <2>1. PICK q : q = [pass EXCEPT !.left = @ \ {s}, !.walk = None, !.evaluated = @ \cup {s}]
    OBVIOUS
  <2>2. q = [stage |-> "reading", previous |-> pass.previous,
             left |-> pass.left \ {s}, evaluated |-> pass.evaluated \cup {s},
             found |-> pass.found, walk |-> None]
    BY <1>2, <2>1, PassFields
  <2>3. pass' = [q EXCEPT !.found = found]
    BY <1>2, <2>1, <2>2
  <2> HIDE DEF found
  <2> QED
    BY <2>2, <2>3
<1>7. found \in [Subjects -> Findings \cup {None}]
  BY <1>4, <1>5
<1>8. \A x \in Subjects : found[x] # None => WholeFinding(found[x])
  BY <1>4, <1>5
<1>9. pass.left \ {s} \in SUBSET Subjects /\ pass.evaluated \cup {s} \in SUBSET Subjects
  BY <1>5
<1>10. None # None => WalkIsTail(None)
  OBVIOUS
<1>11. UNCHANGED <<histories, flags, decided, review>> /\ pass.stage = "reading"
  BY <1>2
<1> HIDE DEF found
<1>12. PICK fn, left, ev : fn = found /\ left = pass.left \ {s} /\ ev = pass.evaluated \cup {s}
  OBVIOUS
<1> QED
  BY <1>6, <1>7, <1>8, <1>9, <1>10, <1>11, <1>12, PassMoves

\* A read fails.
LEMMA FailStep ==
    ASSUME DiscInv, NEW s \in Subjects, FailRead(s)
    PROVE  DiscInv'
<1>1. /\ pass.stage = "reading" /\ UNCHANGED <<histories, flags, decided, review>>
      /\ pass' = [pass EXCEPT !.left = @ \ {s}, !.walk = None]
  BY DEF FailRead
<1>2. pass' = [stage |-> "reading", previous |-> pass.previous, left |-> pass.left \ {s},
               evaluated |-> pass.evaluated, found |-> pass.found, walk |-> None]
  BY <1>1, PassFields
<1>3. /\ pass.left \ {s} \in SUBSET Subjects /\ pass.evaluated \in SUBSET Subjects
      /\ pass.found \in [Subjects -> Findings \cup {None}]
      /\ \A x \in Subjects : pass.found[x] # None => WholeFinding(pass.found[x])
  BY <1>1, PassFields
<1> QED
  BY <1>1, <1>2, <1>3, PassMoves

\* The pass saves what it loaded, with what it found, over whatever is there.
LEMMA SaveStep ==
    ASSUME DiscInv, SaveLedger
    PROVE  /\ DiscInv'
           /\ \A s \in Subjects : pass.previous[s] # None =>
                /\ flags'[s] # None
                /\ flags'[s].status \in {"OPEN", pass.previous[s].status}
                /\ flags'[s].detection = "NOT_DETECTED" =>
                    s \in pass.evaluated /\ pass.found[s] = None
<1>1. /\ pass.stage = "reading" /\ pass' = NoPass /\ UNCHANGED <<histories, decided, review>>
      /\ flags' = [s \in Subjects |->
                     Reevaluated(pass.previous[s], pass.found[s], s \in pass.evaluated)]
  BY DEF SaveLedger
<1>2. /\ pass.previous \in Ledgers /\ DecidedIn(pass.previous)
      /\ pass.found \in [Subjects -> Findings \cup {None}]
  BY <1>1, PassFields
<1>3. ASSUME NEW s \in Subjects
      PROVE  /\ flags'[s] \in FlagRow \cup {None}
             /\ flags'[s] # None /\ flags'[s].status # "OPEN" =>
                  /\ pass.previous[s] # None
                  /\ pass.previous[s].status = flags'[s].status
                  /\ pass.previous[s].fingerprint = flags'[s].fingerprint
             /\ pass.previous[s] # None =>
                  /\ flags'[s] # None
                  /\ flags'[s].status \in {"OPEN", pass.previous[s].status}
                  /\ flags'[s].detection = "NOT_DETECTED" =>
                       s \in pass.evaluated /\ pass.found[s] = None
  <2>1. PICK ev \in BOOLEAN : ev <=> s \in pass.evaluated
    <3>1. CASE s \in pass.evaluated
      BY <3>1
    <3>2. CASE s \notin pass.evaluated
      BY <3>2
    <3> QED
      BY <3>1, <3>2
  <2>2. flags'[s] = Reevaluated(pass.previous[s], pass.found[s], ev)
    BY <1>1, <2>1 DEF Reevaluated
  <2>3. /\ pass.previous[s] \in FlagRow \cup {None}
        /\ pass.found[s] \in Findings \cup {None}
    BY <1>2 DEF Ledgers
  <2>4. PICK r, old, found : r = flags'[s] /\ old = pass.previous[s] /\ found = pass.found[s]
    OBVIOUS
  <2>5. /\ r \in FlagRow \cup {None}
        /\ r # None /\ r.status # "OPEN" =>
             /\ old # None /\ old.status = r.status /\ old.fingerprint = r.fingerprint
        /\ old # None =>
             /\ r # None /\ r.status \in {"OPEN", old.status}
             /\ r.detection = "NOT_DETECTED" => ev /\ found = None
    BY <2>2, <2>3, <2>4, ReevaluatedRow
  <2> QED
    BY <2>1, <2>4, <2>5
<1>4. flags' \in Ledgers
  <2>1. PICK g : g = flags'
    OBVIOUS
  <2>2. \A s \in Subjects : g[s] \in FlagRow \cup {None}
    BY <1>3, <2>1
  <2>3. g = [s \in Subjects |-> g[s]]
    BY <1>1, <2>1
  <2>4. g \in Ledgers
    BY <2>2, <2>3 DEF Ledgers
  <2> QED
    BY <2>1, <2>4
<1>5. DecidedIn(flags)'
  BY <1>1, <1>2, <1>3 DEF DecidedIn
<1>6. histories' \in [Subjects -> HistoryRows] /\ review' \in ReviewStates
      /\ pass' \in PassStates
  BY <1>1 DEF DiscInv, PassStates
<1>7. review' # NoReview =>
          DecidedIn(review.loaded)' /\ review'.loaded[review'.subject] # None
  BY <1>1 DEF DiscInv, DecidedIn
<1>8. DiscInv'
  BY <1>1, <1>4, <1>5, <1>6, <1>7 DEF DiscInv
<1> QED
  BY <1>3, <1>8

\* A reviewer loads the ledger.
LEMMA ReviewLoads ==
    ASSUME DiscInv, NEW s \in Subjects, LoadForReview(s)
    PROVE  DiscInv' /\ pass' = pass
<1>1. PICK status \in ReviewStatuses :
         review' = [stage |-> "deciding", subject |-> s, status |-> status, loaded |-> flags]
  BY DEF LoadForReview
<1>2. flags[s] # None /\ UNCHANGED <<histories, flags, decided, pass>>
  BY DEF LoadForReview
<1>3. review' \in ReviewStates
  BY <1>1 DEF DiscInv, ReviewStates
<1>4. DecidedIn(flags)' /\ DecidedIn(review.loaded)'
      /\ review'.loaded[review'.subject] # None
  BY <1>1, <1>2 DEF DiscInv, DecidedIn
<1>5. pass' # NoPass =>
          /\ DecidedIn(pass.previous)'
          /\ (pass.walk # None => WalkIsTail(pass.walk))'
          /\ (\A x \in Subjects : pass.found[x] # None => WholeFinding(pass.found[x]))'
  BY <1>2 DEF DiscInv, DecidedIn, WalkIsTail, WholeFinding
<1>6. histories' \in [Subjects -> HistoryRows] /\ flags' \in Ledgers /\ pass' \in PassStates
  BY <1>2 DEF DiscInv
<1> QED
  BY <1>2, <1>3, <1>4, <1>5, <1>6 DEF DiscInv

\* The reviewer saves the ledger it loaded, with the decision: whatever is closed in
\* it was decided on the evidence it was loaded with.
LEMMA DecisionStep ==
    ASSUME DiscInv, SaveDecision
    PROVE  DiscInv' /\ pass' = pass
<1>1. PICK s, st, l, row : s = review.subject /\ st = review.status /\ l = review.loaded
                           /\ row = l[s]
  OBVIOUS
<1>2. /\ review.stage = "deciding" /\ flags' = [l EXCEPT ![s].status = st]
      /\ decided' = decided \cup {<<s, row.fingerprint, st>>}
      /\ review' = NoReview /\ UNCHANGED <<histories, pass>>
  BY <1>1 DEF SaveDecision
<1>3. review # NoReview
  BY <1>2 DEF NoReview
<1>4. /\ s \in Subjects /\ st \in ReviewStatuses /\ l \in Ledgers
      /\ row \in FlagRow /\ DecidedIn(l)
  BY <1>1, <1>3 DEF DiscInv, ReviewStates, Ledgers
<1>5. PICK new : new = [row EXCEPT !.status = st]
  OBVIOUS
<1>6. new \in FlagRow /\ new.status = st /\ new.fingerprint = row.fingerprint
  <2>1. row = [fingerprint |-> row.fingerprint, detection |-> row.detection,
               status |-> row.status]
    BY <1>4 DEF FlagRow
  <2>2. new = [fingerprint |-> row.fingerprint, detection |-> row.detection,
               status |-> st]
    BY <1>5, <2>1
  <2> QED
    BY <1>4, <2>2 DEF FlagRow
<1>7. flags' = [l EXCEPT ![s] = new]
  BY <1>1, <1>2, <1>5
<1>8. flags' \in Ledgers
  <2>1. l \in [Subjects -> FlagRow \cup {None}]
    BY <1>4 DEF Ledgers
  <2>2. [l EXCEPT ![s] = new] \in [Subjects -> FlagRow \cup {None}]
    BY <1>4, <1>6, <2>1
  <2> QED
    BY <1>7, <2>2 DEF Ledgers
<1>9. ASSUME NEW x \in Subjects, flags'[x] # None, flags'[x].status # "OPEN"
      PROVE  <<x, flags'[x].fingerprint, flags'[x].status>> \in decided'
  <2>1. l \in [Subjects -> FlagRow \cup {None}]
    BY <1>4 DEF Ledgers
  <2>2. CASE x = s
    BY <1>2, <1>4, <1>6, <1>7, <2>1, <2>2
  <2>3. CASE x # s
    <3>1. flags'[x] = l[x]
      BY <1>4, <1>7, <2>1, <2>3
    <3>2. <<x, l[x].fingerprint, l[x].status>> \in decided
      BY <1>4, <1>9, <3>1 DEF DecidedIn
    <3>3. <<x, flags'[x].fingerprint, flags'[x].status>> \in decided
      BY <3>1, <3>2
    <3> QED
      BY <1>2, <3>3
  <2> QED
    BY <2>2, <2>3
<1>10. DecidedIn(flags)'
  BY <1>9 DEF DecidedIn
<1>11. \A d : DecidedIn(d) => DecidedIn(d)'
  BY <1>2 DEF DecidedIn
<1>12. pass' # NoPass =>
          /\ DecidedIn(pass.previous)'
          /\ (pass.walk # None => WalkIsTail(pass.walk))'
          /\ (\A y \in Subjects : pass.found[y] # None => WholeFinding(pass.found[y]))'
  BY <1>2 DEF DiscInv, DecidedIn, WalkIsTail, WholeFinding
<1>13. histories' \in [Subjects -> HistoryRows] /\ pass' \in PassStates
       /\ review' \in ReviewStates
  BY <1>2 DEF DiscInv, ReviewStates
<1> QED
  BY <1>2, <1>8, <1>10, <1>12, <1>13 DEF DiscInv

\* What a pass may not do to the ledger it loaded.
ResolvesOnlyWhatItRead ==
    pass.stage = "reading" /\ pass' = NoPass /\ flags' # flags =>
        \A s \in Subjects : pass.previous[s] # None =>
            /\ flags'[s] # None
            /\ flags'[s].status \in {"OPEN", pass.previous[s].status}
            /\ flags'[s].detection = "NOT_DETECTED" =>
                s \in pass.evaluated /\ pass.found[s] = None

\* Every step keeps the invariant, and only SaveLedger ends a pass and changes the
\* ledger.
LEMMA DiscStep ==
    ASSUME DiscInv, [DiscrepanciesNext]_discrepancyVars
    PROVE  DiscInv' /\ ResolvesOnlyWhatItRead
<1> USE DEF ResolvesOnlyWhatItRead
<1>1. CASE UNCHANGED discrepancyVars
  BY <1>1 DEF DiscInv, DecidedIn, WalkIsTail, WholeFinding, discrepancyVars
<1>2. CASE \E s \in Subjects : RecordResolution(s) \/ ChangeState(s)
  BY <1>2, HistoriesStep
<1>3. CASE LoadLedger
  BY <1>3, LoadStep DEF LoadLedger
<1>4. CASE ReadHistoryPage
  BY <1>4, ReadStep DEF ReadHistoryPage
<1>5. CASE SaveLedger
  BY <1>5, SaveStep
<1>6. CASE StopPass
  <2>1. pass' = NoPass /\ UNCHANGED <<histories, flags, decided, review>>
    BY <1>6 DEF StopPass
  <2>2. NoPass \in PassStates
    BY DEF PassStates
  <2>3. DiscInv'
    BY <2>1, <2>2, PassGoesOn
  <2> QED
    BY <2>1, <2>3
<1>7. CASE \E s \in Subjects : StartWalkOf(s)
  BY <1>7, StartStep DEF StartWalkOf
<1>8. CASE \E s \in Subjects : EndWalkOf(s)
  BY <1>8, EndStep DEF EndWalkOf
<1>9. CASE \E s \in Subjects : FailRead(s)
  BY <1>9, FailStep DEF FailRead
<1>10. CASE \E s \in Subjects : LoadForReview(s)
  <2>1. DiscInv' /\ pass' = pass
    BY <1>10, ReviewLoads
  <2> QED
    BY <2>1 DEF NoPass
<1>11. CASE SaveDecision
  <2>1. DiscInv' /\ pass' = pass
    BY <1>11, DecisionStep
  <2> QED
    BY <2>1 DEF NoPass
<1> QED
  BY <1>1, <1>2, <1>3, <1>4, <1>5, <1>6, <1>7, <1>8, <1>9, <1>10, <1>11
     DEF DiscrepanciesNext

\* What is found whole is the first activities of the history, all of them.
LEMMA WholeMeansWhole ==
    ASSUME NEW f, WholeFinding(f)
    PROVE  f.resolutions = 1..Cardinality(f.resolutions)
<1>1. PICK n \in 0..MaxActivities : f.resolutions = 1..n
  BY DEF WholeFinding
<1>2. n \in Nat /\ 1 \in Int /\ n \in Int
  BY <1>1
<1>3. Cardinality(1..n) = IF 1 > n THEN 0 ELSE n - 1 + 1
  BY <1>2, FS_Interval
<1>4. Cardinality(1..n) = n
  BY <1>2, <1>3
<1> QED
  BY <1>1, <1>4

\* Passes and reviews that overlap close nothing unseen, find whole histories, and
\* resolve nothing by omission, however they interleave.
THEOREM DiscrepanciesAreSafe == DiscrepanciesSpec => DiscrepanciesSafe
<1>1. DiscrepanciesInit => DiscInv
  <2>1. SUFFICES ASSUME DiscrepanciesInit PROVE DiscInv
    OBVIOUS
  <2>2. histories \in [Subjects -> HistoryRows] /\ flags \in Ledgers
    BY <2>1, ActiveIsOpen, WorkerBounds DEF DiscrepanciesInit, HistoryRows, Ledgers
  <2>3. \A s \in Subjects : flags[s] = None
    BY <2>1 DEF DiscrepanciesInit
  <2> QED
    BY <2>1, <2>2, <2>3 DEF DiscrepanciesInit, DiscInv, PassStates, ReviewStates, DecidedIn
<1>2. DiscInv /\ [DiscrepanciesNext]_discrepancyVars => DiscInv' /\ ResolvesOnlyWhatItRead
  BY DiscStep
<1>3. DiscInv => DiscrepanciesTypeOK /\ ClosedWasDecided /\ WalkIsWhole
  <2>1. SUFFICES ASSUME DiscInv
                 PROVE  DiscrepanciesTypeOK /\ ClosedWasDecided /\ WalkIsWhole
    OBVIOUS
  <2>2. pass.stage \in {"idle", "reading"} /\ review.stage \in {"idle", "deciding"}
    BY <2>1 DEF DiscInv, PassStates, ReviewStates, NoPass, NoReview
  <2>3. DiscrepanciesTypeOK
    BY <2>1, <2>2 DEF DiscInv, DiscrepanciesTypeOK, HistoryRows, Ledgers
  <2>4. ClosedWasDecided
    BY <2>1 DEF DiscInv, DecidedIn, ClosedWasDecided
  <2>5. WalkIsWhole
    BY <2>1, PassFields, WholeMeansWhole DEF WalkIsWhole
  <2> QED
    BY <2>3, <2>4, <2>5
<1> QED
  BY <1>1, <1>2, <1>3, PTL DEF DiscrepanciesSpec, DiscrepanciesSafe, OmissionResolvesNothing,
     ResolvesOnlyWhatItRead

-----------------------------------------------------------------------------
(***************************************************************************)
(* Observations: recorded out of order, hidden and projected by any number *)
(* of handlers at once.                                                    *)
(***************************************************************************)
\* A row of the ledger: a NOMINAL observation has a fingerprint.
LedgerRows ==
    [kind : ObservationKinds, outcome : {"NOMINAL"}, fingerprint : Fingerprints,
     at : 1..MaxObservedAt, visible : BOOLEAN]
    \cup [kind : ObservationKinds, outcome : {"FAILED"}, fingerprint : {None},
          at : 1..MaxObservedAt, visible : BOOLEAN]

LedgerTyped == observations \in Seq(LedgerRows)

\* The row of current_status that a transaction has written covers the observation.
Covered(h, s) ==
    /\ observations[s].kind \in DOMAIN recording[h].held
    /\ observations[s].at <= observations[recording[h].held[observations[s].kind]].at

\* What a transaction holds is an observation of its own or one that is committed,
\* and none that is committed is of a later time.
HeldIsNewest(h) ==
    \A k \in DOMAIN recording[h].held :
        /\ k \in ObservationKinds
        /\ recording[h].held[k] \in DOMAIN observations
        /\ observations[recording[h].held[k]].kind = k
        /\ \/ recording[h].held[k] \in recording[h].mine
           \/ observations[recording[h].held[k]].visible
        /\ \A s \in OfKind(k) : observations[s].at <= observations[recording[h].held[k]].at

\* Of what a transaction has inserted, all but the last row before its upsert is
\* covered.
MineAreCovered(h) ==
    /\ recording[h].mine \subseteq DOMAIN observations
    /\ recording[h].stage = "idle" =>
        recording[h].mine = {} /\ DOMAIN recording[h].held = {}
    /\ recording[h].stage = "recording" => \A s \in recording[h].mine : Covered(h, s)
    /\ recording[h].stage = "projecting" =>
        \E s \in recording[h].mine : \A t \in recording[h].mine :
            t <= s /\ (t # s => Covered(h, t))

\* The rows of current_status a transaction has written, and the record of a handler.
HeldMaps == UNION {[K -> Nat] : K \in SUBSET ObservationKinds}
RecordingRows ==
    [stage : {"idle", "recording", "projecting"}, mine : SUBSET Nat, held : HeldMaps]

RecordingTyped == recording \in [Handlers -> RecordingRows]

\* A row of current_status is locked by one transaction.
OneHolder ==
    \A g, h \in Handlers :
        g # h => DOMAIN recording[g].held \cap DOMAIN recording[h].held = {}

RecordingSound ==
    /\ RecordingTyped /\ OneHolder
    /\ \A h \in Handlers : HeldIsNewest(h) /\ MineAreCovered(h)

\* What a read knew at its start is still there, and is no newer than its answer.
ReadingSound ==
    \/ reading = NotReading
    \/ /\ reading = [stage |-> reading.stage, since |-> reading.since,
                     fresh |-> reading.fresh, read |-> reading.read,
                     newest |-> reading.newest]
       /\ reading.stage \in DOMAIN NextStage \cup {"answered"}
       /\ reading.since \subseteq Seen
       /\ reading.stage \in {"sourced", "answered"} =>
            /\ reading.newest \in DOMAIN observations \cup {None}
            /\ \A s \in reading.since :
                observations[s].kind = "FRESHNESS_CHECK" =>
                    /\ reading.newest # None
                    /\ observations[s].at <= observations[reading.newest].at

ObsInv ==
    /\ LedgerTyped
    /\ currentStatus \in [ObservationKinds -> DOMAIN observations \cup {None}]
    /\ CurrentIsNewest /\ RecordingSound /\ ReadingSound

-----------------------------------------------------------------------------
(***************************************************************************)
(* The latest of a set of observations.                                    *)
(***************************************************************************)
\* A set of numbers has its smallest.
LEMMA EarliestExists ==
    ASSUME NEW S \in SUBSET Nat, S # {}
    PROVE  \E x \in S : \A y \in S : x <= y
<1> DEFINE Below == {ss \in Nat \X Nat : ss[1] < ss[2]}
<1>1. OpToRel(<, Nat) = Below
  BY DEF OpToRel
<1>2. IsWellFoundedOn(Below, Nat)
  BY <1>1, NatLessThanWellFounded
<1>3. \E x \in S : \A y \in S : ~(<<y, x>> \in Below)
  <2> HIDE DEF Below
  <2> QED
    BY <1>2, WFMin
<1>4. PICK x \in S : \A y \in S : ~(<<y, x>> \in Below)
  BY <1>3
<1>5. \A y \in S : x <= y
  <2> TAKE y \in S
  <2>1. x \in Nat /\ y \in Nat
    OBVIOUS
  <2>2. ~(y < x)
    BY <1>4, <2>1
  <2> QED
    BY <2>1, <2>2
<1> QED
  BY <1>5

\* A set of numbers that has a bound has its greatest.
LEMMA LastExists ==
    ASSUME NEW n \in Nat, NEW S \in SUBSET (0..n), S # {}
    PROVE  \E x \in S : \A y \in S : y <= x
<1> DEFINE Rest == {n - x : x \in S}
<1>1. Rest \in SUBSET Nat /\ Rest # {}
  <2>1. \A x \in S : x \in 0..n /\ n - x \in Nat
    OBVIOUS
  <2> QED
    BY <2>1
<1>2. PICK r \in Rest : \A q \in Rest : r <= q
  <2> HIDE DEF Rest
  <2> QED
    BY <1>1, EarliestExists
<1>3. PICK x \in S : r = n - x
  OBVIOUS
<1>4. \A y \in S : y <= x
  <2> TAKE y \in S
  <2>1. n - x <= n - y
    BY <1>2, <1>3
  <2>2. x \in 0..n /\ y \in 0..n
    OBVIOUS
  <2> QED
    BY <2>1, <2>2
<1> QED
  BY <1>4

\* Where s comes in the order of the ledger's readers: not before t.
NotBefore(s, t) ==
    \/ observations[t].at < observations[s].at
    \/ observations[t].at = observations[s].at /\ t <= s

\* The latest of a set of observations is one of them, and none is after it.
LEMMA LatestIsLatest ==
    ASSUME LedgerTyped, NEW S \in SUBSET DOMAIN observations, S # {}
    PROVE  Latest(S) \in S /\ \A t \in S : NotBefore(Latest(S), t)
<1>1. \A s \in S : s \in 1..Len(observations) /\ observations[s].at \in 1..MaxObservedAt
  BY DEF LedgerTyped, LedgerRows
<1>2. MaxObservedAt \in Nat /\ Len(observations) \in Nat
  BY ObservationBounds DEF LedgerTyped
<1> DEFINE Times == {observations[s].at : s \in S}
<1>3. PICK m \in Times : \A n \in Times : n <= m
  <2>1. Times \in SUBSET (0..MaxObservedAt) /\ Times # {}
    BY <1>1, <1>2
  <2> HIDE DEF Times
  <2> QED
    BY <2>1, <1>2, LastExists
<1> DEFINE Last == {s \in S : observations[s].at = m}
<1>4. PICK s \in Last : \A t \in Last : t <= s
  <2>1. Last \in SUBSET (0..Len(observations)) /\ Last # {}
    BY <1>1, <1>2
  <2> HIDE DEF Last
  <2> QED
    BY <2>1, <1>2, LastExists
<1>5. s \in S /\ \A t \in S : NotBefore(s, t)
  <2>1. s \in S /\ observations[s].at = m
    OBVIOUS
  <2>2. ASSUME NEW t \in S PROVE NotBefore(s, t)
    <3>1. observations[t].at <= m /\ observations[t].at \in Nat /\ m \in Nat
      BY <1>1, <1>2, <1>3, <2>1
    <3>2. CASE observations[t].at = m
      BY <1>4, <2>1, <3>2 DEF NotBefore
    <3>3. CASE observations[t].at # m
      BY <2>1, <3>1, <3>3 DEF NotBefore
    <3> QED
      BY <3>2, <3>3
  <2> QED
    BY <2>1, <2>2
<1>6. \E x \in S : \A t \in S :
          \/ observations[t].at < observations[x].at
          \/ observations[t].at = observations[x].at /\ t <= x
  BY <1>5 DEF NotBefore
<1> QED
  BY <1>6 DEF Latest, NotBefore

\* When the latest observation of a subject succeeded, it is also the latest that did.
LEMMA LatestIfSuccessful ==
    ASSUME LedgerTyped, NEW k, OfKind(k) # {},
           observations[Latest(OfKind(k))].outcome = "NOMINAL"
    PROVE  Successful(k) # {} /\ Latest(Successful(k)) = Latest(OfKind(k))
<1> DEFINE s == Latest(OfKind(k))
           t == Latest(Successful(k))
<1>1. OfKind(k) \in SUBSET DOMAIN observations /\ Successful(k) \in SUBSET OfKind(k)
  BY DEF OfKind, Seen, Successful
<1>2. s \in OfKind(k) /\ \A x \in OfKind(k) : NotBefore(s, x)
  BY <1>1, LatestIsLatest
<1>3. s \in Successful(k)
  BY <1>2 DEF Successful
<1>4. t \in Successful(k) /\ \A x \in Successful(k) : NotBefore(t, x)
  BY <1>1, <1>3, LatestIsLatest
<1>5. NotBefore(s, t) /\ NotBefore(t, s)
  BY <1>1, <1>2, <1>3, <1>4
<1>6. /\ s \in Nat /\ t \in Nat
      /\ observations[s].at \in Nat /\ observations[t].at \in Nat
  <2>1. s \in 1..Len(observations) /\ t \in 1..Len(observations) /\ Len(observations) \in Nat
    BY <1>1, <1>2, <1>4 DEF LedgerTyped
  <2>2. observations[s] \in LedgerRows /\ observations[t] \in LedgerRows
    BY <2>1 DEF LedgerTyped
  <2> QED
    BY <2>1, <2>2, ObservationBounds DEF LedgerRows
<1>7. s = t
  <2> HIDE DEF s, t
  <2> QED
    BY <1>5, <1>6 DEF NotBefore
<1> QED
  BY <1>3, <1>7

-----------------------------------------------------------------------------
(***************************************************************************)
(* What is derived from the evidence.                                      *)
(***************************************************************************)
\* The row a statement reads is None, or has the outcome of its observation.
EvidenceRows ==
    [outcome : {"NOMINAL"}, at : Nat, fingerprint : Fingerprints]
    \cup [outcome : {"FAILED"}, at : Nat, fingerprint : {None}]

\* How the four rows of artifact_status, read at one moment, hang together.
Coherent(attempt, generated, source, sourced) ==
    /\ {attempt, generated, source, sourced} \subseteq EvidenceRows \cup {None}
    /\ generated # None => generated.outcome = "NOMINAL" /\ attempt # None
    /\ sourced # None => sourced.outcome = "NOMINAL" /\ source # None
    /\ source # None /\ source.outcome = "NOMINAL" => sourced = source

\* A derived state that follows from coherent evidence reports a drift exactly when
\* the two last successes differ, and a FRESH artifact has no condition.
LEMMA DriftIsReported ==
    ASSUME NEW attempt, NEW generated, NEW source, NEW sourced, NEW maxAge, NEW now,
           Coherent(attempt, generated, source, sourced), NEW e,
           e.attempt = attempt, e.generated = generated, e.source = source,
           e.sourced = sourced, e.maxAge = maxAge, e.now = now
    PROVE  /\ "DRIFTED" \in DeriveConditions(e, "DECLARED", {}) <=>
                /\ generated # None /\ sourced # None
                /\ generated.fingerprint # sourced.fingerprint
           /\ DeriveFreshness(e).state = "FRESH" =>
                DeriveConditions(e, "DECLARED", {}) = {}
<1> DEFINE f == DeriveFreshness(e)
           differ == /\ generated # None /\ sourced # None
                     /\ generated.fingerprint # sourced.fingerprint
           historical == Correspondence(FingerprintOf(generated), FingerprintOf(sourced))
           current == Correspondence(FingerprintOf(generated), FingerprintOf(source))
           age == IF maxAge = Absent THEN "UNBOUNDED_TRANSITIONAL"
                  ELSE IF Expired(e) THEN "EXPIRED" ELSE "CURRENT"
           unread == IF source = Absent THEN "ABSENT" ELSE "UNUSABLE"
<1>1. /\ e.attempt = attempt /\ e.generated = generated /\ e.source = source
      /\ e.sourced = sourced /\ e.maxAge = maxAge /\ e.now = now
  OBVIOUS
<1>2. /\ \A r \in EvidenceRows : r # None /\ r.outcome \in {"NOMINAL", "FAILED"}
      /\ \A r \in EvidenceRows : r.outcome = "NOMINAL" => r.fingerprint \in Fingerprints
      /\ None \notin Fingerprints /\ Absent = None
  <2>1. ASSUME NEW r \in EvidenceRows PROVE r # None
    <3>1. r \in [outcome : {"NOMINAL", "FAILED"}, at : Nat,
                 fingerprint : Fingerprints \cup {None}]
      BY DEF EvidenceRows
    <3> QED
      BY <3>1, NoneIsNoEvidence
  <2>2. ASSUME NEW r \in EvidenceRows
        PROVE  /\ r.outcome \in {"NOMINAL", "FAILED"}
               /\ r.outcome = "NOMINAL" => r.fingerprint \in Fingerprints
    BY DEF EvidenceRows
  <2> QED
    BY <2>1, <2>2, AbsentIsNone
<1>3. historical = "MISMATCH" <=> differ
  BY <1>2 DEF Coherent, Correspondence, FingerprintOf, Usable
<1>4. source # None /\ source.outcome = "NOMINAL" => (current = "MISMATCH" <=> differ)
  BY <1>2 DEF Coherent, Correspondence, FingerprintOf, Usable
<1>5. \/ f = Answered("NEVER_GENERATED", "NO_SUCCESSFUL_GENERATION", historical, unread)
      \/ f = Answered("FAILED", "LATEST_GENERATION_FAILED", historical, unread)
      \/ f = Answered("UNKNOWN", "LATEST_GENERATION_NOT_NOMINAL", historical, unread)
      \/ f = Answered("UNKNOWN", "SOURCE_UNOBSERVED", historical, unread)
      \/ f = Answered("UNKNOWN", "SOURCE_OBSERVATION_FAILED", historical, unread)
      \/ /\ source # None /\ source.outcome = "NOMINAL"
         /\ \/ current = "MISMATCH" /\ f = Answered("DRIFTED", "SOURCE_CHANGED", current, age)
            \/ current # "MISMATCH"
               /\ f = Answered("UNKNOWN", "SOURCE_OBSERVATION_EXPIRED", current, age)
            \/ current # "MISMATCH" /\ age # "EXPIRED"
               /\ f = Answered("FRESH", "FINGERPRINTS_MATCH", current, age)
  <2>1. CASE generated = None
    BY <1>1, <1>2, <2>1 DEF DeriveFreshness
  <2>2. CASE generated # None /\ ~Usable(attempt)
    BY <1>1, <1>2, <2>2 DEF DeriveFreshness
  <2>3. CASE generated # None /\ Usable(attempt) /\ source = None
    BY <1>1, <1>2, <2>3 DEF DeriveFreshness, Usable
  <2>4. CASE generated # None /\ Usable(attempt) /\ source # None /\ ~Usable(source)
    <3>1. source.outcome = "FAILED"
      BY <1>2, <2>4 DEF Coherent, Usable
    <3>2. f = Answered("UNKNOWN", SourceReason[source.outcome], historical, unread)
      BY <1>1, <1>2, <2>4 DEF DeriveFreshness
    <3> QED
      BY <3>1, <3>2 DEF SourceReason
  <2>5. CASE generated # None /\ Usable(attempt) /\ Usable(source)
    <3>1. source # None /\ source.outcome = "NOMINAL"
      BY <1>2, <2>5 DEF Usable
    <3>2. f = IF current = "MISMATCH"
              THEN Answered("DRIFTED", "SOURCE_CHANGED", current, age)
              ELSE IF Expired(e)
              THEN Answered("UNKNOWN", "SOURCE_OBSERVATION_EXPIRED", current, age)
              ELSE Answered("FRESH", "FINGERPRINTS_MATCH", current, age)
      BY <1>1, <1>2, <2>5, <3>1 DEF DeriveFreshness
    <3> QED
      BY <3>1, <3>2
  <2> QED
    BY <1>2, <2>1, <2>2, <2>3, <2>4, <2>5 DEF Coherent
<1>6. \A x \in {} : FALSE
  OBVIOUS
<1>7. "DRIFTED" \in DeriveConditions(e, "DECLARED", {}) <=>
          \/ f.state = "DRIFTED" /\ f.reason = "SOURCE_CHANGED"
          \/ f.correspondence = "MISMATCH"
  BY DEF DeriveConditions
<1>8. \A k \in DeriveConditions(e, "DECLARED", {}) :
          \/ f.state = "DRIFTED" \/ f.correspondence = "MISMATCH"
          \/ f.state = "FAILED" \/ f.reason = "SOURCE_UNOBSERVED"
          \/ f.reason = "SOURCE_OBSERVATION_FAILED" \/ f.sourceStatus = "EXPIRED"
  <2> TAKE k \in DeriveConditions(e, "DECLARED", {})
  <2>1. ~CataloguesMissing({}) /\ ~CataloguesDrifted({})
    BY DEF CataloguesMissing, CataloguesDrifted
  <2>2. SourceReason.FAILED = "SOURCE_OBSERVATION_FAILED"
    BY DEF SourceReason
  <2>3. k \in {"DRIFTED", "GENERATION_FAILED", "SOURCE_OBSERVATION_MISSING",
               "SOURCE_OBSERVATION_FAILED", "SOURCE_OBSERVATION_EXPIRED",
               "EXECUTION_CONTRACT_MISSING", "EXECUTION_OWNER_INACTIVE",
               "CATALOGUES_MISSING", "CATALOGUES_DRIFTED"}
    BY DEF DeriveConditions
  <2>4. /\ "EXECUTION_CONTRACT_MISSING" \notin DeriveConditions(e, "DECLARED", {})
        /\ "EXECUTION_OWNER_INACTIVE" \notin DeriveConditions(e, "DECLARED", {})
    BY DEF DeriveConditions
  <2>7. "CATALOGUES_MISSING" \notin DeriveConditions(e, "DECLARED", {})
    BY <2>1 DEF DeriveConditions
  <2>8. "CATALOGUES_DRIFTED" \notin DeriveConditions(e, "DECLARED", {})
    BY <2>1 DEF DeriveConditions
  <2>5. /\ "GENERATION_FAILED" \in DeriveConditions(e, "DECLARED", {}) => f.state = "FAILED"
        /\ "SOURCE_OBSERVATION_MISSING" \in DeriveConditions(e, "DECLARED", {})
           => f.reason = "SOURCE_UNOBSERVED"
    BY DEF DeriveConditions
  <2>9. /\ "SOURCE_OBSERVATION_FAILED" \in DeriveConditions(e, "DECLARED", {})
           => f.reason = SourceReason.FAILED
        /\ "SOURCE_OBSERVATION_EXPIRED" \in DeriveConditions(e, "DECLARED", {})
           => f.sourceStatus = "EXPIRED"
    BY DEF DeriveConditions
  <2>6. k = "DRIFTED" => f.state = "DRIFTED" \/ f.correspondence = "MISMATCH"
    BY <1>7
  <2> QED
    BY <2>2, <2>3, <2>4, <2>5, <2>6, <2>7, <2>8, <2>9
<1> HIDE DEF f, historical, current, age, unread
<1>9. "DRIFTED" \in DeriveConditions(e, "DECLARED", {}) <=> differ
  BY <1>3, <1>4, <1>5, <1>7 DEF Answered
<1>10. f.state = "FRESH" => DeriveConditions(e, "DECLARED", {}) = {}
  BY <1>5, <1>8 DEF Answered
<1> QED
  BY <1>9, <1>10 DEF f

\* What is read of the ledger at one moment hangs together.
LEMMA EvidenceIsCoherent ==
    ASSUME LedgerTyped
    PROVE  Coherent(EvidenceNow.attempt, EvidenceNow.generated,
                    EvidenceNow.source, EvidenceNow.sourced)
<1>1. ASSUME NEW s \in DOMAIN observations
      PROVE  /\ Row(s) \in EvidenceRows /\ Row(s).outcome = observations[s].outcome
             /\ Row(s) # None
  <2>1. observations[s] \in LedgerRows /\ s \in Nat
    BY DEF LedgerTyped
  <2>2. s # None
    BY <2>1, NoneIsNoEvidence
  <2>3. Row(s) \in EvidenceRows /\ Row(s).outcome = observations[s].outcome
    BY <2>1, <2>2, ObservationBounds DEF Row, LedgerRows, EvidenceRows
  <2>4. Row(s) \in [outcome : {"NOMINAL", "FAILED"}, at : Nat,
                    fingerprint : Fingerprints \cup {None}]
    BY <2>3 DEF EvidenceRows
  <2> QED
    BY <2>3, <2>4, NoneIsNoEvidence
<1>2. ASSUME NEW k \in ObservationKinds
      PROVE  /\ Row(Latest(OfKind(k))) \in EvidenceRows \cup {None}
             /\ Row(Latest(Successful(k))) \in EvidenceRows \cup {None}
             /\ Row(Latest(Successful(k))) # None =>
                  /\ Row(Latest(Successful(k))).outcome = "NOMINAL"
                  /\ Row(Latest(OfKind(k))) # None
             /\ Row(Latest(OfKind(k))) # None /\ Row(Latest(OfKind(k))).outcome = "NOMINAL"
                => Row(Latest(Successful(k))) = Row(Latest(OfKind(k)))
  <2>1. OfKind(k) \in SUBSET DOMAIN observations /\ Successful(k) \in SUBSET OfKind(k)
    BY DEF OfKind, Seen, Successful
  <2>2. OfKind(k) = {} => Row(Latest(OfKind(k))) = None
    BY DEF Latest, Row
  <2>3. Successful(k) = {} => Row(Latest(Successful(k))) = None
    BY DEF Latest, Row
  <2>4. OfKind(k) # {} => Latest(OfKind(k)) \in DOMAIN observations
    BY <2>1, LatestIsLatest
  <2>5. Successful(k) # {} =>
          /\ Latest(Successful(k)) \in DOMAIN observations
          /\ observations[Latest(Successful(k))].outcome = "NOMINAL"
    <3>1. Successful(k) \in SUBSET DOMAIN observations
      BY <2>1
    <3>2. Successful(k) # {} => Latest(Successful(k)) \in Successful(k)
      BY <3>1, LatestIsLatest
    <3> QED
      BY <3>1, <3>2 DEF Successful
  <2>6. /\ Row(Latest(OfKind(k))) \in EvidenceRows \cup {None}
        /\ Row(Latest(Successful(k))) \in EvidenceRows \cup {None}
    BY <1>1, <2>2, <2>3, <2>4, <2>5
  <2>7. Row(Latest(Successful(k))) # None =>
          /\ Row(Latest(Successful(k))).outcome = "NOMINAL"
          /\ Row(Latest(OfKind(k))) # None
    BY <1>1, <2>1, <2>3, <2>4, <2>5
  <2>8. Row(Latest(OfKind(k))) # None /\ Row(Latest(OfKind(k))).outcome = "NOMINAL"
        => Row(Latest(Successful(k))) = Row(Latest(OfKind(k)))
    <3>1. SUFFICES ASSUME OfKind(k) # {}, Row(Latest(OfKind(k))).outcome = "NOMINAL"
                   PROVE  Latest(Successful(k)) = Latest(OfKind(k))
      BY <2>2
    <3>2. observations[Latest(OfKind(k))].outcome = "NOMINAL"
      BY <1>1, <2>4, <3>1
    <3> QED
      BY <3>1, <3>2, LatestIfSuccessful
  <2> QED
    BY <2>6, <2>7, <2>8
<1>3. /\ EvidenceNow.attempt = Row(Latest(OfKind("GENERATION")))
      /\ EvidenceNow.generated = Row(Latest(Successful("GENERATION")))
      /\ EvidenceNow.source = Row(Latest(OfKind("FRESHNESS_CHECK")))
      /\ EvidenceNow.sourced = Row(Latest(Successful("FRESHNESS_CHECK")))
  BY DEF EvidenceNow
<1>4. "GENERATION" \in ObservationKinds /\ "FRESHNESS_CHECK" \in ObservationKinds
  BY DEF ObservationKinds
<1> QED
  BY <1>2, <1>3, <1>4 DEF Coherent

\* No drift is hidden, and nothing is FRESH that has a condition of its evidence.
LEMMA NoDriftIsHidden ==
    ASSUME LedgerTyped
    PROVE  DriftIsNotHidden
<1> SUFFICES ASSUME NEW maxAge, NEW now
             PROVE  LET e == [EvidenceNow EXCEPT !.maxAge = maxAge, !.now = now]
                        derived == DeriveConditions(e, "DECLARED", {})
                        differ == /\ e.generated # None /\ e.sourced # None
                                  /\ e.generated.fingerprint # e.sourced.fingerprint
                    IN  /\ "DRIFTED" \in derived <=> differ
                        /\ DeriveFreshness(e).state = "FRESH" => derived = {}
  BY DEF DriftIsNotHidden
<1> DEFINE e == [EvidenceNow EXCEPT !.maxAge = maxAge, !.now = now]
<1>1. /\ e.attempt = EvidenceNow.attempt /\ e.generated = EvidenceNow.generated
      /\ e.source = EvidenceNow.source /\ e.sourced = EvidenceNow.sourced
      /\ e.maxAge = maxAge /\ e.now = now
  <2>1. PICK a, g, c, d : EvidenceNow = [attempt |-> a, generated |-> g, source |-> c,
                                         sourced |-> d, maxAge |-> None, now |-> 0]
    BY DEF EvidenceNow
  <2> QED
    BY <2>1
<1> HIDE DEF e
<1>2. /\ "DRIFTED" \in DeriveConditions(e, "DECLARED", {}) <=>
            /\ EvidenceNow.generated # None /\ EvidenceNow.sourced # None
            /\ EvidenceNow.generated.fingerprint # EvidenceNow.sourced.fingerprint
      /\ DeriveFreshness(e).state = "FRESH" => DeriveConditions(e, "DECLARED", {}) = {}
  BY <1>1, EvidenceIsCoherent, DriftIsReported
<1> QED
  BY <1>1, <1>2 DEF e

-----------------------------------------------------------------------------
(***************************************************************************)
(* The steps.                                                              *)
(***************************************************************************)
\* What the rows of the ledger are.
LEMMA RowsOfTheLedger ==
    ASSUME LedgerTyped
    PROVE  /\ Len(observations) \in Nat
           /\ DOMAIN observations = 1..Len(observations)
           /\ \A s \in DOMAIN observations :
                /\ observations[s] \in LedgerRows
                /\ observations[s].kind \in ObservationKinds
                /\ observations[s].at \in Nat /\ observations[s].visible \in BOOLEAN
                /\ s \in Nat /\ s # None
<1>1. Len(observations) \in Nat /\ DOMAIN observations = 1..Len(observations)
  BY DEF LedgerTyped
<1>2. ASSUME NEW s \in DOMAIN observations
      PROVE  /\ observations[s] \in LedgerRows
             /\ observations[s].kind \in ObservationKinds
             /\ observations[s].at \in Nat /\ observations[s].visible \in BOOLEAN
             /\ s \in Nat /\ s # None
  <2>1. observations[s] \in LedgerRows /\ s \in Nat
    BY <1>1 DEF LedgerTyped
  <2>2. s # None
    BY <2>1, NoneIsNoEvidence
  <2> QED
    BY <2>1, <2>2, ObservationBounds DEF LedgerRows
<1> QED
  BY <1>1, <1>2

\* A handler's record has its three fields.
LEMMA RecordingFields ==
    ASSUME RecordingTyped, NEW h \in Handlers
    PROVE  \E a \in {"idle", "recording", "projecting"}, b \in SUBSET Nat, c \in HeldMaps :
              recording[h] = [stage |-> a, mine |-> b, held |-> c]
BY DEF RecordingTyped, RecordingRows

\* A row that is inserted is seen by no one: the ledger is as it was to its readers.
LEMMA InsertStep ==
    ASSUME ObsInv, NEW h \in Handlers, NEW o \in Observation, InsertObservation(h, o)
    PROVE  ObsInv'
<1> DEFINE n == Len(observations) + 1
           row == [kind |-> o.kind, outcome |-> o.outcome, fingerprint |-> o.fingerprint,
                   at |-> o.at, visible |-> FALSE]
<1>1. LedgerTyped /\ row \in LedgerRows
  BY DEF ObsInv, Observation, LedgerRows
<1>2. /\ Len(observations) \in Nat /\ n \in Nat /\ n \notin DOMAIN observations
      /\ DOMAIN observations = 1..Len(observations)
      /\ \A s \in DOMAIN observations : s < n /\ s \in Nat
      /\ \A s \in DOMAIN observations : observations[s].kind \in ObservationKinds
  BY <1>1, RowsOfTheLedger
<1>3. /\ LedgerTyped' /\ DOMAIN observations' = DOMAIN observations \cup {n}
      /\ \A s \in DOMAIN observations : observations'[s] = observations[s]
      /\ observations'[n] = row
  <2>1. observations' = Append(observations, row)
    BY DEF InsertObservation
  <2> HIDE DEF row
  <2> QED
    BY <1>1, <1>2, <2>1 DEF LedgerTyped
<1>4. /\ Seen' = Seen /\ Seen \subseteq DOMAIN observations
      /\ \A k : OfKind(k)' = OfKind(k) /\ OfKind(k) \subseteq DOMAIN observations
  BY <1>3 DEF Seen, OfKind
<1>5. /\ recording[h].stage \in {"idle", "recording"} /\ recording'[h].stage = "projecting"
      /\ recording'[h].mine = recording[h].mine \cup {n}
      /\ \A g \in Handlers : recording'[g].held = recording[g].held
      /\ \A g \in Handlers \ {h} : recording'[g] = recording[g]
      /\ RecordingTyped'
  <2>1. PICK a \in {"idle", "recording", "projecting"}, b \in SUBSET Nat, c \in HeldMaps :
            recording[h] = [stage |-> a, mine |-> b, held |-> c]
    BY RecordingFields DEF ObsInv, RecordingSound
  <2>4. recording' = [recording EXCEPT ![h].stage = "projecting",
                                       ![h].mine = @ \cup {n}]
    BY DEF InsertObservation
  <2>2. recording' = [recording EXCEPT ![h] =
                          [stage |-> "projecting", mine |-> b \cup {n}, held |-> c]]
    <3> HIDE DEF n
    <3>1. PICK r : r = [recording[h] EXCEPT !.stage = "projecting"]
      OBVIOUS
    <3>2. r = [stage |-> "projecting", mine |-> b, held |-> c]
      BY <2>1, <3>1
    <3>3. [r EXCEPT !.mine = @ \cup {n}] =
              [stage |-> "projecting", mine |-> b \cup {n}, held |-> c]
      BY <3>2
    <3> QED
      BY <2>4, <3>1, <3>3 DEF ObsInv, RecordingSound, RecordingTyped
  <2>3. RecordingTyped'
    BY <1>2, <2>1, <2>2 DEF ObsInv, RecordingSound, RecordingTyped, RecordingRows
  <2>5. recording[h].stage \in {"idle", "recording"}
    BY DEF InsertObservation
  <2> QED
    BY <2>1, <2>2, <2>3, <2>5 DEF ObsInv, RecordingSound, RecordingTyped
<1>6. UNCHANGED <<currentStatus, reading>>
  BY DEF InsertObservation
<1>7. /\ currentStatus' \in [ObservationKinds -> DOMAIN observations' \cup {None}]
      /\ CurrentIsNewest'
  <2>1. CurrentIsNewest'
    BY <1>3, <1>4, <1>6 DEF ObsInv, CurrentIsNewest
  <2> QED
    BY <2>1, <1>3, <1>6 DEF ObsInv
<1>8. OneHolder'
  BY <1>5 DEF ObsInv, RecordingSound, OneHolder
<1>9. ASSUME NEW g \in Handlers PROVE HeldIsNewest(g)' /\ MineAreCovered(g)'
  <2>1. HeldIsNewest(g) /\ MineAreCovered(g)
    BY DEF ObsInv, RecordingSound
  <2>2. recording[g].mine \subseteq recording'[g].mine
    BY <1>5
  <2>3. HeldIsNewest(g)'
    BY <1>3, <1>4, <1>5, <2>1, <2>2 DEF HeldIsNewest
  <2>4. \A s \in recording[g].mine : Covered(g, s) => Covered(g, s)'
    <3> SUFFICES ASSUME NEW s \in recording[g].mine, Covered(g, s) PROVE Covered(g, s)'
      OBVIOUS
    <3>1. s \in DOMAIN observations /\ observations[s].kind \in DOMAIN recording[g].held
      BY <2>1 DEF MineAreCovered, Covered
    <3>2. recording[g].held[observations[s].kind] \in DOMAIN observations
      BY <2>1, <3>1 DEF HeldIsNewest
    <3> QED
      BY <1>3, <1>5, <3>1, <3>2 DEF Covered
  <2>5. CASE g = h
    <3>1. recording'[g].mine \subseteq DOMAIN observations'
      BY <1>3, <1>5, <2>1, <2>5 DEF MineAreCovered
    <3>2. \A t \in recording[g].mine : t < n /\ t \in Nat
      BY <1>2, <2>1 DEF MineAreCovered
    <3>3. \A t \in recording[g].mine : Covered(g, t)
      BY <1>5, <2>1, <2>5 DEF MineAreCovered
    <3>4. \A t \in recording'[g].mine : t <= n /\ (t # n => Covered(g, t)')
      BY <1>2, <1>5, <2>4, <2>5, <3>2, <3>3
    <3>5. n \in recording'[g].mine /\ recording'[g].stage = "projecting"
      BY <1>5, <2>5
    <3> QED
      BY <2>3, <3>1, <3>4, <3>5 DEF MineAreCovered
  <2>6. CASE g # h
    <3>1. recording'[g] = recording[g]
      BY <1>5, <2>6
    <3>2. recording'[g].mine \subseteq DOMAIN observations'
      BY <1>3, <2>1, <3>1 DEF MineAreCovered
    <3> QED
      BY <2>1, <2>3, <2>4, <3>1, <3>2 DEF MineAreCovered
  <2> QED
    BY <2>5, <2>6
<1>10. ReadingSound'
  <2>1. CASE reading = NotReading
    BY <1>6, <2>1 DEF ReadingSound
  <2>2. CASE reading # NotReading
    <3>1. /\ reading.since \subseteq Seen
          /\ reading' = reading
      BY <1>6, <2>2 DEF ObsInv, ReadingSound
    <3> QED
      BY <1>3, <1>4, <2>2, <3>1 DEF ObsInv, ReadingSound
  <2> QED
    BY <2>1, <2>2
<1> QED
  BY <1>3, <1>5, <1>7, <1>8, <1>9, <1>10 DEF ObsInv, RecordingSound

\* An upsert holds the row of its kind from then on, and covers the row inserted last.
LEMMA ProjectStep ==
    ASSUME ObsInv, NEW h \in Handlers, ProjectStatus(h)
    PROVE  ObsInv'
<1>1. LedgerTyped /\ HeldIsNewest(h) /\ MineAreCovered(h) /\ recording[h].stage = "projecting"
  BY DEF ObsInv, RecordingSound, ProjectStatus
<1>2. PICK s \in recording[h].mine : \A t \in recording[h].mine :
          t <= s /\ (t # s => Covered(h, t))
  BY <1>1 DEF MineAreCovered
<1>3. /\ s \in DOMAIN observations
      /\ \A t \in DOMAIN observations : t \in Nat /\ observations[t].at \in Nat /\ t # None
      /\ observations[s].kind \in ObservationKinds
      /\ recording[h].mine \subseteq DOMAIN observations
  BY <1>1, RowsOfTheLedger DEF MineAreCovered
<1>4. (CHOOSE x \in recording[h].mine : \A t \in recording[h].mine : t <= x) = s
  <2>1. \A x \in recording[h].mine : (\A t \in recording[h].mine : t <= x) => x = s
    BY <1>2, <1>3
  <2> QED
    BY <1>2, <2>1
<1> DEFINE kind == observations[s].kind
           was == StatusSeen(h, kind)
           new == IF was = None \/ observations[s].at >= observations[was].at THEN s ELSE was
<1>5. /\ StatusFree(kind, h)
      /\ recording' = [recording EXCEPT
               ![h].stage = "recording",
               ![h].held = [k \in DOMAIN @ \cup {kind} |-> IF k = kind THEN new ELSE @[k]]]
      /\ UNCHANGED <<observations, currentStatus, reading>>
  <2> DEFINE top == CHOOSE x \in recording[h].mine : \A t \in recording[h].mine : t <= x
             seen == StatusSeen(h, observations[top].kind)
             next == IF seen = None \/ observations[top].at >= observations[seen].at
                     THEN top ELSE seen
  <2>1. /\ StatusFree(observations[top].kind, h)
        /\ recording' = [recording EXCEPT
               ![h].stage = "recording",
               ![h].held = [k \in DOMAIN @ \cup {observations[top].kind} |->
                              IF k = observations[top].kind THEN next ELSE @[k]]]
        /\ UNCHANGED <<observations, currentStatus, reading>>
    BY DEF ProjectStatus
  <2>2. top = s
    BY <1>4
  <2> HIDE DEF top
  <2> QED
    BY <2>1, <2>2
<1>6. /\ new \in DOMAIN observations /\ observations[new].kind = kind
      /\ new \in recording[h].mine \/ observations[new].visible
      /\ \A t \in OfKind(kind) : observations[t].at <= observations[new].at
      /\ observations[s].at <= observations[new].at
      /\ kind \in DOMAIN recording[h].held =>
            observations[recording[h].held[kind]].at <= observations[new].at
  <2>1. CASE kind \in DOMAIN recording[h].held
    <3>1. /\ was = recording[h].held[kind] /\ was \in DOMAIN observations
          /\ observations[was].kind = kind
          /\ was \in recording[h].mine \/ observations[was].visible
          /\ \A t \in OfKind(kind) : observations[t].at <= observations[was].at
      BY <1>1, <2>1 DEF HeldIsNewest, StatusSeen
    <3>2. \A t \in OfKind(kind) : t \in DOMAIN observations
      BY DEF OfKind, Seen
    <3> HIDE DEF was
    <3>3. CASE observations[s].at >= observations[was].at
      <4>1. new = s
        BY <3>3
      <4>2. \A t \in OfKind(kind) : observations[t].at <= observations[s].at
        BY <1>3, <3>1, <3>2, <3>3
      <4> QED
        BY <1>3, <3>1, <3>3, <4>1, <4>2
    <3>4. CASE ~(observations[s].at >= observations[was].at)
      <4>1. new = was
        BY <1>3, <3>1, <3>4
      <4>2. observations[s].at <= observations[was].at
        BY <1>3, <3>1, <3>4
      <4> HIDE DEF new
      <4> QED
        BY <1>3, <3>1, <4>1, <4>2
    <3> QED
      BY <3>3, <3>4
  <2>2. CASE kind \notin DOMAIN recording[h].held
    <3>1. was = currentStatus[kind]
      BY <2>2 DEF StatusSeen
    <3>2. IF OfKind(kind) = {} THEN was = None
          ELSE /\ was \in OfKind(kind)
               /\ \A t \in OfKind(kind) : observations[t].at <= observations[was].at
      BY <1>3, <3>1 DEF ObsInv, CurrentIsNewest
    <3>3. \A t \in OfKind(kind) : /\ t \in DOMAIN observations /\ observations[t].visible
                                  /\ observations[t].kind = kind
      BY DEF OfKind, Seen
    <3> HIDE DEF was, kind
    <3> QED
      BY <1>3, <2>2, <3>2, <3>3 DEF kind
  <2> QED
    BY <2>1, <2>2
<1> HIDE DEF new, was
<1>7. /\ recording'[h].stage = "recording" /\ recording'[h].mine = recording[h].mine
      /\ recording'[h].held = [k \in DOMAIN recording[h].held \cup {kind} |->
                                 IF k = kind THEN new ELSE recording[h].held[k]]
      /\ \A g \in Handlers \ {h} : recording'[g] = recording[g]
      /\ RecordingTyped'
  <2>1. PICK a \in {"idle", "recording", "projecting"}, b \in SUBSET Nat, c \in HeldMaps :
            recording[h] = [stage |-> a, mine |-> b, held |-> c]
    BY RecordingFields DEF ObsInv, RecordingSound
  <2> DEFINE d == [k \in DOMAIN c \cup {kind} |-> IF k = kind THEN new ELSE c[k]]
  <2>2. recording' = [recording EXCEPT ![h] =
                          [stage |-> "recording", mine |-> b, held |-> d]]
    <3>1. PICK r : r = [recording[h] EXCEPT !.stage = "recording"]
      OBVIOUS
    <3>2. r = [stage |-> "recording", mine |-> b, held |-> c]
      BY <2>1, <3>1
    <3>3. [r EXCEPT !.held = [k \in DOMAIN @ \cup {kind} |-> IF k = kind THEN new ELSE @[k]]]
              = [stage |-> "recording", mine |-> b, held |-> d]
      BY <3>2
    <3> QED
      BY <1>5, <3>1, <3>3 DEF ObsInv, RecordingSound, RecordingTyped
  <2>4. d \in HeldMaps
    <3>1. PICK K \in SUBSET ObservationKinds : c \in [K -> Nat]
      BY <2>1 DEF HeldMaps
    <3>2. K \cup {kind} \in SUBSET ObservationKinds /\ new \in Nat
      BY <1>3, <1>6
    <3>3. d \in [K \cup {kind} -> Nat]
      BY <3>1, <3>2
    <3> QED
      BY <3>2, <3>3 DEF HeldMaps
  <2> HIDE DEF d
  <2>3. RecordingTyped'
    BY <2>1, <2>2, <2>4 DEF ObsInv, RecordingSound, RecordingTyped, RecordingRows
  <2> QED
    BY <2>1, <2>2, <2>3 DEF ObsInv, RecordingSound, RecordingTyped, d
<1>8. Seen' = Seen /\ \A k : OfKind(k)' = OfKind(k)
  BY <1>5 DEF Seen, OfKind
<1>9. OneHolder'
  <2>1. \A g \in Handlers \ {h} : kind \notin DOMAIN recording[g].held
    BY <1>5 DEF StatusFree
  <2>2. DOMAIN recording'[h].held = DOMAIN recording[h].held \cup {kind}
    BY <1>7
  <2> QED
    BY <1>7, <2>1, <2>2 DEF ObsInv, RecordingSound, OneHolder
<1>10. ASSUME NEW g \in Handlers PROVE HeldIsNewest(g)' /\ MineAreCovered(g)'
  <2>1. HeldIsNewest(g) /\ MineAreCovered(g)
    BY DEF ObsInv, RecordingSound
  <2>2. CASE g # h
    <3>1. recording'[g] = recording[g] /\ observations' = observations
      BY <1>5, <1>7, <2>2
    <3> QED
      BY <1>8, <2>1, <3>1 DEF HeldIsNewest, MineAreCovered, Covered
  <2>3. CASE g = h
    <3>1. HeldIsNewest(h)'
      <4> SUFFICES ASSUME NEW k \in DOMAIN recording'[h].held
                   PROVE  /\ k \in ObservationKinds
                          /\ recording'[h].held[k] \in DOMAIN observations
                          /\ observations[recording'[h].held[k]].kind = k
                          /\ \/ recording'[h].held[k] \in recording[h].mine
                             \/ observations[recording'[h].held[k]].visible
                          /\ \A t \in OfKind(k) :
                                observations[t].at <= observations[recording'[h].held[k]].at
        BY <1>5, <1>7, <1>8 DEF HeldIsNewest
      <4>1. CASE k = kind
        BY <1>3, <1>6, <1>7, <4>1
      <4>2. CASE k # kind
        <5>1. k \in DOMAIN recording[h].held /\ recording'[h].held[k] = recording[h].held[k]
          BY <1>7, <4>2
        <5> QED
          BY <1>1, <5>1 DEF HeldIsNewest
      <4> QED
        BY <4>1, <4>2
    <3>2. \A t \in recording[h].mine : Covered(h, t)'
      <4> TAKE t \in recording[h].mine
      <4>1. t \in DOMAIN observations
        BY <1>3
      <4>2. CASE t = s
        BY <1>5, <1>6, <1>7, <4>2 DEF Covered
      <4>3. CASE t # s
        <5>1. Covered(h, t)
          BY <1>2, <4>3
        <5>2. CASE observations[t].kind = kind
          <6>1. /\ kind \in DOMAIN recording[h].held
                /\ observations[t].at <= observations[recording[h].held[kind]].at
                /\ recording[h].held[kind] \in DOMAIN observations
            BY <1>1, <5>1, <5>2 DEF Covered, HeldIsNewest
          <6>2. observations[t].at <= observations[new].at
            BY <1>3, <1>6, <4>1, <6>1
          <6> QED
            BY <1>5, <1>7, <5>2, <6>2 DEF Covered
        <5>3. CASE observations[t].kind # kind
          <6>1. observations[t].kind \in DOMAIN recording[h].held
                /\ observations[t].at
                    <= observations[recording[h].held[observations[t].kind]].at
            BY <5>1 DEF Covered
          <6>2. /\ observations[t].kind \in DOMAIN recording'[h].held
                /\ recording'[h].held[observations[t].kind]
                    = recording[h].held[observations[t].kind]
            BY <1>7, <5>3, <6>1
          <6> QED
            BY <1>5, <6>1, <6>2 DEF Covered
        <5> QED
          BY <5>2, <5>3
      <4> QED
        BY <4>2, <4>3
    <3> QED
      BY <1>3, <1>5, <1>7, <2>3, <3>1, <3>2 DEF MineAreCovered
  <2> QED
    BY <2>2, <2>3
<1>11. ReadingSound' /\ CurrentIsNewest' /\ LedgerTyped'
       /\ currentStatus' \in [ObservationKinds -> DOMAIN observations' \cup {None}]
  BY <1>5, <1>8 DEF ObsInv, ReadingSound, CurrentIsNewest, LedgerTyped
<1> QED
  BY <1>7, <1>9, <1>10, <1>11 DEF ObsInv, RecordingSound

\* A handler that has ended its transaction records nothing and holds nothing.
LEMMA EndsRecording ==
    ASSUME RecordingTyped, NEW h \in Handlers,
           recording' = [recording EXCEPT ![h] = NotRecording]
    PROVE  /\ RecordingTyped' /\ recording'[h].stage = "idle"
           /\ recording'[h].mine = {} /\ DOMAIN recording'[h].held = {}
           /\ \A g \in Handlers \ {h} : recording'[g] = recording[g]
<1> DEFINE empty == [k \in {} |-> 0]
<1>1. empty \in HeldMaps /\ DOMAIN empty = {}
  <2>1. empty \in [{} -> Nat] /\ {} \in SUBSET ObservationKinds
    OBVIOUS
  <2> QED
    BY <2>1 DEF HeldMaps
<1>2. NotRecording = [stage |-> "idle", mine |-> {}, held |-> empty]
  BY DEF NotRecording
<1> HIDE DEF empty
<1>3. NotRecording \in RecordingRows
  BY <1>1, <1>2 DEF RecordingRows
<1> QED
  BY <1>1, <1>2, <1>3 DEF RecordingTyped

\* A commit shows the rows of a transaction and its current status together.
LEMMA CommitStep ==
    ASSUME ObsInv, NEW h \in Handlers, CommitRecording(h)
    PROVE  ObsInv'
<1>1. /\ LedgerTyped /\ HeldIsNewest(h) /\ MineAreCovered(h)
      /\ recording[h].stage = "recording" /\ RecordingTyped
      /\ recording' = [recording EXCEPT ![h] = NotRecording]
  BY DEF ObsInv, RecordingSound, CommitRecording
<1>2. /\ Len(observations) \in Nat /\ DOMAIN observations = 1..Len(observations)
      /\ \A s \in DOMAIN observations :
            /\ observations[s] \in LedgerRows /\ observations[s].kind \in ObservationKinds
            /\ observations[s].at \in Nat /\ observations[s].visible \in BOOLEAN
            /\ s \in Nat /\ s # None
  BY <1>1, RowsOfTheLedger
<1>3. observations' = [s \in DOMAIN observations |->
           [observations[s] EXCEPT !.visible = @ \/ s \in recording[h].mine]]
  BY DEF CommitRecording
<1>4. ASSUME NEW s \in DOMAIN observations
      PROVE  /\ observations'[s] \in LedgerRows
             /\ observations'[s].kind = observations[s].kind
             /\ observations'[s].at = observations[s].at
             /\ observations'[s].visible <=>
                    observations[s].visible \/ s \in recording[h].mine
  <2>1. PICK v \in BOOLEAN : v <=> (observations[s].visible \/ s \in recording[h].mine)
    OBVIOUS
  <2>2. observations'[s] = [observations[s] EXCEPT !.visible = v]
    BY <1>2, <1>3, <2>1
  <2>3. observations[s] \in LedgerRows
    BY <1>2
  <2> QED
    BY <2>1, <2>2, <2>3 DEF LedgerRows
<1>5. /\ LedgerTyped' /\ DOMAIN observations' = DOMAIN observations
  <2>1. DOMAIN observations' = 1..Len(observations)
    BY <1>2, <1>3
  <2>2. observations' \in [1..Len(observations) -> LedgerRows]
    BY <1>2, <1>3, <1>4
  <2> QED
    BY <1>2, <2>1, <2>2 DEF LedgerTyped
<1>6. /\ Seen' = Seen \cup recording[h].mine
      /\ \A k : OfKind(k)' =
            OfKind(k) \cup {s \in recording[h].mine : observations[s].kind = k}
      /\ \A k : OfKind(k) \subseteq DOMAIN observations
      /\ recording[h].mine \subseteq DOMAIN observations
  <2>1. recording[h].mine \subseteq DOMAIN observations
    BY <1>1 DEF MineAreCovered
  <2>2. Seen' = Seen \cup recording[h].mine
    BY <1>4, <1>5, <2>1 DEF Seen
  <2> QED
    BY <1>4, <2>1, <2>2 DEF OfKind, Seen
<1>7. /\ RecordingTyped' /\ recording'[h].stage = "idle"
      /\ recording'[h].mine = {} /\ DOMAIN recording'[h].held = {}
      /\ \A g \in Handlers \ {h} : recording'[g] = recording[g]
  BY <1>1, EndsRecording
<1>8. currentStatus' = [k \in ObservationKinds |-> StatusSeen(h, k)]
  BY DEF CommitRecording
<1>9. ASSUME NEW k \in ObservationKinds
      PROVE  /\ currentStatus'[k] \in DOMAIN observations \cup {None}
             /\ IF OfKind(k)' = {} THEN currentStatus'[k] = None
                ELSE /\ currentStatus'[k] \in OfKind(k)'
                     /\ \A s \in OfKind(k)' :
                            observations[s].at <= observations[currentStatus'[k]].at
  <2>1. CASE k \in DOMAIN recording[h].held
    <3> DEFINE c == recording[h].held[k]
    <3>1. currentStatus'[k] = c
      BY <1>8, <2>1 DEF StatusSeen
    <3>2. /\ c \in DOMAIN observations /\ observations[c].kind = k
          /\ c \in recording[h].mine \/ observations[c].visible
          /\ \A s \in OfKind(k) : observations[s].at <= observations[c].at
      BY <1>1, <2>1 DEF HeldIsNewest
    <3>3. c \in OfKind(k)'
      BY <1>6, <3>2, ZenonT(60) DEF OfKind, Seen
    <3>4. \A s \in recording[h].mine :
            observations[s].kind = k => observations[s].at <= observations[c].at
      BY <1>1 DEF MineAreCovered, Covered
    <3>5. \A s \in OfKind(k)' : observations[s].at <= observations[c].at
      BY <1>6, <3>2, <3>4
    <3> HIDE DEF c
    <3> QED
      BY <3>1, <3>2, <3>3, <3>5
  <2>2. CASE k \notin DOMAIN recording[h].held
    <3>1. currentStatus'[k] = currentStatus[k]
      BY <1>8, <2>2 DEF StatusSeen
    <3>2. \A s \in recording[h].mine : observations[s].kind # k
      BY <1>1, <2>2 DEF MineAreCovered, Covered
    <3>3. OfKind(k)' = OfKind(k)
      BY <1>6, <3>2
    <3> QED
      BY <3>1, <3>3 DEF ObsInv, CurrentIsNewest
  <2> QED
    BY <2>1, <2>2
<1>10. /\ currentStatus' \in [ObservationKinds -> DOMAIN observations' \cup {None}]
       /\ CurrentIsNewest'
  <2>1. currentStatus' \in [ObservationKinds -> DOMAIN observations' \cup {None}]
    BY <1>5, <1>8, <1>9
  <2>2. CurrentIsNewest'
    <3> SUFFICES ASSUME NEW k \in ObservationKinds
                 PROVE  IF OfKind(k)' = {} THEN currentStatus'[k] = None
                        ELSE /\ currentStatus'[k] \in OfKind(k)'
                             /\ \A s \in OfKind(k)' :
                                  observations'[s].at <= observations'[currentStatus'[k]].at
      BY DEF CurrentIsNewest
    <3>1. OfKind(k)' \subseteq DOMAIN observations
      BY <1>6
    <3> QED
      BY <1>4, <1>9, <3>1
  <2> QED
    BY <2>1, <2>2
<1>11. OneHolder'
  BY <1>7 DEF ObsInv, RecordingSound, OneHolder
<1>12. ASSUME NEW g \in Handlers PROVE HeldIsNewest(g)' /\ MineAreCovered(g)'
  <2>1. CASE g = h
    BY <1>7, <2>1 DEF HeldIsNewest, MineAreCovered
  <2>2. CASE g # h
    <3>1. HeldIsNewest(g) /\ MineAreCovered(g) /\ recording'[g] = recording[g]
      BY <1>7, <2>2 DEF ObsInv, RecordingSound
    <3>2. ASSUME NEW k \in DOMAIN recording[g].held PROVE OfKind(k)' = OfKind(k)
      <4>1. k \notin DOMAIN recording[h].held
        BY <2>2 DEF ObsInv, RecordingSound, OneHolder
      <4>2. \A s \in recording[h].mine : observations[s].kind # k
        BY <1>1, <4>1 DEF MineAreCovered, Covered
      <4> QED
        BY <1>6, <4>2
    <3>3. HeldIsNewest(g)'
      <4> SUFFICES ASSUME NEW k \in DOMAIN recording[g].held
                   PROVE  /\ k \in ObservationKinds
                          /\ recording[g].held[k] \in DOMAIN observations'
                          /\ observations'[recording[g].held[k]].kind = k
                          /\ \/ recording[g].held[k] \in recording[g].mine
                             \/ observations'[recording[g].held[k]].visible
                          /\ \A s \in OfKind(k)' :
                                observations'[s].at <= observations'[recording[g].held[k]].at
        BY <3>1 DEF HeldIsNewest
      <4>1. /\ k \in ObservationKinds
            /\ recording[g].held[k] \in DOMAIN observations
            /\ observations[recording[g].held[k]].kind = k
            /\ \/ recording[g].held[k] \in recording[g].mine
               \/ observations[recording[g].held[k]].visible
            /\ \A s \in OfKind(k) :
                  observations[s].at <= observations[recording[g].held[k]].at
        BY <3>1 DEF HeldIsNewest
      <4>2. OfKind(k)' = OfKind(k) /\ OfKind(k) \subseteq DOMAIN observations
        BY <1>6, <3>2
      <4> QED
        BY <1>4, <1>5, <4>1, <4>2
    <3>4. ASSUME NEW s \in recording[g].mine, Covered(g, s) PROVE Covered(g, s)'
      <4>1. s \in DOMAIN observations /\ observations[s].kind \in DOMAIN recording[g].held
        BY <3>1, <3>4 DEF MineAreCovered, Covered
      <4>2. recording[g].held[observations[s].kind] \in DOMAIN observations
        BY <3>1, <4>1 DEF HeldIsNewest
      <4> QED
        BY <1>4, <3>1, <3>4, <4>1, <4>2 DEF Covered
    <3>5. MineAreCovered(g)'
      BY <1>5, <3>1, <3>4 DEF MineAreCovered
    <3> QED
      BY <3>3, <3>5
  <2> QED
    BY <2>1, <2>2
<1>13. ReadingSound'
  <2>1. CASE reading = NotReading
    BY <2>1 DEF CommitRecording, ReadingSound, NotReading
  <2>2. CASE reading # NotReading
    <3>1. PICK st, si, fr, re, ne :
             reading = [stage |-> st, since |-> si, fresh |-> fr, read |-> re, newest |-> ne]
      BY <2>2 DEF ObsInv, ReadingSound
    <3>2. /\ st \in DOMAIN NextStage \cup {"answered"} /\ si \subseteq Seen
          /\ st \in {"sourced", "answered"} =>
               /\ ne \in DOMAIN observations \cup {None}
               /\ \A s \in si : observations[s].kind = "FRESHNESS_CHECK" =>
                       ne # None /\ observations[s].at <= observations[ne].at
      BY <2>2, <3>1 DEF ObsInv, ReadingSound
    <3>3. st # "idle"
      BY <3>2 DEF NextStage
    <3>4. PICK fr2 : reading' = [reading EXCEPT !.fresh = fr2]
      BY <3>1, <3>3 DEF CommitRecording
    <3>5. reading' = [stage |-> st, since |-> si, fresh |-> fr2, read |-> re, newest |-> ne]
      BY <3>1, <3>4
    <3>6. si \subseteq Seen' /\ si \subseteq DOMAIN observations
      BY <1>6, <3>2 DEF Seen
    <3>7. st \in {"sourced", "answered"} =>
               /\ ne \in DOMAIN observations' \cup {None}
               /\ \A s \in si : observations'[s].kind = "FRESHNESS_CHECK" =>
                       ne # None /\ observations'[s].at <= observations'[ne].at
      BY <1>4, <1>5, <3>2, <3>6
    <3> QED
      BY <3>2, <3>5, <3>6, <3>7 DEF ReadingSound
  <2> QED
    BY <2>1, <2>2
<1> QED
  BY <1>5, <1>7, <1>10, <1>11, <1>12, <1>13 DEF ObsInv, RecordingSound

\* An abandoned transaction leaves its rows unseen and its locks free.
LEMMA AbandonStep ==
    ASSUME ObsInv, NEW h \in Handlers, AbandonRecording(h)
    PROVE  ObsInv'
<1>1. /\ recording' = [recording EXCEPT ![h] = NotRecording]
      /\ UNCHANGED <<observations, currentStatus, reading>>
  BY DEF AbandonRecording
<1>2. /\ RecordingTyped' /\ recording'[h].stage = "idle"
      /\ recording'[h].mine = {} /\ DOMAIN recording'[h].held = {}
      /\ \A g \in Handlers \ {h} : recording'[g] = recording[g]
  BY <1>1, EndsRecording DEF ObsInv, RecordingSound
<1>3. Seen' = Seen /\ \A k : OfKind(k)' = OfKind(k)
  BY <1>1 DEF Seen, OfKind
<1>4. OneHolder'
  BY <1>2 DEF ObsInv, RecordingSound, OneHolder
<1>5. ASSUME NEW g \in Handlers PROVE HeldIsNewest(g)' /\ MineAreCovered(g)'
  <2>1. CASE g = h
    BY <1>2, <2>1 DEF HeldIsNewest, MineAreCovered
  <2>2. CASE g # h
    <3>1. HeldIsNewest(g) /\ MineAreCovered(g) /\ recording'[g] = recording[g]
          /\ observations' = observations
      BY <1>1, <1>2, <2>2 DEF ObsInv, RecordingSound
    <3> QED
      BY <1>3, <3>1 DEF HeldIsNewest, MineAreCovered, Covered
  <2> QED
    BY <2>1, <2>2
<1>6. LedgerTyped' /\ CurrentIsNewest' /\ ReadingSound'
      /\ currentStatus' \in [ObservationKinds -> DOMAIN observations' \cup {None}]
  BY <1>1, <1>3 DEF ObsInv, LedgerTyped, CurrentIsNewest, ReadingSound
<1> QED
  BY <1>2, <1>4, <1>5, <1>6 DEF ObsInv, RecordingSound

\* A step of the reader changes what it has read, and its answer is of a ledger that
\* has all it knew when it began.
LEMMA ReaderStep ==
    ASSUME ObsInv, StartReading \/ ReadStatement \/ EndReading
    PROVE  ObsInv'
<1>1. UNCHANGED <<observations, currentStatus, recording>>
  BY DEF StartReading, ReadStatement, EndReading
<1>2. Seen' = Seen /\ \A k : OfKind(k)' = OfKind(k)
  BY <1>1 DEF Seen, OfKind
<1>3. LedgerTyped' /\ CurrentIsNewest' /\ RecordingSound'
      /\ currentStatus' \in [ObservationKinds -> DOMAIN observations' \cup {None}]
  <2>1. LedgerTyped' /\ CurrentIsNewest'
        /\ currentStatus' \in [ObservationKinds -> DOMAIN observations' \cup {None}]
    BY <1>1, <1>2 DEF ObsInv, LedgerTyped, CurrentIsNewest
  <2>2. RecordingTyped /\ OneHolder /\ \A h \in Handlers : HeldIsNewest(h) /\ MineAreCovered(h)
    BY DEF ObsInv, RecordingSound
  <2>3. RecordingTyped' /\ OneHolder'
    BY <1>1, <2>2 DEF RecordingTyped, OneHolder
  <2>4. \A h \in Handlers : HeldIsNewest(h)'
    BY <1>1, <1>2, <2>2 DEF HeldIsNewest
  <2>5. \A h \in Handlers : MineAreCovered(h)'
    BY <1>1, <2>2 DEF MineAreCovered, Covered
  <2>6. RecordingSound'
    BY <2>3, <2>4, <2>5 DEF RecordingSound
  <2> QED
    BY <2>1, <2>6
<1>4. ReadingSound'
  <2>1. CASE StartReading
    <3>1. PICK fr, re : reading' = [stage |-> "attempt", since |-> Seen, fresh |-> fr,
                                    read |-> re, newest |-> None]
      BY <2>1 DEF StartReading
    <3> QED
      BY <1>2, <3>1 DEF ReadingSound, NextStage
  <2>2. CASE ReadStatement
    <3>1. reading # NotReading
      BY <2>2 DEF ReadStatement, NotReading, NextStage
    <3>2. PICK st, si, fr, re, ne :
             reading = [stage |-> st, since |-> si, fresh |-> fr, read |-> re, newest |-> ne]
      BY <3>1 DEF ObsInv, ReadingSound
    <3>3. /\ st \in DOMAIN NextStage /\ si \subseteq Seen
          /\ st \in {"sourced", "answered"} =>
               /\ ne \in DOMAIN observations \cup {None}
               /\ \A s \in si : observations[s].kind = "FRESHNESS_CHECK" =>
                       ne # None /\ observations[s].at <= observations[ne].at
      BY <2>2, <3>1, <3>2 DEF ObsInv, ReadingSound, ReadStatement
    <3> DEFINE latest == Latest(OfKind("FRESHNESS_CHECK"))
               ne2 == IF st = "source" THEN latest ELSE ne
    <3>4. PICK re2 : reading' = [stage |-> NextStage[st], since |-> si, fresh |-> fr,
                                 read |-> re2, newest |-> ne2]
      <4> DEFINE re2 == [re EXCEPT ![st] = EvidenceNow[st]]
      <4>1. reading' = [reading EXCEPT !.stage = NextStage[@], !.read = re2, !.newest = ne2]
        BY <2>2, <3>2 DEF ReadStatement
      <4> HIDE DEF re2, ne2
      <4>2. PICK r : r = [reading EXCEPT !.stage = NextStage[@]]
        OBVIOUS
      <4>3. r = [stage |-> NextStage[st], since |-> si, fresh |-> fr, read |-> re,
                 newest |-> ne]
        BY <3>2, <4>2
      <4>4. PICK q : q = [r EXCEPT !.read = re2]
        OBVIOUS
      <4>5. q = [stage |-> NextStage[st], since |-> si, fresh |-> fr, read |-> re2,
                 newest |-> ne]
        BY <4>3, <4>4
      <4>6. [q EXCEPT !.newest = ne2] =
              [stage |-> NextStage[st], since |-> si, fresh |-> fr, read |-> re2,
               newest |-> ne2]
        BY <4>5
      <4>7. reading' = [q EXCEPT !.newest = ne2]
        BY <4>1, <4>2, <4>4
      <4> QED
        BY <4>6, <4>7
    <3>5. NextStage[st] \in DOMAIN NextStage \cup {"answered"}
      BY <3>3 DEF NextStage
    <3>6. /\ NextStage[st] = "sourced" => st = "source"
          /\ NextStage[st] = "answered" => st = "sourced"
      BY <3>3 DEF NextStage
    <3>7. st = "source" =>
             /\ latest \in DOMAIN observations \cup {None}
             /\ \A s \in si : observations[s].kind = "FRESHNESS_CHECK" =>
                    latest # None /\ observations[s].at <= observations[latest].at
      <4> DEFINE F == OfKind("FRESHNESS_CHECK")
      <4>1. F \in SUBSET DOMAIN observations
            /\ \A s \in si : observations[s].kind = "FRESHNESS_CHECK" => s \in F
        BY <3>3 DEF OfKind, Seen
      <4>2. LedgerTyped
        BY DEF ObsInv
      <4>3. CASE F = {}
        BY <4>1, <4>3 DEF Latest
      <4>4. CASE F # {}
        <5>1. latest \in F /\ \A t \in F : NotBefore(latest, t)
          BY <4>1, <4>2, <4>4, LatestIsLatest
        <5>2. \A t \in F : observations[t].at \in Nat /\ t # None
          BY <4>1, <4>2, RowsOfTheLedger
        <5> HIDE DEF latest, F
        <5>3. \A t \in F : observations[t].at <= observations[latest].at
          BY <5>1, <5>2 DEF NotBefore
        <5> QED
          BY <4>1, <5>1, <5>2, <5>3
      <4> QED
        BY <4>3, <4>4
    <3> HIDE DEF latest
    <3> QED
      BY <1>1, <1>2, <3>3, <3>4, <3>5, <3>6, <3>7 DEF ReadingSound
  <2>3. CASE EndReading
    BY <2>3 DEF EndReading, ReadingSound
  <2> QED
    BY <2>1, <2>2, <2>3
<1> QED
  BY <1>3, <1>4 DEF ObsInv

\* The first state has it.
LEMMA ObservationsInitHolds == ObservationsInit => ObsInv
<1> SUFFICES ASSUME ObservationsInit PROVE ObsInv
  OBVIOUS
<1>1. LedgerTyped /\ DOMAIN observations = {}
  BY DEF ObservationsInit, LedgerTyped
<1>2. /\ currentStatus \in [ObservationKinds -> DOMAIN observations \cup {None}]
      /\ CurrentIsNewest
  BY <1>1 DEF ObservationsInit, CurrentIsNewest, OfKind, Seen
<1>3. \A h \in Handlers : recording[h] = NotRecording
  BY DEF ObservationsInit
<1> DEFINE empty == [k \in {} |-> 0]
<1>4. empty \in HeldMaps /\ DOMAIN empty = {}
  <2>1. empty \in [{} -> Nat] /\ {} \in SUBSET ObservationKinds
    OBVIOUS
  <2> QED
    BY <2>1 DEF HeldMaps
<1>5. NotRecording = [stage |-> "idle", mine |-> {}, held |-> empty]
  BY DEF NotRecording
<1> HIDE DEF empty
<1>6. RecordingTyped
  BY <1>4, <1>5 DEF ObservationsInit, RecordingTyped, RecordingRows
<1>7. OneHolder /\ \A h \in Handlers : HeldIsNewest(h) /\ MineAreCovered(h)
  BY <1>3, <1>4, <1>5 DEF OneHolder, HeldIsNewest, MineAreCovered
<1>8. ReadingSound
  BY DEF ObservationsInit, ReadingSound
<1> QED
  BY <1>1, <1>2, <1>6, <1>7, <1>8 DEF ObsInv, RecordingSound

\* The invariant of the ledger: what is recorded in parallel is covered by the rows
\* of current_status its transactions hold locked.
THEOREM ObservationsInvariant == ObservationsSpec => []ObsInv
<1>1. ObsInv /\ [ObservationsNext]_observationVars => ObsInv'
  <2> SUFFICES ASSUME ObsInv, [ObservationsNext]_observationVars PROVE ObsInv'
    OBVIOUS
  <2>1. ASSUME NEW h \in Handlers, NEW o \in Observation, InsertObservation(h, o)
        PROVE  ObsInv'
    BY <2>1, InsertStep
  <2>2. ASSUME NEW h \in Handlers,
               ProjectStatus(h) \/ CommitRecording(h) \/ AbandonRecording(h)
        PROVE  ObsInv'
    BY <2>2, ProjectStep, CommitStep, AbandonStep
  <2>3. ASSUME StartReading \/ ReadStatement \/ EndReading PROVE ObsInv'
    BY <2>3, ReaderStep
  <2>4. CASE UNCHANGED observationVars
    <3>1. UNCHANGED <<observations, currentStatus, recording, reading>>
      BY <2>4 DEF observationVars
    <3>2. Seen' = Seen /\ \A k : OfKind(k)' = OfKind(k)
      BY <3>1 DEF Seen, OfKind
    <3>3. LedgerTyped' /\ CurrentIsNewest' /\ ReadingSound'
          /\ currentStatus' \in [ObservationKinds -> DOMAIN observations' \cup {None}]
      <4>1. LedgerTyped' /\ currentStatus' \in [ObservationKinds -> DOMAIN observations' \cup {None}]
        BY <3>1 DEF ObsInv, LedgerTyped
      <4>2. CurrentIsNewest'
        BY <3>1, <3>2 DEF ObsInv, CurrentIsNewest
      <4>3. ReadingSound'
        BY <3>1, <3>2 DEF ObsInv, ReadingSound
      <4> QED
        BY <4>1, <4>2, <4>3
    <3>4. /\ RecordingTyped /\ OneHolder
          /\ \A h \in Handlers : HeldIsNewest(h) /\ MineAreCovered(h)
      BY DEF ObsInv, RecordingSound
    <3>5. RecordingTyped' /\ OneHolder'
      BY <3>1, <3>4 DEF RecordingTyped, OneHolder
    <3>6. \A h \in Handlers : HeldIsNewest(h)'
      BY <3>1, <3>2, <3>4 DEF HeldIsNewest
    <3>7. \A h \in Handlers : MineAreCovered(h)'
      BY <3>1, <3>4 DEF MineAreCovered, Covered
    <3> QED
      BY <3>3, <3>5, <3>6, <3>7 DEF ObsInv, RecordingSound
  <2> QED
    BY <2>1, <2>2, <2>3, <2>4 DEF ObservationsNext
<1> QED
  BY <1>1, ObservationsInitHolds, PTL DEF ObservationsSpec

\* The current status and every answer rest on the newest evidence there was, and
\* neither lateness nor expiry hides a drift (observe_api, generated_conditions).
THEOREM ObservationsAreSafe == ObservationsSpec => []ObservationsSafe
<1>1. ObsInv => ObservationsSafe
  <2> SUFFICES ASSUME ObsInv PROVE ObservationsSafe
    OBVIOUS
  <2>1. ObservationsTypeOK
    <3>1. \A s \in DOMAIN observations :
            observations[s].kind \in ObservationKinds /\ observations[s].visible \in BOOLEAN
      BY RowsOfTheLedger DEF ObsInv
    <3>2. \A h \in Handlers : recording[h].stage \in {"idle", "recording", "projecting"}
      BY DEF ObsInv, RecordingSound, RecordingTyped, RecordingRows
    <3> QED
      BY <3>1, <3>2 DEF ObsInv, ObservationsTypeOK
  <2>2. AnswerIsCurrent
    BY DEF ObsInv, ReadingSound, AnswerIsCurrent, NotReading
  <2>3. DriftIsNotHidden
    BY NoDriftIsHidden DEF ObsInv
  <2> QED
    BY <2>1, <2>2, <2>3 DEF ObsInv, ObservationsSafe
<1> QED
  BY <1>1, ObservationsInvariant, PTL

-----------------------------------------------------------------------------
(***************************************************************************)
(* Coverage: rules observed and abandoned, while items are opened and      *)
(* resolved.                                                               *)
(***************************************************************************)
\* The items say what the gaps of the rules say, and are open for those there are.
ItemsCurrent ==
    \A g \in Gaps : gapItems[g] # None =>
        \/ gaps[g] = None /\ gapItems[g].status = "RESOLVED"
        \/ gapItems[g].status = "OPEN" /\ gapItems[g].page = gaps[g]

\* The rules an importer has observed and not given up are those reconciled.
ObservedIsReconciled ==
    imported = ruleVersion /\ importing # "gaps" /\ ruleVersion \notin skipped
    => ruleVersion \in gapReceipts \cup {0}

CovInv ==
    /\ CoverageTypeOK /\ gapReceipts \subseteq 1..ruleVersion
    /\ importing = "observe" => imported # ruleVersion
    /\ importing = "gaps" => ruleVersion # 0
    /\ ruleVersion \in gapReceipts \cup {0} => ItemsCurrent
    /\ ObservedIsReconciled

-----------------------------------------------------------------------------
\* A reconciliation brings the items to the gaps, whatever was projected before.
LEMMA ProjectionIsCurrent ==
    ASSUME CoverageTypeOK, NEW created \in SUBSET Unseen, gapItems' = Projected(created),
           gaps' = gaps
    PROVE  /\ ItemsCurrent' /\ gapItems' \in [Gaps -> GapRow \cup {None}]
<1>1. \A g \in Gaps : gapItems[g] # None =>
          LET w == [gapItems[g] EXCEPT !.status = "RESOLVED"]
          IN  w \in GapRow /\ w.status = "RESOLVED"
  BY DEF CoverageTypeOK, GapRow
<1>2. \A g \in created : gaps[g] # None
  BY DEF Unseen
<1>3. \A g \in Gaps : gaps[g] # None => [status |-> "OPEN", page |-> gaps[g]] \in GapRow
  BY DEF CoverageTypeOK, GapRow
<1>4. gapItems' \in [Gaps -> GapRow \cup {None}]
  BY <1>1, <1>2, <1>3 DEF Projected
<1>5. ItemsCurrent'
  <2> SUFFICES ASSUME NEW g \in Gaps, gapItems'[g] # None
               PROVE  \/ gaps[g] = None /\ gapItems'[g].status = "RESOLVED"
                      \/ gapItems'[g].status = "OPEN" /\ gapItems'[g].page = gaps[g]
    BY DEF ItemsCurrent
  <2>1. CASE gapItems[g] = None
    BY <1>2, <2>1 DEF Projected
  <2>2. CASE gapItems[g] # None
    BY <1>1, <2>2 DEF Projected
  <2> QED
    BY <2>1, <2>2
<1> QED
  BY <1>4, <1>5

\* The projection of gaps is that of the rules once an import has ended
\* (observe_api, scripts/meter_list.py), through stops, resumptions and
\* reconciliations asked by others in between.
THEOREM CoverageIsSafe == CoverageSpec => []CoverageSafe
<1>1. CoverageInit => CovInv
  BY CoverageBounds
  DEF CoverageInit, CovInv, CoverageTypeOK, ItemsCurrent, ObservedIsReconciled
<1>2. CovInv /\ [CoverageNext]_coverageVars => CovInv'
  <2> SUFFICES ASSUME CovInv, [CoverageNext]_coverageVars PROVE CovInv'
    OBVIOUS
  <2>1. /\ CoverageTypeOK /\ gapReceipts \subseteq 1..ruleVersion
        /\ ruleVersion \in Nat /\ imported \in Nat /\ imported <= ruleVersion
        /\ ruleVersion <= MaxRuleVersions /\ MaxRuleVersions \in Nat
    BY CoverageBounds DEF CovInv, CoverageTypeOK
  <2>2. CASE ImportRules
    <3>1. /\ ruleVersion' = ruleVersion + 1 /\ gaps' \in [Gaps -> GapPages \cup {None}]
          /\ importing' = "observe" /\ ruleVersion < MaxRuleVersions
          /\ UNCHANGED <<imported, gapItems, gapReceipts, skipped>>
      BY <2>2 DEF ImportRules
    <3>2. ruleVersion' \notin gapReceipts' \cup {0} /\ imported' # ruleVersion'
          /\ gapReceipts' \subseteq 1..ruleVersion'
      BY <2>1, <3>1
    <3>3. CoverageTypeOK'
      BY <2>1, <3>1 DEF CoverageTypeOK, GapRow
    <3> QED
      BY <3>1, <3>2, <3>3 DEF CovInv, ObservedIsReconciled
  <2>3. CASE ResumeImport
    BY <2>1, <2>3
    DEF ResumeImport, CovInv, CoverageTypeOK, GapRow, ItemsCurrent, ObservedIsReconciled
  <2>4. CASE ObserveImport
    BY <2>1, <2>4
    DEF ObserveImport, CovInv, CoverageTypeOK, GapRow, ItemsCurrent, ObservedIsReconciled
  <2>5. CASE ReconcileExplicitly
    BY <2>1, <2>5
    DEF ReconcileExplicitly, CovInv, CoverageTypeOK, GapRow, ItemsCurrent, ObservedIsReconciled
  <2>6. CASE ReconcileGaps
    <3>1. /\ importing = "gaps" /\ importing' = "idle"
          /\ gapReceipts' = gapReceipts \cup {ruleVersion}
          /\ UNCHANGED <<gaps, ruleVersion, imported, skipped>>
      BY <2>6 DEF ReconcileGaps
    <3>2. ItemsCurrent' /\ gapItems' \in [Gaps -> GapRow \cup {None}]
      <4>1. CASE ruleVersion \in gapReceipts
        BY <2>6, <3>1, <4>1 DEF ReconcileGaps, CovInv, CoverageTypeOK, ItemsCurrent
      <4>2. CASE ruleVersion \notin gapReceipts
        <5>1. PICK created \in SUBSET Unseen : gapItems' = Projected(created)
          BY <2>6, <4>2 DEF ReconcileGaps
        <5> QED
          BY <2>1, <3>1, <5>1, ProjectionIsCurrent
      <4> QED
        BY <4>1, <4>2
    <3>3. ruleVersion # 0
      BY <3>1 DEF CovInv
    <3> QED
      BY <2>1, <3>1, <3>2, <3>3 DEF CovInv, CoverageTypeOK, GapRow, ObservedIsReconciled
  <2>7. CASE ReconcileFresh
    <3>1. PICK created \in SUBSET Unseen : gapItems' = Projected(created)
      BY <2>7 DEF ReconcileFresh
    <3>2. UNCHANGED <<gaps, ruleVersion, imported, gapReceipts, importing, skipped>>
      BY <2>7 DEF ReconcileFresh
    <3>3. ItemsCurrent' /\ gapItems' \in [Gaps -> GapRow \cup {None}]
      BY <2>1, <3>1, <3>2, ProjectionIsCurrent
    <3> QED
      BY <2>1, <3>2, <3>3 DEF CovInv, CoverageTypeOK, GapRow, ObservedIsReconciled
  <2>8. CASE StopImport
    BY <2>1, <2>8
    DEF StopImport, CovInv, CoverageTypeOK, GapRow, ItemsCurrent, ObservedIsReconciled
  <2>9. CASE UNCHANGED coverageVars
    BY <2>9
    DEF coverageVars, CovInv, CoverageTypeOK, GapRow, ItemsCurrent, ObservedIsReconciled
  <2> QED
    BY <2>2, <2>3, <2>4, <2>5, <2>6, <2>7, <2>8, <2>9 DEF CoverageNext
<1>3. CovInv => CoverageSafe
  <2> SUFFICES ASSUME CovInv, importing = "idle", imported = ruleVersion,
                      ruleVersion \notin skipped
               PROVE  /\ \A g \in OpenItems : gaps[g] = gapItems[g].page
                      /\ \A g \in Gaps : gaps[g] # None /\ gapItems[g] # None
                                         => g \in OpenItems
    BY DEF CovInv, CoverageSafe, ImportedGapsAreOpen
  <2>1. ItemsCurrent
    BY DEF CovInv, ObservedIsReconciled
  <2>3. \A g \in OpenItems : gaps[g] = gapItems[g].page
    BY <2>1 DEF ItemsCurrent, OpenItems
  <2>4. \A g \in Gaps : gaps[g] # None /\ gapItems[g] # None => g \in OpenItems
    BY <2>1 DEF ItemsCurrent, OpenItems
  <2> QED
    BY <2>3, <2>4
<1> QED
  BY <1>1, <1>2, <1>3, PTL DEF CoverageSpec

-----------------------------------------------------------------------------
(***************************************************************************)
(* Generated-artifact conditions: the set a generator puts, the rows it    *)
(* opens and clears, and the receipts of its invocations.                  *)
(***************************************************************************)
\* What a handler's record may be.
InvocationStates ==
    {NotRunning}
    \cup [stage : {"built", "locked"}, key : InvocationKeys, set : ConditionSets,
          readAt : 0..MaxChanges, current : Seq(ConditionRow)]

ConditionsTyped ==
    /\ truth \in ConditionSets /\ changed \in 0..MaxChanges
    /\ conditions \in Seq(ConditionRow)
    /\ conditionReceipts \in [InvocationKeys -> ConditionSets \cup {None}]
    /\ lastPut \in [set : ConditionSets, readAt : 0..MaxChanges]
    /\ running \in [Handlers -> InvocationStates]

\* A set that was read after the last change is the truth.
ReadTruly(set, readAt) == readAt <= changed /\ (readAt = changed => set = truth)

\* Who has the artifact's lock has the rows as they are, and is alone.
LockedRows ==
    \A h \in Handlers :
        running[h].stage = "locked" =>
            /\ running[h].current = conditions
            /\ \A g \in Handlers : running[g].stage = "locked" => g = h

\* A set is shown by rows that are open for its kinds, with its briefings, and no others.
Shown(set, rows) ==
    \A k \in Kinds :
        /\ set[k] # None =>
            \E r \in DOMAIN rows :
                rows[r].kind = k /\ rows[r].status = "OPEN" /\ rows[r].briefing = set[k]
        /\ set[k] = None =>
            \A r \in DOMAIN rows : rows[r].kind = k => rows[r].status # "OPEN"

CondInv ==
    /\ ConditionsTyped
    /\ OneIdentityPerKind /\ LockedRows
    /\ ReadTruly(lastPut.set, lastPut.readAt)
    /\ \A h \in Handlers :
        running[h] # NotRunning => ReadTruly(running[h].set, running[h].readAt)
    /\ Shown(lastPut.set, conditions)

-----------------------------------------------------------------------------
\* Rows for the kinds that have none, each once, with the briefing of its kind.
OpenedFor(set, current, s) ==
    /\ s \in Seq(ConditionRow)
    /\ \A r \in DOMAIN s :
         /\ s[r].status = "OPEN" /\ s[r].kind \in Kinds
         /\ set[s[r].kind] # None /\ s[r].briefing = set[s[r].kind]
         /\ \A i \in DOMAIN current : current[i].kind # s[r].kind
         /\ \A t \in DOMAIN s : s[t].kind = s[r].kind => t = r
    /\ \A k \in Kinds :
         set[k] # None /\ (\A i \in DOMAIN current : current[i].kind # k) =>
             \E r \in DOMAIN s : s[r].kind = k /\ s[r].briefing = set[k]

\* The rows that are opened are those.
LEMMA OpenedRows ==
    ASSUME NEW set \in ConditionSets, NEW current \in Seq(ConditionRow),
           NEW s, s = Opened(set, current)
    PROVE  OpenedFor(set, current, s)
<1> DEFINE new == {k \in Kinds : set[k] # None
                                 /\ \A r \in DOMAIN current : current[r].kind # k}
           n == Cardinality(new)
           Rows == [kind : new, status : {"OPEN"}, briefing : Briefings, version : {1}]
           Covers(q) == \A k \in new : \E r \in DOMAIN q : q[r].kind = k /\ q[r].briefing = set[k]
<1>1. IsFiniteSet(new) /\ n \in Nat /\ ExistsBijection(1..n, new)
  <2>1. new \in SUBSET Kinds
    OBVIOUS
  <2>2. IsFiniteSet(new)
    BY <2>1, KindsAreFinite, FS_Subset
  <2> QED
    BY <2>2, FS_CardinalityType
<1>2. \A k \in new : set[k] \in Briefings
  BY DEF ConditionSets
<1>3. \E q \in [1..n -> Rows] : Covers(q)
  <2>1. PICK f \in Bijection(1..n, new) : TRUE
    BY <1>1 DEF ExistsBijection
  <2>2. f \in [1..n -> new] /\ \A k \in new : \E i \in 1..n : f[i] = k
    BY <2>1 DEF Bijection, Surjection, Injection
  <2> DEFINE q == [i \in 1..n |-> [kind |-> f[i], status |-> "OPEN",
                                   briefing |-> set[f[i]], version |-> 1]]
  <2> HIDE DEF new, n
  <2>3. q \in [1..n -> Rows]
    BY <1>2, <2>2
  <2>4. Covers(q)
    BY <2>2
  <2> QED
    BY <2>3, <2>4
<1>4. s = CHOOSE q \in [1..n -> Rows] : Covers(q)
  BY DEF Opened
<1>5. s \in [1..n -> Rows] /\ Covers(s)
  <2> HIDE DEF Rows, Covers, n
  <2> QED
    BY <1>3, <1>4
<1> HIDE DEF n, Covers
<1>6. s \in [1..n -> Rows] /\ DOMAIN s = 1..n
      /\ \A k \in new : \E r \in 1..n : s[r].kind = k /\ s[r].briefing = set[k]
  BY <1>5 DEF Covers
<1>7. \A r \in 1..n : /\ s[r].kind \in new /\ s[r].status = "OPEN"
                      /\ s[r].briefing \in Briefings /\ s[r].version = 1
                      /\ s[r] \in ConditionRow
  <2> TAKE r \in 1..n
  <2>1. s[r] \in Rows
    BY <1>6
  <2> QED
    BY <2>1 DEF ConditionRow
<1>8. \A r, t \in 1..n : s[r].kind = s[t].kind => r = t
  <2> DEFINE kindOf == [r \in 1..n |-> s[r].kind]
  <2>1. kindOf \in [1..n -> new] /\ \A k \in new : \E r \in 1..n : kindOf[r] = k
    BY <1>6, <1>7
  <2>2. kindOf \in Surjection(1..n, new)
    <3> HIDE DEF kindOf, new
    <3> QED
      BY <2>1 DEF Surjection
  <2>3. IsFiniteSet(1..n) /\ Cardinality(1..n) = n
    <3>1. Cardinality(1..n) = IF 1 > n THEN 0 ELSE n - 1 + 1
      BY <1>1, FS_Interval
    <3>2. IsFiniteSet(1..n)
      BY <1>1, FS_Interval
    <3> QED
      BY <1>1, <3>1, <3>2
  <2>4. kindOf \in Injection(1..n, new)
    <3> HIDE DEF kindOf, new
    <3> QED
      BY <2>2, <2>3, FS_SurjSameCardinalityImpliesInj DEF n
  <2>5. \A r, t \in 1..n : kindOf[r] = kindOf[t] => r = t
    <3> HIDE DEF kindOf, new
    <3> QED
      BY <2>4 DEF Injection, IsInjective
  <2> QED
    BY <2>5
<1>9. s \in Seq(ConditionRow)
  <2>1. s \in [1..n -> ConditionRow]
    <3>1. s = [r \in 1..n |-> s[r]]
      BY <1>6
    <3> QED
      BY <1>7, <3>1
  <2> QED
    BY <1>1, <2>1
<1>10. ASSUME NEW r \in DOMAIN s
       PROVE  /\ s[r].kind \in Kinds /\ set[s[r].kind] # None
              /\ s[r].briefing = set[s[r].kind]
              /\ \A i \in DOMAIN current : current[i].kind # s[r].kind
  <2>1. r \in 1..n /\ s[r].kind \in new
    BY <1>6, <1>7
  <2>2. PICK t \in 1..n : s[t].kind = s[r].kind /\ s[t].briefing = set[s[r].kind]
    BY <1>6, <2>1
  <2>3. t = r
    BY <1>8, <2>1, <2>2
  <2> QED
    BY <2>1, <2>2, <2>3
<1> QED
  BY <1>6, <1>7, <1>8, <1>9, <1>10 DEF OpenedFor

\* A row that is reconciled says what the set says of its kind, and its version moves
\* with its status or its briefing.
LEMMA ReconciledRow ==
    ASSUME NEW row \in ConditionRow, NEW b \in Briefings \cup {None},
           NEW new, new = Reconciled(row, b)
    PROVE  /\ new \in ConditionRow /\ new.kind = row.kind
           /\ b # None => new.status = "OPEN" /\ new.briefing = b
           /\ b = None => new.status # "OPEN"
           /\ \/ /\ new.status = row.status /\ new.briefing = row.briefing
                 /\ new.version = row.version
              \/ /\ new.status # row.status \/ new.briefing # row.briefing
                 /\ new.version = row.version + 1
<1>1. /\ row = [kind |-> row.kind, status |-> row.status, briefing |-> row.briefing,
                version |-> row.version]
      /\ row.kind \in Kinds /\ row.status \in {"OPEN", "RESOLVED"}
      /\ row.briefing \in Briefings /\ row.version \in Nat \ {0}
  BY DEF ConditionRow
<1>2. CASE b # None /\ row.status = "RESOLVED"
  <2>1. new = [row EXCEPT !.status = "OPEN", !.briefing = b, !.version = @ + 1]
    BY <1>2 DEF Reconciled
  <2>2. new = [kind |-> row.kind, status |-> "OPEN", briefing |-> b,
               version |-> row.version + 1]
    BY <1>1, <2>1
  <2> QED
    BY <1>1, <1>2, <2>2 DEF ConditionRow
<1>3. CASE b # None /\ row.status # "RESOLVED" /\ row.briefing # b
  <2>1. new = [row EXCEPT !.briefing = b, !.version = @ + 1]
    BY <1>3 DEF Reconciled
  <2>2. new = [kind |-> row.kind, status |-> row.status, briefing |-> b,
               version |-> row.version + 1]
    BY <1>1, <2>1
  <2> QED
    BY <1>1, <1>3, <2>2 DEF ConditionRow
<1>4. CASE b = None /\ row.status = "OPEN"
  <2>1. new = [row EXCEPT !.status = "RESOLVED", !.version = @ + 1]
    BY <1>4 DEF Reconciled
  <2>2. new = [kind |-> row.kind, status |-> "RESOLVED", briefing |-> row.briefing,
               version |-> row.version + 1]
    BY <1>1, <2>1
  <2> QED
    BY <1>1, <1>4, <2>2 DEF ConditionRow
<1>5. CASE \/ b # None /\ row.status # "RESOLVED" /\ row.briefing = b
           \/ b = None /\ row.status # "OPEN"
  <2>1. new = row
    BY <1>5 DEF Reconciled
  <2> QED
    BY <1>1, <1>5, <2>1
<1> QED
  BY <1>2, <1>3, <1>4, <1>5

\* Where the rows of two sequences are when one is appended to the other.
AppendedRow(S, a, b, c) ==
    /\ c \in Seq(S) /\ Len(c) = Len(a) + Len(b) /\ DOMAIN c = 1..(Len(a) + Len(b))
    /\ \A r \in 1..Len(a) : c[r] = a[r]
    /\ \A r \in (Len(a) + 1)..(Len(a) + Len(b)) : c[r] = b[r - Len(a)]

\* They are there when it is.
LEMMA AppendedRows ==
    ASSUME NEW S, NEW a \in Seq(S), NEW b \in Seq(S), NEW c, c = a \o b
    PROVE  AppendedRow(S, a, b, c)
<1>1. c \in Seq(S) /\ Len(c) = Len(a) + Len(b)
  OBVIOUS
<1>2. DOMAIN c = 1..(Len(a) + Len(b))
  BY <1>1
<1>3. ASSUME NEW r \in 1..Len(a) PROVE c[r] = a[r]
  BY <1>1
<1>4. ASSUME NEW r \in (Len(a) + 1)..(Len(a) + Len(b)) PROVE c[r] = b[r - Len(a)]
  BY <1>1
<1> QED
  BY <1>1, <1>2, <1>3, <1>4 DEF AppendedRow

\* The rows after a put: those there were, reconciled, and those opened.
PutOver(set, rows, after) ==
    /\ after \in Seq(ConditionRow)
    /\ \A r, s \in DOMAIN after : after[r].kind = after[s].kind => r = s
    /\ Shown(set, after)
    /\ \A r \in DOMAIN rows :
         /\ r \in DOMAIN after
         /\ \/ /\ after[r].status = rows[r].status
               /\ after[r].briefing = rows[r].briefing
               /\ after[r].version = rows[r].version
            \/ /\ after[r].status # rows[r].status
                  \/ after[r].briefing # rows[r].briefing
               /\ after[r].version = rows[r].version + 1

\* A put leaves those rows.
LEMMA PutRows ==
    ASSUME NEW set \in ConditionSets, NEW rows \in Seq(ConditionRow), NEW after,
           \A r, s \in DOMAIN rows : rows[r].kind = rows[s].kind => r = s,
           after = [r \in DOMAIN rows |-> Reconciled(rows[r], set[rows[r].kind])]
                   \o Opened(set, rows)
    PROVE  PutOver(set, rows, after)
<1>1. PICK old : old = [r \in DOMAIN rows |-> Reconciled(rows[r], set[rows[r].kind])]
  OBVIOUS
<1>2. PICK opened : opened = Opened(set, rows)
  OBVIOUS
<1>3. \A r \in DOMAIN rows :
        /\ old[r] \in ConditionRow /\ old[r].kind = rows[r].kind
        /\ rows[r].kind \in Kinds
        /\ set[rows[r].kind] # None =>
              old[r].status = "OPEN" /\ old[r].briefing = set[rows[r].kind]
        /\ set[rows[r].kind] = None => old[r].status # "OPEN"
        /\ \/ /\ old[r].status = rows[r].status /\ old[r].briefing = rows[r].briefing
              /\ old[r].version = rows[r].version
           \/ /\ old[r].status # rows[r].status \/ old[r].briefing # rows[r].briefing
              /\ old[r].version = rows[r].version + 1
  <2> TAKE r \in DOMAIN rows
  <2>1. rows[r] \in ConditionRow
    OBVIOUS
  <2>2. rows[r].kind \in Kinds
    BY <2>1 DEF ConditionRow
  <2>3. set[rows[r].kind] \in Briefings \cup {None}
    BY <2>2 DEF ConditionSets
  <2>4. old[r] = Reconciled(rows[r], set[rows[r].kind])
    BY <1>1
  <2>5. PICK row, b, new : row = rows[r] /\ b = set[rows[r].kind] /\ new = old[r]
    OBVIOUS
  <2>6. /\ new \in ConditionRow /\ new.kind = row.kind
        /\ b # None => new.status = "OPEN" /\ new.briefing = b
        /\ b = None => new.status # "OPEN"
        /\ \/ /\ new.status = row.status /\ new.briefing = row.briefing
              /\ new.version = row.version
           \/ /\ new.status # row.status \/ new.briefing # row.briefing
              /\ new.version = row.version + 1
    BY <2>1, <2>3, <2>4, <2>5, ReconciledRow
  <2> QED
    BY <2>2, <2>5, <2>6
<1>4. /\ opened \in Seq(ConditionRow)
      /\ \A r \in DOMAIN opened :
            /\ opened[r].status = "OPEN" /\ opened[r].kind \in Kinds
            /\ set[opened[r].kind] # None /\ opened[r].briefing = set[opened[r].kind]
            /\ \A i \in DOMAIN rows : rows[i].kind # opened[r].kind
            /\ \A t \in DOMAIN opened : opened[t].kind = opened[r].kind => t = r
      /\ \A k \in Kinds :
            set[k] # None /\ (\A i \in DOMAIN rows : rows[i].kind # k) =>
                \E r \in DOMAIN opened : opened[r].kind = k /\ opened[r].briefing = set[k]
  <2> HIDE <1>1
  <2>1. set \in ConditionSets /\ rows \in Seq(ConditionRow) /\ opened = Opened(set, rows)
    BY <1>2
  <2>2. OpenedFor(set, rows, opened)
    BY <2>1, OpenedRows
  <2> QED
    BY <2>2 DEF OpenedFor
<1>5. old \in Seq(ConditionRow) /\ Len(old) = Len(rows) /\ DOMAIN old = DOMAIN rows
  <2>1. DOMAIN rows = 1..Len(rows) /\ Len(rows) \in Nat
    OBVIOUS
  <2>2. old = [r \in 1..Len(rows) |-> old[r]]
    BY <1>1, <2>1
  <2>3. old \in [1..Len(rows) -> ConditionRow]
    BY <1>3, <2>1, <2>2
  <2> QED
    BY <2>1, <2>3
<1> DEFINE n == Len(rows)
           m == Len(opened)
<1>6. /\ n \in Nat /\ m \in Nat /\ DOMAIN rows = 1..n /\ DOMAIN opened = 1..m
      /\ after = old \o opened
  BY <1>1, <1>2, <1>4
<1>7. /\ after \in Seq(ConditionRow) /\ Len(after) = n + m /\ DOMAIN after = 1..(n + m)
      /\ \A r \in 1..n : after[r] = old[r]
      /\ \A r \in (n + 1)..(n + m) : after[r] = opened[r - n]
  <2>1. old \in Seq(ConditionRow) /\ opened \in Seq(ConditionRow)
        /\ Len(old) = n /\ Len(opened) = m /\ after = old \o opened
    BY <1>4, <1>5, <1>6
  <2>2. AppendedRow(ConditionRow, old, opened, after)
    BY <2>1, AppendedRows
  <2> QED
    BY <2>1, <2>2 DEF AppendedRow
<1> HIDE DEF n, m
<1>8. \A r \in DOMAIN after :
         \/ r \in DOMAIN rows /\ after[r] = old[r]
         \/ \E t \in DOMAIN opened : r = n + t /\ after[r] = opened[t]
  <2> TAKE r \in DOMAIN after
  <2>1. CASE r <= n
    BY <1>6, <1>7, <2>1
  <2>2. CASE ~(r <= n)
    <3>1. r - n \in 1..m /\ r = n + (r - n) /\ r \in (n + 1)..(n + m)
      BY <1>6, <1>7, <2>2
    <3> QED
      BY <1>6, <1>7, <3>1
  <2> QED
    BY <2>1, <2>2
<1>9. \A t \in DOMAIN opened : n + t \in DOMAIN after /\ after[n + t] = opened[t]
  <2> TAKE t \in DOMAIN opened
  <2>1. n + t \in (n + 1)..(n + m) /\ (n + t) - n = t /\ n + t \in 1..(n + m)
    BY <1>6
  <2> QED
    BY <1>7, <2>1
<1>10. \A r \in DOMAIN rows : r \in DOMAIN after /\ after[r] = old[r]
  <2>1. \A r \in 1..n : r \in 1..(n + m)
    BY <1>6
  <2> QED
    BY <1>6, <1>7, <2>1
<1>11. ASSUME NEW r \in DOMAIN after, NEW s \in DOMAIN after, after[r].kind = after[s].kind
       PROVE  r = s
  <2>1. \A i \in DOMAIN rows : old[i].kind = rows[i].kind
    BY <1>3
  <2>2. \A i \in DOMAIN rows, t \in DOMAIN opened : old[i].kind # opened[t].kind
    BY <1>4, <2>1
  <2>3. \A i, j \in DOMAIN rows : old[i].kind = old[j].kind => i = j
    BY <2>1
  <2>4. \A t, u \in DOMAIN opened : opened[t].kind = opened[u].kind => t = u
    BY <1>4
  <2>5. CASE r \in DOMAIN rows /\ after[r] = old[r]
    <3>1. ~ \E t \in DOMAIN opened : after[s] = opened[t]
      BY <1>11, <2>2, <2>5
    <3>2. s \in DOMAIN rows /\ after[s] = old[s]
      BY <1>8, <3>1
    <3> QED
      BY <1>11, <2>3, <2>5, <3>2
  <2>6. CASE \E t \in DOMAIN opened : r = n + t /\ after[r] = opened[t]
    <3>1. PICK t \in DOMAIN opened : r = n + t /\ after[r] = opened[t]
      BY <2>6
    <3>2. ~ (s \in DOMAIN rows /\ after[s] = old[s])
      BY <1>11, <2>2, <3>1
    <3>3. PICK u \in DOMAIN opened : s = n + u /\ after[s] = opened[u]
      BY <1>8, <3>2
    <3>4. opened[t].kind = opened[u].kind
      BY <1>11, <3>1, <3>3
    <3> QED
      BY <2>4, <3>1, <3>3, <3>4
  <2> QED
    BY <1>8, <2>5, <2>6
<1>12. Shown(set, after)
  <2>1. SUFFICES ASSUME NEW k \in Kinds
                 PROVE  /\ set[k] # None =>
                             \E r \in DOMAIN after :
                                 /\ after[r].kind = k /\ after[r].status = "OPEN"
                                 /\ after[r].briefing = set[k]
                        /\ set[k] = None =>
                             \A r \in DOMAIN after : after[r].kind = k => after[r].status # "OPEN"
    BY DEF Shown
  <2>2. CASE set[k] = None
    <3> SUFFICES ASSUME NEW r \in DOMAIN after, after[r].kind = k
                 PROVE  after[r].status # "OPEN"
      BY <2>2
    <3>1. ~ \E t \in DOMAIN opened : r = n + t /\ after[r] = opened[t]
      BY <1>4, <2>2
    <3>2. r \in DOMAIN rows /\ after[r] = old[r]
      BY <1>8, <3>1
    <3> QED
      BY <1>3, <2>2, <3>2
  <2>3. CASE set[k] # None /\ \E r \in DOMAIN rows : rows[r].kind = k
    <3>1. PICK r \in DOMAIN rows : rows[r].kind = k
      BY <2>3
    <3>2. r \in DOMAIN after /\ after[r] = old[r]
      BY <1>10
    <3>3. old[r].kind = k /\ old[r].status = "OPEN" /\ old[r].briefing = set[k]
      BY <1>3, <2>3, <3>1
    <3> QED
      BY <2>3, <3>2, <3>3
  <2>4. CASE set[k] # None /\ \A r \in DOMAIN rows : rows[r].kind # k
    <3>1. PICK t \in DOMAIN opened : opened[t].kind = k /\ opened[t].briefing = set[k]
      BY <1>4, <2>4
    <3>2. opened[t].status = "OPEN" /\ n + t \in DOMAIN after /\ after[n + t] = opened[t]
      BY <1>4, <1>9
    <3> QED
      BY <2>4, <3>1, <3>2
  <2> QED
    BY <2>2, <2>3, <2>4
<1>13. \A r \in DOMAIN rows :
          /\ r \in DOMAIN after
          /\ \/ /\ after[r].status = rows[r].status
                /\ after[r].briefing = rows[r].briefing
                /\ after[r].version = rows[r].version
             \/ /\ after[r].status # rows[r].status
                   \/ after[r].briefing # rows[r].briefing
                /\ after[r].version = rows[r].version + 1
  <2> TAKE r \in DOMAIN rows
  <2>1. r \in DOMAIN after /\ after[r] = old[r]
    BY <1>10
  <2> QED
    BY <1>3, <2>1
<1> QED
  BY <1>7, <1>11, <1>12, <1>13 DEF PutOver

-----------------------------------------------------------------------------
\* The fields of an invocation under way.
LEMMA InvocationFields ==
    ASSUME ConditionsTyped, NEW h \in Handlers, running[h] # NotRunning
    PROVE  /\ running[h] \in [stage : {"built", "locked"}, key : InvocationKeys,
                              set : ConditionSets, readAt : 0..MaxChanges,
                              current : Seq(ConditionRow)]
           /\ running[h].stage \in {"built", "locked"}
BY DEF ConditionsTyped, InvocationStates

\* The conditions are put, by their ids, under the lock.
LEMMA PutStep ==
    ASSUME CondInv, NEW h \in Handlers, PutConditions(h)
    PROVE  /\ CondInv'
           /\ \A r \in DOMAIN conditions :
                \/ /\ conditions'[r].status = conditions[r].status
                   /\ conditions'[r].briefing = conditions[r].briefing
                   /\ conditions'[r].version = conditions[r].version
                \/ /\ conditions'[r].status # conditions[r].status
                      \/ conditions'[r].briefing # conditions[r].briefing
                   /\ conditions'[r].version = conditions[r].version + 1
<1>1. PICK set, key, at : set = running[h].set /\ key = running[h].key
                          /\ at = running[h].readAt
  OBVIOUS
<1>2. running[h].stage = "locked" /\ running[h] # NotRunning /\ ConditionsTyped
  <2>1. running[h].stage = "locked" /\ ConditionsTyped
    BY DEF PutConditions, CondInv
  <2>2. NotRunning.stage # "locked"
    BY DEF NotRunning
  <2> QED
    BY <2>1, <2>2
<1>3. /\ set \in ConditionSets /\ key \in InvocationKeys /\ at \in 0..MaxChanges
  BY <1>1, <1>2, InvocationFields
<1>4. running[h].current = conditions
      /\ \A g \in Handlers : running[g].stage = "locked" => g = h
  BY <1>2 DEF CondInv, LockedRows
<1>5. /\ conditionReceipts' = [conditionReceipts EXCEPT ![key] = set]
      /\ lastPut' = [set |-> set, readAt |-> at]
      /\ running' = [running EXCEPT ![h] = NotRunning]
      /\ truth' = truth /\ changed' = changed
      /\ conditions' =
           [r \in DOMAIN conditions |->
              IF r \in DOMAIN conditions THEN Reconciled(conditions[r], set[conditions[r].kind])
              ELSE conditions[r]] \o Opened(set, conditions)
  BY <1>1, <1>4 DEF PutConditions
<1>6. PICK rows, after : rows = conditions /\ after = conditions'
  OBVIOUS
<1>7. after = [r \in DOMAIN rows |-> Reconciled(rows[r], set[rows[r].kind])]
              \o Opened(set, rows)
  BY <1>5, <1>6
<1>8. rows \in Seq(ConditionRow)
      /\ \A r, s \in DOMAIN rows : rows[r].kind = rows[s].kind => r = s
  BY <1>2, <1>6 DEF CondInv, ConditionsTyped, OneIdentityPerKind
<1>9. /\ after \in Seq(ConditionRow)
      /\ \A r, s \in DOMAIN after : after[r].kind = after[s].kind => r = s
      /\ Shown(set, after)
      /\ \A r \in DOMAIN rows :
            \/ /\ after[r].status = rows[r].status /\ after[r].briefing = rows[r].briefing
               /\ after[r].version = rows[r].version
            \/ /\ after[r].status # rows[r].status \/ after[r].briefing # rows[r].briefing
               /\ after[r].version = rows[r].version + 1
  <2> HIDE <1>1, <1>2, <1>4, <1>5, <1>6
  <2>1. \A r, s \in DOMAIN rows : rows[r].kind = rows[s].kind => r = s
    BY <1>8
  <2>2. rows \in Seq(ConditionRow) /\ set \in ConditionSets
    BY <1>3, <1>8
  <2>3. PutOver(set, rows, after)
    BY <1>7, <2>1, <2>2, PutRows
  <2> QED
    BY <2>3 DEF PutOver
<1>10. running' \in [Handlers -> InvocationStates]
       /\ \A g \in Handlers : running'[g] = IF g = h THEN NotRunning ELSE running[g]
  BY <1>2, <1>5 DEF ConditionsTyped, InvocationStates
<1>11. ConditionsTyped'
  <2>1. conditionReceipts' \in [InvocationKeys -> ConditionSets \cup {None}]
    BY <1>2, <1>3, <1>5 DEF ConditionsTyped
  <2>2. lastPut' \in [set : ConditionSets, readAt : 0..MaxChanges]
    BY <1>3, <1>5
  <2>3. truth' \in ConditionSets /\ changed' \in 0..MaxChanges
        /\ conditions' \in Seq(ConditionRow)
    BY <1>2, <1>5, <1>6, <1>9 DEF ConditionsTyped
  <2> QED
    BY <1>10, <2>1, <2>2, <2>3 DEF ConditionsTyped
<1>12. OneIdentityPerKind'
  BY <1>6, <1>9 DEF OneIdentityPerKind
<1>13. LockedRows'
  BY <1>4, <1>10 DEF LockedRows, NotRunning
<1>14. ReadTruly(set, at)
  BY <1>1, <1>2 DEF CondInv
<1>15. lastPut'.set = set /\ lastPut'.readAt = at
  BY <1>5
<1>16. ReadTruly(lastPut.set, lastPut.readAt)'
  BY <1>5, <1>14, <1>15 DEF ReadTruly
<1>17. \A g \in Handlers :
          running'[g] # NotRunning => ReadTruly(running[g].set, running[g].readAt)'
  BY <1>5, <1>10 DEF CondInv, ReadTruly
<1>18. Shown(lastPut.set, conditions)'
  BY <1>6, <1>9, <1>15 DEF Shown
<1>19. CondInv'
  BY <1>11, <1>12, <1>13, <1>16, <1>17, <1>18 DEF CondInv
<1> QED
  BY <1>6, <1>9, <1>19

\* The other steps leave the rows.
LEMMA RunnerStep ==
    ASSUME CondInv, NEW h \in Handlers,
           \/ \E k \in InvocationKeys : BuildRequest(h, k)
           \/ LockConditions(h) \/ EndInvocation(h)
    PROVE  CondInv' /\ conditions' = conditions
<1>1. /\ UNCHANGED <<truth, changed, conditions, conditionReceipts, lastPut>>
      /\ ConditionsTyped
  BY DEF BuildRequest, LockConditions, EndInvocation, CondInv
<1>2. PICK r \in InvocationStates :
         /\ running' = [running EXCEPT ![h] = r]
         /\ r # NotRunning => ReadTruly(r.set, r.readAt)
         /\ r.stage = "locked" =>
              r.current = conditions /\ \A g \in Handlers : running[g].stage # "locked"
  <2>1. CASE \E k \in InvocationKeys : BuildRequest(h, k)
    <3>1. PICK k \in InvocationKeys :
             running' = [running EXCEPT ![h] =
                [stage |-> "built", key |-> k, set |-> truth, readAt |-> changed,
                 current |-> <<>>]]
      BY <2>1 DEF BuildRequest
    <3> DEFINE r == [stage |-> "built", key |-> k, set |-> truth, readAt |-> changed,
                     current |-> <<>>]
    <3>2. r \in InvocationStates /\ r.stage # "locked"
      BY <1>1 DEF InvocationStates, ConditionsTyped
    <3>3. ReadTruly(r.set, r.readAt)
      BY <1>1 DEF ReadTruly, ConditionsTyped
    <3> QED
      BY <3>1, <3>2, <3>3
  <2>2. CASE LockConditions(h)
    <3>1. running[h] # NotRunning /\ running[h].stage = "built"
      BY <2>2 DEF LockConditions, NotRunning
    <3>2. PICK q : q = [running[h] EXCEPT !.stage = "locked"]
      OBVIOUS
    <3>3. PICK r : r = [q EXCEPT !.current = conditions]
      OBVIOUS
    <3>4. r = [stage |-> "locked", key |-> running[h].key, set |-> running[h].set,
               readAt |-> running[h].readAt, current |-> conditions]
      <4>1. running[h] = [stage |-> "built", key |-> running[h].key, set |-> running[h].set,
                          readAt |-> running[h].readAt, current |-> running[h].current]
        BY <1>1, <3>1, InvocationFields
      <4>2. PICK old : old = running[h]
        OBVIOUS
      <4>3. q = [stage |-> "locked", key |-> old.key, set |-> old.set,
                 readAt |-> old.readAt, current |-> old.current]
        BY <3>2, <4>1, <4>2
      <4> QED
        BY <3>3, <4>2, <4>3
    <3>5. running' = [running EXCEPT ![h] = r]
      <4>1. PICK f : f = [running EXCEPT ![h].stage = "locked"]
        OBVIOUS
      <4>2. f = [running EXCEPT ![h] = q]
        BY <3>2, <4>1
      <4>3. running' = [f EXCEPT ![h].current = conditions]
        BY <2>2, <4>1 DEF LockConditions
      <4>4. f[h] = q /\ h \in DOMAIN running
        BY <1>1, <4>2 DEF ConditionsTyped
      <4>5. running' = [f EXCEPT ![h] = r]
        BY <3>3, <4>3, <4>4
      <4> QED
        BY <4>2, <4>4, <4>5
    <3>6. r \in InvocationStates
      BY <1>1, <3>1, <3>4, InvocationFields DEF InvocationStates, ConditionsTyped
    <3>7. r.set = running[h].set /\ r.readAt = running[h].readAt /\ r.current = conditions
      BY <3>4
    <3>8. ReadTruly(r.set, r.readAt)
      BY <3>1, <3>7 DEF CondInv
    <3>9. \A g \in Handlers : running[g].stage # "locked"
      BY <2>2 DEF LockConditions, ArtifactLocked
    <3> QED
      BY <3>5, <3>6, <3>7, <3>8, <3>9
  <2>3. CASE EndInvocation(h)
    <3>1. NotRunning \in InvocationStates /\ NotRunning.stage # "locked"
      BY DEF InvocationStates, NotRunning
    <3> QED
      BY <2>3, <3>1 DEF EndInvocation
  <2> QED
    BY <2>1, <2>2, <2>3
<1>3. running' \in [Handlers -> InvocationStates]
      /\ \A g \in Handlers : running'[g] = IF g = h THEN r ELSE running[g]
  BY <1>1, <1>2 DEF ConditionsTyped
<1>4. ConditionsTyped'
  BY <1>1, <1>3 DEF ConditionsTyped
<1>5. LockedRows'
  <2>1. ASSUME NEW g \in Handlers, running'[g].stage = "locked"
        PROVE  /\ running'[g].current = conditions
               /\ \A f \in Handlers : running'[f].stage = "locked" => f = g
    <3>1. CASE g = h
      BY <1>2, <1>3, <2>1, <3>1
    <3>2. CASE g # h
      <4>1. running[g].stage = "locked" /\ r.stage # "locked"
        BY <1>2, <1>3, <2>1, <3>2
      <4> QED
        BY <1>3, <2>1, <3>2, <4>1 DEF CondInv, LockedRows
    <3> QED
      BY <3>1, <3>2
  <2> QED
    BY <1>1, <2>1 DEF LockedRows
<1>6. \A g \in Handlers :
          running'[g] # NotRunning => ReadTruly(running[g].set, running[g].readAt)'
  BY <1>1, <1>2, <1>3 DEF CondInv, ReadTruly
<1>7. OneIdentityPerKind' /\ ReadTruly(lastPut.set, lastPut.readAt)'
      /\ Shown(lastPut.set, conditions)'
  BY <1>1 DEF CondInv, OneIdentityPerKind, ReadTruly, Shown
<1> QED
  BY <1>1, <1>4, <1>5, <1>6, <1>7 DEF CondInv

\* What holds of the artifact changes: every set read before is of an earlier truth.
LEMMA ChangeStep ==
    ASSUME CondInv, NEW new \in ConditionSets, ChangeTruth(new)
    PROVE  CondInv' /\ conditions' = conditions
<1>1. /\ UNCHANGED <<conditions, conditionReceipts, lastPut, running>>
      /\ truth' = new /\ changed' = changed + 1 /\ changed < MaxChanges
      /\ ConditionsTyped
  BY DEF ChangeTruth, CondInv
<1>2. ConditionsTyped'
  <2>1. changed' \in 0..MaxChanges
    BY <1>1, ChangesAreBounded DEF ConditionsTyped
  <2> QED
    BY <1>1, <2>1 DEF ConditionsTyped
<1>3. \A set, at : at \in 0..MaxChanges /\ ReadTruly(set, at) => ReadTruly(set, at)'
  BY <1>1, ChangesAreBounded DEF ReadTruly, ConditionsTyped
<1>4. ReadTruly(lastPut.set, lastPut.readAt)'
  <2>1. lastPut.readAt \in 0..MaxChanges
    BY <1>1 DEF ConditionsTyped
  <2>2. \A set, at : ReadTruly(set, at)' <=> at <= changed' /\ (at = changed' => set = truth')
    BY DEF ReadTruly
  <2> QED
    BY <1>1, <2>1, ChangesAreBounded DEF CondInv, ReadTruly, ConditionsTyped
<1>5. \A g \in Handlers :
          running'[g] # NotRunning => ReadTruly(running[g].set, running[g].readAt)'
  <2> TAKE g \in Handlers
  <2>1. running[g] # NotRunning => running[g].readAt \in 0..MaxChanges
    BY <1>1, InvocationFields
  <2> QED
    BY <1>1, <2>1, ChangesAreBounded DEF CondInv, ReadTruly, ConditionsTyped
<1>6. OneIdentityPerKind' /\ LockedRows' /\ Shown(lastPut.set, conditions)'
  BY <1>1 DEF CondInv, OneIdentityPerKind, LockedRows, Shown
<1> QED
  BY <1>1, <1>2, <1>4, <1>5, <1>6 DEF CondInv

\* What is shown is what was put last.
LEMMA ShownIsOpen ==
    ASSUME CondInv
    PROVE  OpenConditions = lastPut.set
<1>1. lastPut.set \in ConditionSets /\ conditions \in Seq(ConditionRow)
      /\ OneIdentityPerKind /\ Shown(lastPut.set, conditions)
  BY DEF CondInv, ConditionsTyped
<1> DEFINE Is(k, r) == conditions[r].kind = k /\ conditions[r].status = "OPEN"
<1>2. ASSUME NEW k \in Kinds
      PROVE  (IF \E r \in DOMAIN conditions : Is(k, r)
              THEN conditions[CHOOSE r \in DOMAIN conditions : Is(k, r)].briefing
              ELSE None) = lastPut.set[k]
  <2>1. CASE lastPut.set[k] = None
    BY <1>1, <2>1 DEF Shown
  <2>2. CASE lastPut.set[k] # None
    <3>1. PICK r \in DOMAIN conditions : Is(k, r) /\ conditions[r].briefing = lastPut.set[k]
      BY <1>1, <2>2 DEF Shown
    <3>2. PICK c : c = CHOOSE t \in DOMAIN conditions : Is(k, t)
      OBVIOUS
    <3>3. c \in DOMAIN conditions /\ Is(k, c)
      BY <3>1, <3>2
    <3>4. c = r
      BY <1>1, <3>1, <3>3 DEF OneIdentityPerKind
    <3> QED
      BY <3>1, <3>2, <3>4
  <2> QED
    BY <2>1, <2>2
<1>3. OpenConditions = [k \in Kinds |-> lastPut.set[k]]
  BY <1>2 DEF OpenConditions
<1> QED
  BY <1>1, <1>3 DEF ConditionSets

\* A row's version counts the changes of its status and its briefing.
VersionsCount ==
    \A r \in DOMAIN conditions :
        LET old == conditions[r]
            new == conditions'[r]
        IN  new.version = old.version
              + IF <<old.status, old.briefing>> = <<new.status, new.briefing>>
                THEN 0 ELSE 1

\* Every step keeps the invariant and counts in versions.
LEMMA ConditionsStep ==
    ASSUME CondInv, [ConditionsNext]_conditionVars
    PROVE  CondInv' /\ VersionsCount
<1>1. \A r \in DOMAIN conditions : conditions[r].version \in Nat
  <2>1. \A r \in DOMAIN conditions : conditions[r] \in ConditionRow
    BY DEF CondInv, ConditionsTyped
  <2> QED
    BY <2>1 DEF ConditionRow
<1>2. conditions' = conditions => VersionsCount
  BY <1>1 DEF VersionsCount
<1>3. CASE UNCHANGED conditionVars
  <2>1. CondInv'
    BY <1>3 DEF conditionVars, CondInv, ConditionsTyped, OneIdentityPerKind, LockedRows,
       ReadTruly, Shown
  <2> QED
    BY <1>2, <1>3, <2>1 DEF conditionVars
<1>4. CASE \E new \in ConditionSets : ChangeTruth(new)
  BY <1>2, <1>4, ChangeStep
<1>5. CASE \E h \in Handlers : \/ \E k \in InvocationKeys : BuildRequest(h, k)
                               \/ LockConditions(h) \/ EndInvocation(h)
  BY <1>2, <1>5, RunnerStep
<1>6. CASE \E h \in Handlers : PutConditions(h)
  <2>1. /\ CondInv'
        /\ \A r \in DOMAIN conditions :
                \/ /\ conditions'[r].status = conditions[r].status
                   /\ conditions'[r].briefing = conditions[r].briefing
                   /\ conditions'[r].version = conditions[r].version
                \/ /\ conditions'[r].status # conditions[r].status
                      \/ conditions'[r].briefing # conditions[r].briefing
                   /\ conditions'[r].version = conditions[r].version + 1
    BY <1>6, PutStep
  <2> QED
    BY <1>1, <2>1 DEF VersionsCount
<1> QED
  BY <1>3, <1>4, <1>5, <1>6 DEF ConditionsNext

\* A condition keeps its identity, its versions count its changes, and what is open
\* is true once the last reading is applied, whatever runners read, stop and retry side
\* by side (work_conditions_api).
THEOREM ConditionsAreSafe == ConditionsSpec => ConditionsSafe
<1>1. ConditionsInit => CondInv
  <2> SUFFICES ASSUME ConditionsInit PROVE CondInv
    OBVIOUS
  <2>1. Nothing \in ConditionSets /\ \A k \in Kinds : Nothing[k] = None
    BY DEF Nothing, ConditionSets
  <2>2. ConditionsTyped
    <3>1. lastPut \in [set : ConditionSets, readAt : 0..MaxChanges]
      BY <2>1, ChangesAreBounded DEF ConditionsInit
    <3>2. running \in [Handlers -> InvocationStates]
      BY DEF ConditionsInit, InvocationStates
    <3>3. conditionReceipts \in [InvocationKeys -> ConditionSets \cup {None}]
      BY DEF ConditionsInit
    <3> QED
      BY <2>1, <3>1, <3>2, <3>3, ChangesAreBounded DEF ConditionsInit, ConditionsTyped
  <2>3. OneIdentityPerKind /\ LockedRows
    BY DEF ConditionsInit, OneIdentityPerKind, LockedRows, NotRunning
  <2>4. lastPut.set = Nothing /\ lastPut.readAt = 0 /\ changed = 0 /\ truth = Nothing
        /\ DOMAIN conditions = {} /\ \A h \in Handlers : running[h] = NotRunning
    BY DEF ConditionsInit
  <2>5. ReadTruly(lastPut.set, lastPut.readAt) /\ Shown(lastPut.set, conditions)
    BY <2>1, <2>4 DEF ReadTruly, Shown
  <2> QED
    BY <2>2, <2>3, <2>4, <2>5 DEF CondInv
<1>2. CondInv /\ [ConditionsNext]_conditionVars => CondInv' /\ VersionsCount
  BY ConditionsStep
<1>3. CondInv => ConditionsTypeOK /\ OneIdentityPerKind /\ SettledShowsTruth
  <2> SUFFICES ASSUME CondInv
               PROVE  ConditionsTypeOK /\ OneIdentityPerKind /\ SettledShowsTruth
    OBVIOUS
  <2>1. \A h \in Handlers : running[h].stage \in {"idle", "built", "locked"}
    <3>1. NotRunning.stage = "idle" /\ ConditionsTyped
      BY DEF CondInv, NotRunning
    <3> QED
      BY <3>1, InvocationFields
  <2>2. ConditionsTypeOK
    BY <2>1 DEF CondInv, ConditionsTyped, ConditionsTypeOK
  <2>3. SettledShowsTruth
    BY ShownIsOpen DEF CondInv, ReadTruly, SettledShowsTruth
  <2> QED
    BY <2>2, <2>3 DEF CondInv
<1> QED
  BY <1>1, <1>2, <1>3, PTL DEF ConditionsSpec, ConditionsSafe, VersionMeansChange, VersionsCount
=============================================================================

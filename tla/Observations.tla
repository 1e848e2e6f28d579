----------------------------- MODULE Observations -----------------------------
(***************************************************************************)
(* The ledger of observations, the current status kept beside it, and the  *)
(* readers of an artifact's freshness (observe_api).  One artifact, whose  *)
(* GENERATIONs are observed, and its source, whose FRESHNESS_CHECKs are.   *)
(*                                                                         *)
(* seq is taken by the insert and seen with the commit; a row of           *)
(* current_status is locked by the upsert, also when it keeps the row.     *)
(* The reads of artifact_status are statements each with its own snapshot. *)
(***************************************************************************)
EXTENDS Requests, Sequences, Freshness

CONSTANTS
    Fingerprints,
    MaxObservations, MaxObservedAt

ASSUME AbsentIsNone == Absent = None /\ None \notin Fingerprints
ASSUME NoneIsNoEvidence ==
    None \notin Nat \cup [outcome : {"NOMINAL", "FAILED"}, at : Nat,
                         fingerprint : Fingerprints \cup {None}]
ASSUME ObservationBounds == {MaxObservations, MaxObservedAt} \subseteq Nat

ObservationKinds == {"GENERATION", "FRESHNESS_CHECK"}

VARIABLES
    observations,   \* observe.observations by seq, with visibility
    currentStatus,  \* observe.current_status: kind -> seq or None
    recording,      \* handler -> the batch it records
    reading         \* the reader of artifact_status

observationVars == <<observations, currentStatus, recording, reading>>

NotRecording == [stage |-> "idle", mine |-> {}, held |-> [k \in {} |-> 0]]
NotReading == [stage |-> "idle"]

ObservationsInit ==
    /\ observations = <<>>
    /\ currentStatus = [k \in ObservationKinds |-> None]
    /\ recording = [h \in Handlers |-> NotRecording]
    /\ reading = NotReading

\* The validators of ObservationCreate: a NOMINAL observation has a fingerprint.
Observation ==
    [kind : ObservationKinds, outcome : {"NOMINAL"}, fingerprint : Fingerprints,
     at : 1..MaxObservedAt]
    \cup [kind : ObservationKinds, outcome : {"FAILED"}, fingerprint : {None},
          at : 1..MaxObservedAt]

Seen == {s \in DOMAIN observations : observations[s].visible}

\* Mutant: the latest is the one inserted last.
LatestInserted(S) ==
    IF S = {} THEN None ELSE CHOOSE s \in S : \A t \in S : t <= s

\* ORDER BY observed_at DESC, seq DESC LIMIT 1
Latest(S) ==
    IF S = {} THEN None
    ELSE CHOOSE s \in S : \A t \in S :
            \/ observations[t].at < observations[s].at
            \/ observations[t].at = observations[s].at /\ t <= s

OfKind(kind) == {s \in Seen : observations[s].kind = kind}
Successful(kind) == {s \in OfKind(kind) : observations[s].outcome = "NOMINAL"}
Row(s) == IF s = None THEN None
          ELSE [outcome |-> observations[s].outcome, at |-> observations[s].at,
                fingerprint |-> observations[s].fingerprint]

\* What artifact_status would read now, of an artifact without a contract.
EvidenceNow ==
    [attempt |-> Row(Latest(OfKind("GENERATION"))),
     generated |-> Row(Latest(Successful("GENERATION"))),
     source |-> Row(Latest(OfKind("FRESHNESS_CHECK"))),
     sourced |-> Row(Latest(Successful("FRESHNESS_CHECK"))),
     maxAge |-> None, now |-> 0]
FreshNow == DeriveFreshness(EvidenceNow).state = "FRESH"

-----------------------------------------------------------------------------
(* record_observations *)

\* Mutant: the row of current_status is read before it is written, without a lock.
StatusNeverLocked(kind, h) == TRUE

StatusFree(kind, h) ==
    \A g \in Handlers \ {h} : kind \notin DOMAIN recording[g].held

\* What the handler's transaction sees in the row of current_status.
StatusSeen(h, kind) ==
    IF kind \in DOMAIN recording[h].held THEN recording[h].held[kind]
    ELSE currentStatus[kind]

\* The insert of one item; its seq is taken, and the upsert is next.
InsertObservation(h, o) ==
    /\ recording[h].stage \in {"idle", "recording"}
    /\ Len(observations) < MaxObservations
    /\ observations' = Append(observations,
           [kind |-> o.kind, outcome |-> o.outcome, fingerprint |-> o.fingerprint,
            at |-> o.at, visible |-> FALSE])
    /\ recording' = [recording EXCEPT
           ![h].stage = "projecting", ![h].mine = @ \cup {Len(observations) + 1}]
    /\ UNCHANGED <<currentStatus, reading>>

\* ON CONFLICT DO UPDATE ... WHERE observed_at is not before the row's.
ProjectStatus(h) ==
    LET s == CHOOSE s \in recording[h].mine : \A t \in recording[h].mine : t <= s
        kind == observations[s].kind
        was == StatusSeen(h, kind)
        new == IF was = None \/ observations[s].at >= observations[was].at THEN s ELSE was
    IN  /\ recording[h].stage = "projecting"
        /\ StatusFree(kind, h)
        /\ recording' = [recording EXCEPT
               ![h].stage = "recording",
               ![h].held = [k \in DOMAIN @ \cup {kind} |-> IF k = kind THEN new ELSE @[k]]]
        /\ UNCHANGED <<observations, currentStatus, reading>>

CommitRecording(h) ==
    /\ recording[h].stage = "recording"
    /\ observations' = [s \in DOMAIN observations |->
           [observations[s] EXCEPT !.visible = @ \/ s \in recording[h].mine]]
    /\ currentStatus' = [k \in ObservationKinds |-> StatusSeen(h, k)]
    /\ recording' = [recording EXCEPT ![h] = NotRecording]
    /\ reading' = IF reading.stage = "idle" THEN reading
                  ELSE [reading EXCEPT !.fresh = @ \/ FreshNow']

\* An error, the abort of a deadlock, a closed connection.
AbandonRecording(h) ==
    /\ recording[h].stage # "idle"
    /\ recording' = [recording EXCEPT ![h] = NotRecording]
    /\ UNCHANGED <<observations, currentStatus, reading>>

-----------------------------------------------------------------------------
(* artifact_status: _latest_generation twice, _latest_source_observation twice *)

StartReading ==
    /\ reading.stage = "idle"
    /\ reading' = [stage |-> "attempt", since |-> Seen, fresh |-> FreshNow,
                   read |-> EvidenceNow, newest |-> None]
    /\ UNCHANGED <<observations, currentStatus, recording>>

NextStage ==
    [attempt |-> "generated", generated |-> "source", source |-> "sourced",
     sourced |-> "answered"]

ReadStatement ==
    /\ reading.stage \in DOMAIN NextStage
    /\ reading' = [reading EXCEPT
           !.stage = NextStage[@],
           !.read = [@ EXCEPT ![reading.stage] = EvidenceNow[reading.stage]],
           !.newest = IF reading.stage = "source" THEN Latest(OfKind("FRESHNESS_CHECK"))
                      ELSE @]
    /\ UNCHANGED <<observations, currentStatus, recording>>

EndReading ==
    /\ reading.stage = "answered"
    /\ reading' = NotReading
    /\ UNCHANGED <<observations, currentStatus, recording>>

ObservationsNext ==
    \/ \E h \in Handlers, o \in Observation : InsertObservation(h, o)
    \/ \E h \in Handlers : ProjectStatus(h)
    \/ \E h \in Handlers : CommitRecording(h)
    \/ \E h \in Handlers : AbandonRecording(h)
    \/ StartReading
    \/ ReadStatement
    \/ EndReading

ObservationsSpec == ObservationsInit /\ [][ObservationsNext]_observationVars

-----------------------------------------------------------------------------
(* Properties *)

ObservationsTypeOK ==
    /\ \A s \in DOMAIN observations :
        /\ observations[s].kind \in ObservationKinds
        /\ observations[s].visible \in BOOLEAN
    /\ currentStatus \in [ObservationKinds -> DOMAIN observations \cup {None}]
    /\ \A h \in Handlers : recording[h].stage \in {"idle", "recording", "projecting"}

\* The current status of a subject is an observation that was committed, none
\* of a later time is beside it, and a subject observed has one: "a
\* late-arriving observation older than the projected row never regresses it".
CurrentIsNewest ==
    \A k \in ObservationKinds :
        IF OfKind(k) = {} THEN currentStatus[k] = None
        ELSE /\ currentStatus[k] \in OfKind(k)
             /\ \A s \in OfKind(k) : observations[s].at <= observations[currentStatus[k]].at

\* An answer rests on a source observation no older than any that was there
\* when the read began, in the order they were observed.
AnswerIsCurrent ==
    reading.stage = "answered" =>
        \A s \in reading.since :
            observations[s].kind = "FRESHNESS_CHECK"
            => reading.newest # None /\ observations[s].at <= observations[reading.newest].at

\* A change of the source is reported as a condition as long as the last successful
\* generation and the last successful observation of the source differ, also when
\* that has expired; and an artifact that is FRESH has no condition of its evidence
\* (derive_freshness and derive_generated_artifact_conditions together).
DriftIsNotHidden ==
    Seen # {} =>
    \A maxAge \in {None} \cup 0..MaxObservedAt, now \in 0..2 * MaxObservedAt :
        LET e == [EvidenceNow EXCEPT !.maxAge = maxAge, !.now = now]
            conditions == DeriveConditions(e, "DECLARED", {})
            differ == /\ e.generated # None /\ e.sourced # None
                      /\ e.generated.fingerprint # e.sourced.fingerprint
        IN  /\ "DRIFTED" \in conditions <=> differ
            /\ DeriveFreshness(e).state = "FRESH" => conditions = {}

\* The current status and every answer rest on the newest evidence there was, and
\* neither lateness nor expiry hides a drift.
ObservationsSafe ==
    /\ ObservationsTypeOK /\ CurrentIsNewest /\ AnswerIsCurrent /\ DriftIsNotHidden

-----------------------------------------------------------------------------
(* What the code does not have *)

\* The current status is the observation the ledger's readers call the latest.
CurrentIsLatest ==
    \A k \in ObservationKinds : currentStatus[k] = Latest(OfKind(k))

\* An artifact that a read answers FRESH was fresh at some time of the read.
FreshWasTrue ==
    reading.stage = "answered" /\ DeriveFreshness(reading.read).state = "FRESH"
    => reading.fresh

\* Two batches never wait for each other's rows.
NoLockCycle ==
    ~\E g, h \in Handlers :
        /\ g # h
        /\ recording[g].stage = "projecting" /\ recording[h].stage = "projecting"
        /\ \E s \in recording[g].mine, t \in recording[h].mine :
            /\ \A x \in recording[g].mine : x <= s
            /\ \A x \in recording[h].mine : x <= t
            /\ observations[s].kind \in DOMAIN recording[h].held
            /\ observations[t].kind \in DOMAIN recording[g].held
=============================================================================

---------------------------- MODULE Discrepancies ----------------------------
(***************************************************************************)
(* The read-only WORK worker (scripts/work_worker): a pass loads the       *)
(* private ledger, walks the history of each initiative of its scope page  *)
(* by page, and saves the ledger with what it found; a reviewer decides on *)
(* a row in a process of its own, which loads and saves the same file.     *)
(* Saving is atomic, and nothing locks the file in between.                *)
(*                                                                         *)
(* The discrepancy modelled is STATE_CONTRADICTS_EVIDENCE: an initiative   *)
(* that has activities (all of them RESOLUTIONs) and is not closed.        *)
(***************************************************************************)
EXTENDS Requests, Integers, FiniteSets

CONSTANTS
    Subjects,
    OpenStates,                     \* states of an initiative that is not closed
    ReviewStatuses,                 \* statuses a reviewer may give a row
    HistoryPage,                    \* PAGE: activities a page may have
    MaxActivities, MaxStateChanges  \* bounds of the model

ASSUME ActiveIsOpen == "ACTIVE" \in OpenStates /\ "COMPLETE" \notin OpenStates
ASSUME NoneIsNoFlag ==
    None \notin [fingerprint : [state : OpenStates, resolutions : SUBSET (1..MaxActivities)],
                detection : {"DETECTED", "NOT_DETECTED", "NOT_REEVALUATED"},
                status : ReviewStatuses \cup {"OPEN"}]
ASSUME WorkerBounds ==
    HistoryPage \in Nat \ {0} /\ {MaxActivities, MaxStateChanges} \subseteq Nat

VARIABLES
    histories,  \* subject -> [state, version, count] of the initiative
    flags,      \* the ledger file: subject -> its row or None
    decided,    \* history: <<subject, fingerprint, status>> of every decision saved
    pass,       \* the worker's pass
    review      \* the reviewer's process

discrepancyVars == <<histories, flags, decided, pass, review>>

NoPass == [stage |-> "idle"]
NoReview == [stage |-> "idle"]

DiscrepanciesInit ==
    /\ histories = [s \in Subjects |-> [state |-> "ACTIVE", version |-> 1, count |-> 0]]
    /\ flags = [s \in Subjects |-> None]
    /\ decided = {}
    /\ pass = NoPass /\ review = NoReview

-----------------------------------------------------------------------------
(* WORK goes on: add_activity and transition_initiative *)

RecordResolution(s) ==
    /\ histories[s].count < MaxActivities
    /\ histories' = [histories EXCEPT ![s].count = @ + 1]
    /\ UNCHANGED <<flags, decided, pass, review>>

ChangeState(s) ==
    /\ histories[s].version <= MaxStateChanges
    /\ \E state \in (OpenStates \cup {"COMPLETE"}) \ {histories[s].state} :
        histories' = [histories EXCEPT ![s].state = state, ![s].version = @ + 1]
    /\ UNCHANGED <<flags, decided, pass, review>>

-----------------------------------------------------------------------------
(* The pass *)

LoadLedger ==
    /\ pass.stage = "idle"
    /\ pass' = [stage |-> "reading", previous |-> flags, left |-> Subjects,
                evaluated |-> {}, found |-> [s \in Subjects |-> None],
                walk |-> None]
    /\ UNCHANGED <<histories, flags, decided, review>>

\* What the server has at an offset of a history, the newest activities first.
HistoryAt(s, offset) ==
    LET last == histories[s].count - offset
    IN  {i \in 1..last : i > last - HistoryPage}

StartWalkOf(s) ==
    /\ pass.stage = "reading" /\ pass.walk = None /\ s \in pass.left
    /\ pass' = [pass EXCEPT !.walk =
                    [subject |-> s, head |-> histories[s], got |-> HistoryAt(s, 0),
                     had |-> Cardinality(HistoryAt(s, 0))]]
    /\ UNCHANGED <<histories, flags, decided, review>>

\* Mutant: a page is only compared with the version of the first.
RefusedForVersion(w, next) == histories[w.subject].version # w.head.version

\* VERSION_CHANGED, COUNT_CHANGED, DUPLICATE_ACTIVITY
Refused(w, next) ==
    \/ histories[w.subject].version # w.head.version
    \/ histories[w.subject].count # w.head.count
    \/ next \cap w.got # {}

\* Reads.initiative
ReadHistoryPage ==
    /\ pass.stage = "reading" /\ pass.walk # None
    /\ pass.walk.had < pass.walk.head.count
    /\ LET w == pass.walk
           next == HistoryAt(w.subject, w.had)
       IN  pass' = IF Refused(w, next)
                   THEN [pass EXCEPT !.left = @ \ {w.subject}, !.walk = None]
                   ELSE [pass EXCEPT !.walk.got = @ \cup next,
                                     !.walk.had = @ + Cardinality(next)]
    /\ UNCHANGED <<histories, flags, decided, review>>

\* The evidence of the discrepancy, by its versions, or None where there is none.
EvidenceOf(head, got) ==
    IF head.state = "COMPLETE" \/ got = {} THEN None
    ELSE [state |-> head.state, resolutions |-> got]

EndWalkOf(s) ==
    /\ pass.stage = "reading" /\ pass.walk # None /\ pass.walk.subject = s
    /\ pass.walk.had = pass.walk.head.count
    /\ pass' = [pass EXCEPT !.left = @ \ {s}, !.walk = None,
                            !.evaluated = @ \cup {s},
                            !.found[s] = EvidenceOf(pass.walk.head, pass.walk.got)]
    /\ UNCHANGED <<histories, flags, decided, review>>

\* A read is refused, withheld or lost.
FailRead(s) ==
    /\ pass.stage = "reading" /\ s \in pass.left
    /\ pass.walk # None => pass.walk.subject = s
    /\ pass' = [pass EXCEPT !.left = @ \ {s}, !.walk = None]
    /\ UNCHANGED <<histories, flags, decided, review>>

\* Mutant: a row keeps its status when its evidence changes.
ReevaluatedAsWas(old, found, evaluated) ==
    IF found = None
    THEN IF old = None THEN None
         ELSE [old EXCEPT !.detection =
                  IF evaluated THEN "NOT_DETECTED" ELSE "NOT_REEVALUATED"]
    ELSE [fingerprint |-> found, detection |-> "DETECTED",
          status |-> IF old # None THEN old.status ELSE "OPEN"]

\* Mutant: whatever was not found is reported not detected.
ReevaluatedUnread(old, found, evaluated) ==
    IF found = None
    THEN IF old = None THEN None ELSE [old EXCEPT !.detection = "NOT_DETECTED"]
    ELSE [fingerprint |-> found, detection |-> "DETECTED",
          status |-> IF old # None /\ old.fingerprint = found THEN old.status ELSE "OPEN"]

\* ledger.reconcile: a row is kept whatever was found, and opens again when its
\* evidence is other than before.
Reevaluated(old, found, evaluated) ==
    IF found = None
    THEN IF old = None THEN None
         ELSE [old EXCEPT !.detection =
                  IF evaluated THEN "NOT_DETECTED" ELSE "NOT_REEVALUATED"]
    ELSE [fingerprint |-> found, detection |-> "DETECTED",
          status |-> IF old # None /\ old.fingerprint = found THEN old.status ELSE "OPEN"]

SaveLedger ==
    /\ pass.stage = "reading" /\ pass.left = {}
    /\ flags' = [s \in Subjects |-> 
                 Reevaluated(pass.previous[s], pass.found[s], s \in pass.evaluated)]
    /\ pass' = NoPass
    /\ UNCHANGED <<histories, decided, review>>

StopPass ==
    /\ pass.stage # "idle"
    /\ pass' = NoPass
    /\ UNCHANGED <<histories, flags, decided, review>>

-----------------------------------------------------------------------------
(* The reviewer: cli decide *)

LoadForReview(s) ==
    /\ review.stage = "idle" /\ flags[s] # None
    /\ \E status \in ReviewStatuses :
        review' = [stage |-> "deciding", subject |-> s, status |-> status, loaded |-> flags]
    /\ UNCHANGED <<histories, flags, decided, pass>>

SaveDecision ==
    LET s == review.subject
    IN  /\ review.stage = "deciding"
        /\ flags' = [review.loaded EXCEPT ![s].status = review.status]
        /\ decided' = decided \cup {<<s, review.loaded[s].fingerprint, review.status>>}
        /\ review' = NoReview
        /\ UNCHANGED <<histories, pass>>

DiscrepanciesNext ==
    \/ \E s \in Subjects : RecordResolution(s) \/ ChangeState(s)
    \/ LoadLedger \/ ReadHistoryPage \/ SaveLedger \/ StopPass
    \/ \E s \in Subjects : StartWalkOf(s) \/ EndWalkOf(s) \/ FailRead(s)
    \/ \E s \in Subjects : LoadForReview(s)
    \/ SaveDecision

DiscrepanciesSpec == DiscrepanciesInit /\ [][DiscrepanciesNext]_discrepancyVars

-----------------------------------------------------------------------------
(* Properties *)

FlagRow == [fingerprint : [state : OpenStates,
                           resolutions : (SUBSET (1..MaxActivities)) \ {{}}],
            detection : {"DETECTED", "NOT_DETECTED", "NOT_REEVALUATED"},
            status : ReviewStatuses \cup {"OPEN"}]

DiscrepanciesTypeOK ==
    /\ \A s \in Subjects :
        /\ histories[s].state \in OpenStates \cup {"COMPLETE"}
        /\ flags[s] \in FlagRow \cup {None}
    /\ pass.stage \in {"idle", "reading"} /\ review.stage \in {"idle", "deciding"}

\* A row that is closed was closed by a reviewer who saw the evidence it has now:
\* evidence that changes, or changes back, opens it, whichever process saves last
\* ("genuinely changed evidence warrants review").
ClosedWasDecided ==
    \A s \in Subjects :
        flags[s] # None /\ flags[s].status # "OPEN" =>
            <<s, flags[s].fingerprint, flags[s].status>> \in decided

\* "Omission never resolves a flag" (reconcile): a pass neither drops nor closes a
\* row it has loaded, and reports it not detected only after a walk of the whole
\* history.
OmissionResolvesNothing ==
    [][pass.stage = "reading" /\ pass' = NoPass /\ flags' # flags =>
        \A s \in Subjects : pass.previous[s] # None =>
            /\ flags'[s] # None
            /\ flags'[s].status \in {"OPEN", pass.previous[s].status}
            /\ flags'[s].detection = "NOT_DETECTED" =>
                s \in pass.evaluated /\ pass.found[s] = None]_discrepancyVars

\* What a pass finds of an initiative is the whole of its history at some moment of
\* the walk, however many activities and transitions came between the pages: the
\* activities are the first ones, in the state they were seen in.
WalkIsWhole ==
    \A s \in Subjects :
        pass.stage = "reading" /\ pass.found[s] # None =>
            pass.found[s].resolutions = 1..Cardinality(pass.found[s].resolutions)

\* Passes and reviews that overlap close nothing unseen, find whole histories, and
\* resolve nothing by omission.
DiscrepanciesSafe ==
    /\ [](DiscrepanciesTypeOK /\ ClosedWasDecided /\ WalkIsWhole)
    /\ OmissionResolvesNothing

\* A decision stands while the evidence it was made on does.  The code does not
\* have it: a pass that loaded the ledger before saves over it.
DecisionStands ==
    [][\A s \in Subjects :
        flags[s] # None /\ flags'[s] # None /\ flags[s].status # "OPEN"
            /\ flags'[s].fingerprint = flags[s].fingerprint
        => flags'[s].status # "OPEN"]_discrepancyVars
=============================================================================

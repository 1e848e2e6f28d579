------------------------------- MODULE Captures -------------------------------
(***************************************************************************)
(* The inbox of WORK: captures, the three ways to triage one, and the walk *)
(* of a reader through the pages of the list (work_api).                   *)
(*                                                                         *)
(* created_at is the time the capture's transaction began, so a capture    *)
(* becomes visible later than its place in the list says: the sequence is  *)
(* in the order of created_at.  Ties are broken by the id.                 *)
(***************************************************************************)
EXTENDS Requests, Integers, Sequences, FiniteSets

CONSTANTS PageLimit, MaxCaptures

ASSUME CaptureBounds == PageLimit \in Nat \ {0} /\ MaxCaptures \in Nat

VARIABLES
    captures,       \* sequence of status and visibility, by created_at
    promotedFrom,   \* sequence of the captures initiatives were made from
    attachedFrom,   \* sequence of the captures activities were made from
    triaging,       \* handler -> its transaction
    walk            \* the reader: status asked, boundary, before, rows had

captureVars == <<captures, promotedFrom, attachedFrom, triaging, walk>>

Outcomes == {"PROMOTED", "ATTACHED", "DISCARDED"}
NotTriaging == [stage |-> "idle"]
NoWalk == [stage |-> "none"]

\* Mutant: a triage reads its capture without FOR UPDATE.
CaptureNeverLocked(c) == TRUE

\* SELECT ... FOR UPDATE of a capture's row.
CaptureFree(c) ==
    \A h \in Handlers : triaging[h].stage = "triaging" => triaging[h].capture # c

CapturesInit ==
    /\ captures = <<>> /\ promotedFrom = <<>> /\ attachedFrom = <<>>
    /\ triaging = [h \in Handlers |-> NotTriaging]
    /\ walk = NoWalk

\* create_capture, and every closure that mints one
BeginCapture(h) ==
    /\ triaging[h] = NotTriaging
    /\ Len(captures) < MaxCaptures
    /\ captures' = Append(captures, [status |-> "INBOX", visible |-> FALSE])
    /\ triaging' = [triaging EXCEPT ![h] =
                       [stage |-> "creating", capture |-> Len(captures) + 1]]
    /\ UNCHANGED <<promotedFrom, attachedFrom, walk>>

CommitCapture(h) ==
    /\ triaging[h].stage = "creating"
    /\ captures' = [captures EXCEPT ![triaging[h].capture].visible = TRUE]
    /\ triaging' = [triaging EXCEPT ![h] = NotTriaging]
    /\ UNCHANGED <<promotedFrom, attachedFrom, walk>>

\* promote_capture, attach_capture and discard_capture, up to the lock
BeginTriage(h, c, outcome) ==
    /\ triaging[h] = NotTriaging
    /\ captures[c].visible
    /\ CaptureFree(c)
    /\ captures[c].status = "INBOX"
    /\ triaging' = [triaging EXCEPT ![h] =
                       [stage |-> "triaging", capture |-> c, outcome |-> outcome]]
    /\ UNCHANGED <<captures, promotedFrom, attachedFrom, walk>>

CommitTriage(h) ==
    LET c == triaging[h].capture
        outcome == triaging[h].outcome
    IN  /\ triaging[h].stage = "triaging"
        /\ captures' = [captures EXCEPT ![c].status = outcome]
        /\ promotedFrom' = IF outcome = "PROMOTED" THEN Append(promotedFrom, c)
                                                   ELSE promotedFrom
        /\ attachedFrom' = IF outcome = "ATTACHED" THEN Append(attachedFrom, c)
                                                   ELSE attachedFrom
        /\ triaging' = [triaging EXCEPT ![h] = NotTriaging]
        /\ UNCHANGED walk

\* An initiative key that exists, an error, a closed connection: a capture
\* that was being made stays invisible for ever.
AbandonTriage(h) ==
    /\ triaging[h] # NotTriaging
    /\ triaging' = [triaging EXCEPT ![h] = NotTriaging]
    /\ UNCHANGED <<captures, promotedFrom, attachedFrom, walk>>

-----------------------------------------------------------------------------
(* list_captures: one snapshot per page, newest first *)

Visible == {c \in DOMAIN captures : captures[c].visible}
Matching(status) ==
    {c \in Visible : status = "all" \/ captures[c].status = status}

\* The page of at most PageLimit rows of R, from the newest.
PageOf(R) == {c \in R : Cardinality({d \in R : d > c}) < PageLimit}

\* Mutant: a page begins with the last row of the one before.
RemainingFrom(status, boundary, before) ==
    {c \in Matching(status) : c <= boundary /\ c <= before}

\* The rows the predicate leaves a page: not above boundary, below before.
Remaining(status, boundary, before) ==
    {c \in Matching(status) : c <= boundary /\ c < before}

ReadPage(status, boundary, before, standing, had) ==
    LET R == Remaining(status, boundary, before)
        page == PageOf(R)
    IN  walk' = [stage |-> IF page = R THEN "finished" ELSE "walking",
                 status |-> status, boundary |-> boundary,
                 before |-> IF page = {} THEN before
                            ELSE CHOOSE c \in page : \A d \in page : c <= d,
                 standing |-> standing,
                 had |-> [c \in 1..MaxCaptures |->
                             had[c] + IF c \in page THEN 1 ELSE 0]]

\* The first page sets the boundary: the newest capture there is.
StartWalk(status) ==
    /\ walk.stage \in {"none", "finished"}
    /\ Visible # {}
    /\ ReadPage(status, CHOOSE c \in Visible : \A d \in Visible : d <= c,
                MaxCaptures + 1, Matching(status), [c \in 1..MaxCaptures |-> 0])
    /\ UNCHANGED <<captures, promotedFrom, attachedFrom, triaging>>

\* Mutant: the cursor is an offset into the list as it is now.
NextPageByOffset ==
    LET had == Cardinality({c \in DOMAIN captures : walk.had[c] > 0})
        listed == Remaining(walk.status, walk.boundary, MaxCaptures + 1)
        skipped == {c \in listed : Cardinality({d \in listed : d > c}) < had}
    IN  /\ walk.stage = "walking"
        /\ ReadPage(walk.status, walk.boundary,
                    IF skipped = {} THEN MaxCaptures + 1
                    ELSE CHOOSE c \in skipped : \A d \in skipped : c <= d,
                    walk.standing, walk.had)
        /\ UNCHANGED <<captures, promotedFrom, attachedFrom, triaging>>

\* The cursor carries the status, the boundary and the last row of the page.
NextPage ==
    /\ walk.stage = "walking"
    /\ ReadPage(walk.status, walk.boundary, walk.before, walk.standing, walk.had)
    /\ UNCHANGED <<captures, promotedFrom, attachedFrom, triaging>>

CapturesNext ==
    \/ \E h \in Handlers : BeginCapture(h)
    \/ \E h \in Handlers : CommitCapture(h)
    \/ \E h \in Handlers, c \in DOMAIN captures, o \in Outcomes : BeginTriage(h, c, o)
    \/ \E h \in Handlers : CommitTriage(h)
    \/ \E h \in Handlers : AbandonTriage(h)
    \/ \E status \in {"INBOX", "all"} : StartWalk(status)
    \/ NextPage

CapturesSpec == CapturesInit /\ [][CapturesNext]_captureVars

-----------------------------------------------------------------------------
(* Properties *)

CapturesTypeOK ==
    /\ captures \in Seq([status : Outcomes \cup {"INBOX"}, visible : BOOLEAN])
    /\ promotedFrom \in Seq(DOMAIN captures)
    /\ attachedFrom \in Seq(DOMAIN captures)
    /\ walk.stage \in {"none", "walking", "finished"}

\* However many triage a capture at once, it has one outcome: its status names
\* the one initiative or the one activity made from it, and none is made
\* from a capture that says otherwise.
OneOutcome ==
    \A c \in DOMAIN captures :
        /\ Cardinality({i \in DOMAIN promotedFrom : promotedFrom[i] = c})
             = IF captures[c].status = "PROMOTED" THEN 1 ELSE 0
        /\ Cardinality({a \in DOMAIN attachedFrom : attachedFrom[a] = c})
             = IF captures[c].status = "ATTACHED" THEN 1 ELSE 0

\* "Keyset traversal is stable under new arrivals and does not skip rows when
\* triage removes earlier rows" (list_captures): a capture that was in the list
\* when the walk began and still is has been had, once.
WalkSkipsNothing ==
    walk.stage = "finished" =>
        \A c \in walk.standing \cap Matching(walk.status) : walk.had[c] = 1

\* No row is had twice in one walk.
WalkRepeatsNothing ==
    walk.stage # "none" => \A c \in 1..MaxCaptures : walk.had[c] <= 1

\* A capture has one outcome, and a walk of the list has each once while others
\* arrive and are triaged.
CapturesSafe ==
    /\ CapturesTypeOK /\ OneOutcome /\ WalkSkipsNothing /\ WalkRepeatsNothing

-----------------------------------------------------------------------------
(* What the code does not have *)

\* "enumerate status=all for an inventory" (list_captures): all that is not
\* above the boundary has been had when the walk ends.
WalkIsInventory ==
    walk.stage = "finished" /\ walk.status = "all" =>
        \A c \in Visible : c <= walk.boundary => walk.had[c] = 1
=============================================================================

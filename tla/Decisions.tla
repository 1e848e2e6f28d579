------------------------------- MODULE Decisions -------------------------------
(***************************************************************************)
(* The activities of an initiative that ask for a decision and those that  *)
(* resolve one, and the queue of decisions needed (work_api).  An activity *)
(* is dated when its transaction begins, and written when it has the lock  *)
(* of the initiative's row.                                                *)
(***************************************************************************)
EXTENDS Initiatives

CONSTANTS MaxBegun      \* transactions begun: the clock of now()

ASSUME BegunIsBounded == MaxBegun \in Nat

VARIABLES
    activities,     \* sequence of rows of work.initiative_activities
    begun,
    adding          \* handler -> its transaction

decisionVars == <<activities, begun, adding>>

NotAdding == [stage |-> "idle"]

DecisionsInit ==
    /\ activities = <<>>
    /\ begun = 0
    /\ adding = [h \in Handlers |-> NotAdding]

\* The caller sees the activities there are; the transaction begins.
BeginActivity(h) ==
    /\ adding[h] = NotAdding
    /\ begun < MaxBegun
    /\ begun' = begun + 1
    /\ adding' = [adding EXCEPT ![h] =
                     [stage |-> "adding", began |-> begun + 1, seen |-> Len(activities)]]
    /\ UNCHANGED activities

\* add_activity and attach_capture, under the lock
AddActivity(h, kind) ==
    /\ adding[h] # NotAdding
    /\ activities' = Append(activities,
           [kind |-> kind, createdAt |-> adding[h].began, seen |-> adding[h].seen])
    /\ adding' = [adding EXCEPT ![h] = NotAdding]
    /\ UNCHANGED begun

AbandonActivity(h) ==
    /\ adding[h] # NotAdding
    /\ adding' = [adding EXCEPT ![h] = NotAdding]
    /\ UNCHANGED <<activities, begun>>

Asks(a) == activities[a].kind = "DECISION_REQUIRED"
Resolves(r) == activities[r].kind = "RESOLUTION"

\* Mutant: the comparison of the dates is the other way round.
DecisionsNeededBefore ==
    {a \in DOMAIN activities :
        Asks(a) /\ ~\E r \in DOMAIN activities :
            Resolves(r) /\ activities[r].createdAt < activities[a].createdAt}

\* work_queues: decisions no resolution of a later date answers.
DecisionsNeeded ==
    {a \in DOMAIN activities :
        Asks(a) /\ ~\E r \in DOMAIN activities :
            Resolves(r) /\ activities[r].createdAt > activities[a].createdAt}

DecisionsNext ==
    \/ \E h \in Handlers : BeginActivity(h)
    \/ \E h \in Handlers, kind \in {"DECISION_REQUIRED", "RESOLUTION", "NOTE"} :
            AddActivity(h, kind)
    \/ \E h \in Handlers : AbandonActivity(h)

DecisionsSpec == DecisionsInit /\ [][DecisionsNext]_decisionVars

-----------------------------------------------------------------------------
(* Properties *)

\* A resolution by somebody who could see a decision asked for takes it off
\* the queue of decisions needed, whatever waited for which lock.
ResolutionClears ==
    \A a \in DecisionsNeeded, r \in DOMAIN activities :
        Resolves(r) => activities[r].seen < a

\* Initiatives close on answers, and a question that is resolved is no longer asked
\* (work_api, work_catalogue).
WorkIsAnswered == InitiativesSafe /\ ResolutionClears

-----------------------------------------------------------------------------
(* What the code does not have *)

\* Only a resolution written after it takes a decision off the queue.
DecisionIsAwaited ==
    \A a \in DOMAIN activities :
        Asks(a) /\ a \notin DecisionsNeeded
        => \E r \in DOMAIN activities : Resolves(r) /\ r > a
=============================================================================

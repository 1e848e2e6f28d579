------------------------------ MODULE Initiatives ------------------------------
(***************************************************************************)
(* Initiatives of WORK: their states, the gates of SOAKING and COMPLETE    *)
(* and the answers given per durable domain (work_api, work_models).       *)
(*                                                                         *)
(* A write is two steps: its caller reads the row; later its request has   *)
(* the row's lock and does all it does, up to the commit.                  *)
(***************************************************************************)
EXTENDS Requests, Integers, Sequences

CONSTANTS
    Domains,        \* the durable domains to answer for: model, observe
    Answers,        \* what a request says of one: [disposition, noted]
    MaxInitiatives, MaxInitiativeVersion

States == {"BACKLOG", "ACTIVE", "BLOCKED", "SOAKING", "PAUSED", "PARKED",
           "COMPLETE", "ABANDONED"}
Dispositions == {"UPDATED", "NOT_REQUIRED", "DEFERRED"}

ASSUME AnswersAreAnswers ==
    Answers \subseteq [disposition : Dispositions \cup {None}, noted : BOOLEAN]
ASSUME InitiativeBounds == {MaxInitiatives, MaxInitiativeVersion} \subseteq Nat

VARIABLES
    initiatives,    \* sequence of rows of work.initiatives
    deferrals,      \* <<initiative, domain>> of the captures that closures mint
    closings,       \* initiative -> version, answers it was closed on, or None
    working         \* handler -> what its caller has read

initiativeVars == <<initiatives, deferrals, closings, working>>

NotWorking == [stage |-> "idle"]
Unanswered == [disposition |-> None, noted |-> FALSE]

\* _TRANSITIONS
Transitions ==
    [BACKLOG   |-> {"ACTIVE", "PAUSED", "PARKED", "ABANDONED"},
     ACTIVE    |-> {"BLOCKED", "SOAKING", "PAUSED", "PARKED", "COMPLETE", "ABANDONED"},
     BLOCKED   |-> {"ACTIVE", "PAUSED", "PARKED", "ABANDONED"},
     SOAKING   |-> {"ACTIVE", "BLOCKED", "PAUSED", "COMPLETE", "ABANDONED"},
     PAUSED    |-> {"ACTIVE", "PARKED", "ABANDONED"},
     PARKED    |-> {"BACKLOG", "ACTIVE", "ABANDONED"},
     COMPLETE  |-> {},
     ABANDONED |-> {}]

InitiativesInit ==
    /\ initiatives = <<>> /\ closings = <<>>
    /\ deferrals = {}
    /\ working = [h \in Handlers |-> NotWorking]

-----------------------------------------------------------------------------
(* Routes of one step: they lock nothing that others wait for *)

\* InitiativeCreate takes any state but the last two, and no monitoring.
CreateInitiative(state) ==
    /\ Len(initiatives) < MaxInitiatives
    /\ state \in States \ {"COMPLETE", "ABANDONED"}
    /\ initiatives' = Append(initiatives,
           [state |-> state, version |-> 1, promoted |-> FALSE, monitored |-> FALSE,
            answers |-> [d \in Domains |-> Unanswered], links |-> {}])
    /\ closings' = Append(closings, None)
    /\ UNCHANGED <<deferrals, working>>

\* add_link of evidence for a domain; it has no version and no lock.
AddLink(i, d) ==
    /\ initiatives' = [initiatives EXCEPT ![i].links = @ \cup {d}]
    /\ UNCHANGED <<deferrals, closings, working>>

-----------------------------------------------------------------------------
(* Requests under the row's lock *)

ReadInitiative(h, i) ==
    /\ working[h] = NotWorking
    /\ initiatives[i].version < MaxInitiativeVersion
    /\ working' = [working EXCEPT ![h] =
           [stage |-> "working", initiative |-> i, expected |-> initiatives[i].version,
            answers |-> initiatives[i].answers]]
    /\ UNCHANGED <<initiatives, deferrals, closings>>

\* A refusal, an error, a closed connection; or the caller asks for nothing.
AbandonWork(h) ==
    /\ working[h] # NotWorking
    /\ working' = [working EXCEPT ![h] = NotWorking]
    /\ UNCHANGED <<initiatives, deferrals, closings>>

\* Mutant: expected_version is not compared.
FreshAlways(h) == working[h] # NotWorking

\* INITIATIVE_VERSION_STALE otherwise
Fresh(h) ==
    /\ working[h] # NotWorking
    /\ initiatives[working[h].initiative].version = working[h].expected

\* Mutant: what a request leaves out is cleared.
EffectiveGiven(recorded, answers) == answers

\* Values of the request win, otherwise what was recorded persists.
Effective(recorded, answers) ==
    [d \in Domains |->
        [disposition |-> IF answers[d].disposition # None THEN answers[d].disposition
                         ELSE recorded[d].disposition,
         noted |-> answers[d].noted \/ recorded[d].noted]]

\* closure_gate_errors is empty
MayClose(row, answers) ==
    /\ row.promoted
    /\ \A d \in Domains :
        /\ answers[d].disposition # None
        /\ answers[d].disposition = "UPDATED" => d \in row.links
        /\ answers[d].disposition \in {"NOT_REQUIRED", "DEFERRED"} => answers[d].noted

\* soak_gate_errors is empty
MaySoak(row, monitored) == monitored \/ row.links # {}

\* Honest deferral mints a visible inbox gap.
Deferred(i, answers) ==
    {<<i, d>> : d \in {d \in Domains : answers[d].disposition = "DEFERRED"}}

TransitionInitiative(h, to, given, monitoring) ==
    LET i == working[h].initiative
        row == initiatives[i]
        answers == Effective(row.answers, given)
        monitored == monitoring \/ row.monitored
    IN  /\ Fresh(h)
        /\ to \in Transitions[row.state]
        /\ to = "SOAKING" => MaySoak(row, monitored)
        /\ to = "COMPLETE" => MayClose(row, answers)
        /\ initiatives' = [initiatives EXCEPT ![i] =
               [row EXCEPT !.state = to, !.version = @ + 1,
                           !.monitored = monitored, !.answers = answers]]
        /\ IF to = "COMPLETE"
           THEN /\ deferrals' = deferrals \cup Deferred(i, answers)
                /\ closings' = [closings EXCEPT ![i] =
                       [version |-> row.version + 1,
                        answers |-> Effective(working[h].answers, given)]]
           ELSE UNCHANGED <<deferrals, closings>>
        /\ working' = [working EXCEPT ![h] = NotWorking]

\* update_dispositions, of an initiative in any state
UpdateDispositions(h, given, monitoring) ==
    LET i == working[h].initiative
    IN  /\ Fresh(h)
        /\ initiatives' = [initiatives EXCEPT
               ![i].version = @ + 1,
               ![i].monitored = monitoring \/ @,
               ![i].answers = Effective(@, given)]
        /\ working' = [working EXCEPT ![h] = NotWorking]
        /\ UNCHANGED <<deferrals, closings>>

\* Mutant: a promotion is written under the version that was read.
UpdatePromotionInPlace(h, promoted) ==
    LET i == working[h].initiative
    IN  /\ Fresh(h)
        /\ initiatives' = [initiatives EXCEPT ![i].promoted = promoted]
        /\ working' = [working EXCEPT ![h] = NotWorking]
        /\ UNCHANGED <<deferrals, closings>>

\* update_promotion, of an initiative in any state
UpdatePromotion(h, promoted) ==
    LET i == working[h].initiative
    IN  /\ Fresh(h)
        /\ initiatives' = [initiatives EXCEPT ![i].version = @ + 1,
                                              ![i].promoted = promoted]
        /\ working' = [working EXCEPT ![h] = NotWorking]
        /\ UNCHANGED <<deferrals, closings>>

InitiativesNext ==
    \/ \E state \in States : CreateInitiative(state)
    \/ \E i \in DOMAIN initiatives, d \in Domains : AddLink(i, d)
    \/ \E h \in Handlers, i \in DOMAIN initiatives : ReadInitiative(h, i)
    \/ \E h \in Handlers : AbandonWork(h)
    \/ \E h \in Handlers, to \in States, given \in [Domains -> Answers],
          monitoring \in BOOLEAN : TransitionInitiative(h, to, given, monitoring)
    \/ \E h \in Handlers, given \in [Domains -> Answers], monitoring \in BOOLEAN :
            UpdateDispositions(h, given, monitoring)
    \/ \E h \in Handlers, promoted \in BOOLEAN : UpdatePromotion(h, promoted)

InitiativesSpec == InitiativesInit /\ [][InitiativesNext]_initiativeVars

-----------------------------------------------------------------------------
(* Properties *)

Answer == [disposition : Dispositions \cup {None}, noted : BOOLEAN]
InitiativeRow ==
    [state : States, version : Nat \ {0}, promoted : BOOLEAN, monitored : BOOLEAN,
     answers : [Domains -> Answer], links : SUBSET Domains]

InitiativesTypeOK ==
    /\ initiatives \in Seq(InitiativeRow)
    /\ closings \in Seq([version : Nat, answers : [Domains -> Answer]] \cup {None})
    /\ Len(closings) = Len(initiatives)
    /\ deferrals \subseteq (DOMAIN initiatives) \X Domains
    /\ \A h \in Handlers : working[h].stage \in {"idle", "working"}

Complete(i) == initiatives[i].state = "COMPLETE"

\* A closed initiative has an answer for every domain, also after the later
\* writes that its row still takes (update_dispositions keeps what a request
\* leaves out).
ClosedAnswered ==
    \A i \in DOMAIN initiatives :
        Complete(i) => \A d \in Domains : initiatives[i].answers[d].disposition # None

\* An initiative is closed on the answers its closer had read, with those it
\* gave: no answer recorded meanwhile decides the gate in their place.
ClosedAsRead ==
    \A i \in DOMAIN initiatives :
        Complete(i) /\ initiatives[i].version = closings[i].version
        => initiatives[i].answers = closings[i].answers

\* While nothing is written over it, a closure satisfies the gate in full, and
\* every deferred domain, with no other, has its capture in the inbox.
ClosureStands ==
    \A i \in DOMAIN initiatives :
        Complete(i) /\ initiatives[i].version = closings[i].version
        => /\ MayClose(initiatives[i], initiatives[i].answers)
           /\ {g \in deferrals : g[1] = i} = Deferred(i, initiatives[i].answers)

\* An initiative is closed on answers that were given, and as they were read, and
\* stays so.
InitiativesSafe == InitiativesTypeOK /\ ClosedAnswered /\ ClosedAsRead /\ ClosureStands

-----------------------------------------------------------------------------
(* What the code does not have *)

\* "DEFERRED mints a visible inbox gap" (closure_gate_errors).
DeferredIsVisible ==
    \A i \in DOMAIN initiatives : Complete(i) => Deferred(i, initiatives[i].answers) \subseteq deferrals

\* "A thing that cannot be observed cannot be soaked" (soak_gate_errors).
SoakIsObservable ==
    \A i \in DOMAIN initiatives :
        initiatives[i].state = "SOAKING" => MaySoak(initiatives[i], initiatives[i].monitored)
=============================================================================

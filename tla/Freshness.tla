------------------------------- MODULE Freshness -------------------------------
(***************************************************************************)
(* What observations say of a generated artifact (derive_freshness of      *)
(* observe_api), and the conditions that follow (generated_conditions).    *)
(* An observation is its outcome, fingerprint and time; None is none.      *)
(* Pure functions of what was read: nothing of this is stored.             *)
(***************************************************************************)
EXTENDS Integers, FiniteSets

CONSTANT Absent         \* no observation, fingerprint or contract

ObservationOutcomes == {"NOMINAL", "DEGRADED", "FAILED", "UNKNOWN"}
Usable(o) == o # Absent /\ o.outcome = "NOMINAL"
FingerprintOf(o) == IF Usable(o) THEN o.fingerprint ELSE Absent

\* What was read: the latest generation, the latest successful one, the latest
\* source observation, the latest successful one; the maximal age the execution
\* contract allows an observation, and the time.
Correspondence(generated, sourced) ==
    IF generated = Absent \/ sourced = Absent THEN "UNKNOWN"
    ELSE IF generated = sourced THEN "MATCH" ELSE "MISMATCH"

Expired(e) == e.maxAge # Absent /\ e.now > e.source.at + e.maxAge

SourceReason ==
    [FAILED |-> "SOURCE_OBSERVATION_FAILED", DEGRADED |-> "SOURCE_OBSERVATION_DEGRADED",
     UNKNOWN |-> "SOURCE_OBSERVATION_UNKNOWN"]

\* The answer of each early return: state, reason, correspondence, status.
Answered(state, reason, correspondence, sourceStatus) ==
    [state |-> state, reason |-> reason, correspondence |-> correspondence,
     sourceStatus |-> sourceStatus]

DeriveFreshness(e) ==
    LET generated == FingerprintOf(e.generated)
        historical == Correspondence(generated, FingerprintOf(e.sourced))
        current == Correspondence(generated, FingerprintOf(e.source))
        unread == IF e.source = Absent THEN "ABSENT" ELSE "UNUSABLE"
        age == IF e.maxAge = Absent THEN "UNBOUNDED_TRANSITIONAL"
               ELSE IF Expired(e) THEN "EXPIRED" ELSE "CURRENT"
    IN  CASE e.generated = Absent ->
                Answered("NEVER_GENERATED", "NO_SUCCESSFUL_GENERATION", historical, unread)
          [] e.generated # Absent /\ ~Usable(e.attempt) ->
                IF e.attempt # Absent /\ e.attempt.outcome = "FAILED"
                THEN Answered("FAILED", "LATEST_GENERATION_FAILED", historical, unread)
                ELSE Answered("UNKNOWN", "LATEST_GENERATION_NOT_NOMINAL", historical, unread)
          [] e.generated # Absent /\ Usable(e.attempt) /\ e.source = Absent ->
                Answered("UNKNOWN", "SOURCE_UNOBSERVED", historical, unread)
          [] /\ e.generated # Absent /\ Usable(e.attempt)
             /\ e.source # Absent /\ ~Usable(e.source) ->
                Answered("UNKNOWN", SourceReason[e.source.outcome], historical, unread)
          [] e.generated # Absent /\ Usable(e.attempt) /\ Usable(e.source) ->
                IF current = "MISMATCH"
                THEN Answered("DRIFTED", "SOURCE_CHANGED", current, age)
                ELSE IF Expired(e)
                THEN Answered("UNKNOWN", "SOURCE_OBSERVATION_EXPIRED", current, age)
                ELSE Answered("FRESH", "FINGERPRINTS_MATCH", current, age)

-----------------------------------------------------------------------------
(* generated_conditions *)

\* One entity: the pages its catalogue should link, those of them there are
\* and active, the pages it does link.
CataloguesMissing(E) ==
    \E x \in E : x.desired # {} /\ (x.actual = {} \/ x.desired # x.resolved)
CataloguesDrifted(E) == \E x \in E : x.actual # {} /\ x.actual # x.desired

\* Mutant: an observation that has expired reports no drift.
DeriveConditionsUnexpired(e, contractStatus, E) ==
    LET f == DeriveFreshness(e)
        Held == [
            DRIFTED |-> f.correspondence = "MISMATCH" /\ f.sourceStatus # "EXPIRED",
            GENERATION_FAILED |-> f.state = "FAILED",
            SOURCE_OBSERVATION_MISSING |-> f.reason = "SOURCE_UNOBSERVED",
            SOURCE_OBSERVATION_FAILED |-> f.reason = SourceReason.FAILED,
            SOURCE_OBSERVATION_EXPIRED |-> f.sourceStatus = "EXPIRED",
            EXECUTION_CONTRACT_MISSING |-> contractStatus = "UNDECLARED_TRANSITIONAL",
            EXECUTION_OWNER_INACTIVE |-> contractStatus = "OWNER_INACTIVE",
            CATALOGUES_MISSING |-> CataloguesMissing(E),
            CATALOGUES_DRIFTED |-> CataloguesDrifted(E)]
    IN  {k \in DOMAIN Held : Held[k]}

\* derive_generated_artifact_conditions: the kinds of the complete set.
DeriveConditions(e, contractStatus, E) ==
    LET f == DeriveFreshness(e)
        Held == [
            DRIFTED |-> \/ f.state = "DRIFTED" /\ f.reason = "SOURCE_CHANGED"
                        \/ f.correspondence = "MISMATCH",
            GENERATION_FAILED |-> f.state = "FAILED",
            SOURCE_OBSERVATION_MISSING |-> f.reason = "SOURCE_UNOBSERVED",
            SOURCE_OBSERVATION_FAILED |-> f.reason = SourceReason.FAILED,
            SOURCE_OBSERVATION_EXPIRED |-> f.sourceStatus = "EXPIRED",
            EXECUTION_CONTRACT_MISSING |-> contractStatus = "UNDECLARED_TRANSITIONAL",
            EXECUTION_OWNER_INACTIVE |-> contractStatus = "OWNER_INACTIVE",
            CATALOGUES_MISSING |-> CataloguesMissing(E),
            CATALOGUES_DRIFTED |-> CataloguesDrifted(E)]
    IN  {k \in DOMAIN Held : Held[k]}
=============================================================================

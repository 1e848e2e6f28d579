------------------------------- MODULE MCWork -------------------------------
(***************************************************************************)
(* One instance of each of the components of WORK and OBSERVE and of the   *)
(* catalogue generators, for TLC.  They share no state, so a behaviour is  *)
(* one of a single component, the focus, and the others stay as they begin.*)
(***************************************************************************)
EXTENDS Initiatives, Decisions, Captures, Conditions, Observations,
        Generators, MeterRules, Coverage, Discrepancies, Briefs, TLC

VARIABLE focus  \* the component of this behaviour

vars == <<focus, initiativeVars, decisionVars, captureVars, conditionVars,
          observationVars, generatorVars, meterVars, coverageVars,
          discrepancyVars, briefVars>>

Init ==
    /\ focus \in {"initiatives", "decisions", "captures", "conditions",
                  "observations", "generators", "rules", "coverage",
                  "discrepancies", "briefs"}
    /\ InitiativesInit
    /\ DecisionsInit
    /\ CapturesInit
    /\ ConditionsInit
    /\ ObservationsInit
    /\ GeneratorsInit /\ (focus = "generators" \/ (keying = "target" /\ source = 1))
    /\ MeterInit /\ (focus = "rules" \/ ruleSet = <<None, None>>)
    /\ CoverageInit
    /\ DiscrepanciesInit
    /\ BriefsInit

OnlyInitiatives ==
    /\ focus = "initiatives" /\ InitiativesNext
    /\ UNCHANGED <<focus, decisionVars, captureVars, conditionVars,
                    observationVars, generatorVars, meterVars, coverageVars,
                    discrepancyVars, briefVars>>

OnlyDecisions ==
    /\ focus = "decisions" /\ DecisionsNext
    /\ UNCHANGED <<focus, initiativeVars, captureVars, conditionVars,
                    observationVars, generatorVars, meterVars, coverageVars,
                    discrepancyVars, briefVars>>

OnlyCaptures ==
    /\ focus = "captures" /\ CapturesNext
    /\ UNCHANGED <<focus, initiativeVars, decisionVars, conditionVars,
                    observationVars, generatorVars, meterVars, coverageVars,
                    discrepancyVars, briefVars>>

OnlyConditions ==
    /\ focus = "conditions" /\ ConditionsNext
    /\ UNCHANGED <<focus, initiativeVars, decisionVars, captureVars,
                    observationVars, generatorVars, meterVars, coverageVars,
                    discrepancyVars, briefVars>>

OnlyObservations ==
    /\ focus = "observations" /\ ObservationsNext
    /\ UNCHANGED <<focus, initiativeVars, decisionVars, captureVars,
                    conditionVars, generatorVars, meterVars, coverageVars,
                    discrepancyVars, briefVars>>

OnlyGenerators ==
    /\ focus = "generators" /\ GeneratorsNext
    /\ UNCHANGED <<focus, initiativeVars, decisionVars, captureVars,
                    conditionVars, observationVars, meterVars, coverageVars,
                    discrepancyVars, briefVars>>

OnlyMeter ==
    /\ focus = "rules" /\ MeterNext
    /\ UNCHANGED <<focus, initiativeVars, decisionVars, captureVars,
                    conditionVars, observationVars, generatorVars,
                    coverageVars, discrepancyVars, briefVars>>

OnlyCoverage ==
    /\ focus = "coverage" /\ CoverageNext
    /\ UNCHANGED <<focus, initiativeVars, decisionVars, captureVars,
                    conditionVars, observationVars, generatorVars, meterVars,
                    discrepancyVars, briefVars>>

OnlyDiscrepancies ==
    /\ focus = "discrepancies" /\ DiscrepanciesNext
    /\ UNCHANGED <<focus, initiativeVars, decisionVars, captureVars,
                    conditionVars, observationVars, generatorVars, meterVars,
                    coverageVars, briefVars>>

OnlyBriefs ==
    /\ focus = "briefs" /\ BriefsNext
    /\ UNCHANGED <<focus, initiativeVars, decisionVars, captureVars,
                    conditionVars, observationVars, generatorVars, meterVars,
                    coverageVars, discrepancyVars>>

Next ==
    \/ OnlyInitiatives
    \/ OnlyDecisions
    \/ OnlyCaptures
    \/ OnlyConditions
    \/ OnlyObservations
    \/ OnlyGenerators
    \/ OnlyMeter
    \/ OnlyCoverage
    \/ OnlyDiscrepancies
    \/ OnlyBriefs

Spec == Init /\ [][Next]_vars

Symmetry == Permutations(Handlers)

MCAnswers == {[disposition |-> None, noted |-> FALSE],
              [disposition |-> "DEFERRED", noted |-> TRUE],
              [disposition |-> "NOT_REQUIRED", noted |-> FALSE]}

Named(protected, byDecision) ==
    [item |-> [protected |-> protected], decided |-> byDecision]
MCUpdates ==
    {"i1" :> Named(TRUE, FALSE), "i1" :> Named(FALSE, FALSE),
     "i1" :> Named(FALSE, TRUE), "i2" :> Named(FALSE, FALSE),
     ("i1" :> Named(TRUE, FALSE)) @@ ("i2" :> Named(TRUE, FALSE))}

Rule(text, service) == [text |-> text, service |-> service]
MCRuleSets == {<<Rule(1, 1), Rule(1, None)>>, <<Rule(1, 2), None>>,
               <<Rule(2, 1), Rule(1, None)>>, <<None, None>>}
=============================================================================

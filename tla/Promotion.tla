------------------------------- MODULE Promotion -------------------------------
(* Everything that promotes, and what freezes promotion: the evaluation gates,   *)
(* governance proposals and policies, and the model inventory over one set of    *)
(* incidents and indicators.  One PostgreSQL database, one step per operation.   *)
EXTENDS Governance, Evaluation, ModelRisk

vars == <<relVars, govVars, evalVars, models>>

Init == ReliabilityInit /\ GovernanceInit /\ EvaluationInit /\ ModelRiskInit

Next ==
    \/ ReliabilityNext /\ UNCHANGED <<govVars, evalVars, models>>
    \/ GovernanceNext /\ UNCHANGED <<evalVars, models>>
    \/ EvaluationNext /\ UNCHANGED <<govVars, models>>
    \/ ModelRiskNext /\ UNCHANGED <<govVars, evalVars>>

Spec == Init /\ [][Next]_vars

\* The variables have their types.
TypeOK == ReliabilityTypeOK /\ GovernanceTypeOK /\ EvaluationTypeOK /\ ModelRiskTypeOK

\* A step that promotes: a gate passed, a proposal PROMOTED, a policy EFFECTIVE,
\* a model APPROVED that was not so before.
Promotes ==
    \/ \E s \in Strategies : candidates'[s] # candidates[s] /\ candidates'[s].status = "PASSED"
    \/ \E p \in Proposals : proposals'[p].status = "PROMOTED" /\ proposals[p].status # "PROMOTED"
    \/ \E v \in Versions : policies'[v] = "EFFECTIVE" /\ policies[v] # "EFFECTIVE"
    \/ \E m \in Models : models'[m].column = "APPROVED" /\ models[m].column # "APPROVED"

\* MaterialIncidentsBlock: whichever service promotes (the gates, governance or
\* model risk), it does so only while nothing material is open: the freezes of
\* ReliabilityService stand for the incidents and breaches they were raised for.
MaterialIncidentsBlock == [][Promotes => NothingMaterialOpen]_vars

\* IndependentEvidence: the sealed holdout judges unrelated strategies only
\* (Research.sealed_result, register), and a model is approved on evidence and by
\* people that did not make it (ModelRiskService.approve, link_evidence).
IndependentEvidence == SealedOnce /\ ApprovedIndependently
===============================================================================

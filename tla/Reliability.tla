------------------------------ MODULE Reliability ------------------------------
(* Incidents, service level indicators and the promotion freezes they raise     *)
(* (src/liki/reliability_service.py, the incident operations of                 *)
(* governance_service.py, transition_incident of governance/domain.py and the   *)
(* trigger of migrations/019).  Every operation holds one PostgreSQL advisory   *)
(* lock for its whole transaction, so each is one step.  Provenance checks of   *)
(* artifacts and signatures are inputs that the caller gets right.              *)
EXTENDS Naturals, FiniteSets, FiniteSetsExt

CONSTANTS Incidents,        \* incident ids
          Times,            \* instants at which samples are observed and windows end
          WindowLength,     \* window_seconds
          Target,           \* target_basis_points
          BreachThreshold,  \* breach_threshold
          Declared          \* statuses tried by GovernanceService.declare_incident, which takes any

ASSUME ReliabilityAssumption ==
    /\ Times \subseteq Nat /\ IsFiniteSet(Times)
    /\ Declared \subseteq {"OPEN", "CONTAINED", "RECONCILING", "RESOLVED", "CLOSED"}
    /\ WindowLength \in Nat \ {0} /\ Target \in 0..10000 /\ BreachThreshold \in Nat \ {0}

VARIABLES incidents,   \* rows of incidents with their incident_promotion_freezes row
          sli          \* one indicator: samples, evaluated windows and its freeze

relVars == <<incidents, sli>>

Material == {"SEV0", "SEV1"}
Unresolved == {"OPEN", "CONTAINED", "RECONCILING"}
IncidentStatus == Unresolved \cup {"RESOLVED", "CLOSED"}

\* The row before the incident exists.  "reopened" (after its freeze was lifted)
\* and "service" are history.
NoIncident == [status |-> "NONE", severity |-> "SEV3", corrective |-> FALSE,
               freeze |-> "none", reopened |-> FALSE, service |-> "none"]

ReliabilityTypeOK ==
    /\ incidents \in [Incidents -> [status: IncidentStatus \cup {"NONE"}, severity: {"SEV0", "SEV1", "SEV3"},
                                    corrective: BOOLEAN, freeze: {"none", "active", "lifted"},
                                    reopened: BOOLEAN, service: {"none", "reliability", "governance"}]]
    /\ sli \in [defined: BOOLEAN, samples: [Times -> {"none", "good", "bad"}],
                windows: [Times -> {"NONE", "COMPLIANT", "BREACHED"}],
                remediated: SUBSET Times, frozen: BOOLEAN]

ReliabilityInit ==
    /\ incidents = [i \in Incidents |-> NoIncident]
    /\ sli = [defined |-> FALSE, samples |-> [t \in Times |-> "none"],
              windows |-> [t \in Times |-> "NONE"], remediated |-> {}, frozen |-> FALSE]

-------------------------------------------------------------------------------
(* Incidents *)

\* transition_incident: the table of allowed moves.  Resolution and closing
\* evidence is an input; a material incident closes only with a postmortem.
CanMove(from, to) ==
    to \in (CASE from = "OPEN" -> {"CONTAINED"}
              [] from = "CONTAINED" -> {"RECONCILING"}
              [] from = "RECONCILING" -> {"RESOLVED"}
              [] from = "RESOLVED" -> {"CLOSED", "OPEN"}
              [] OTHER -> {})

Move(i, to) ==
    /\ CanMove(incidents[i].status, to)
    /\ incidents' = [incidents EXCEPT ![i].status = to,
                                      ![i].reopened = @ \/ (to = "OPEN" /\ incidents[i].freeze = "lifted")]
    /\ UNCHANGED sli

\* A material incident freezes promotion until the freeze is lifted.
declare_incident(i, severity) ==
    /\ incidents[i].status = "NONE"
    /\ incidents' = [incidents EXCEPT ![i] =
                        [NoIncident EXCEPT !.status = "OPEN", !.severity = severity, !.service = "reliability",
                                           !.freeze = IF severity \in Material THEN "active" ELSE "none"]]
    /\ UNCHANGED sli

contain(i) == Move(i, "CONTAINED")

begin_reconciliation(i) == Move(i, "RECONCILING")

record_corrective_action(i) ==
    /\ incidents[i].status = "RECONCILING"
    /\ incidents' = [incidents EXCEPT ![i].corrective = TRUE]
    /\ UNCHANGED sli

\* Corrective actions of before a reopening still count.
resolve(i) ==
    /\ incidents[i].corrective
    /\ Move(i, "RESOLVED")

close(i, postmortem) ==
    /\ incidents[i].severity \in Material => postmortem
    /\ Move(i, "CLOSED")

\* The freeze row is not written again.
reopen(i) ==
    /\ incidents[i].status = "RESOLVED"
    /\ Move(i, "OPEN")

\* GovernanceService.declare_incident: any status, no freeze.
governance_declare_incident(i, severity, status) ==
    /\ incidents[i].status = "NONE"
    /\ incidents' = [incidents EXCEPT ![i] = [NoIncident EXCEPT !.status = status, !.severity = severity,
                                                                !.service = "governance"]]
    /\ UNCHANGED sli

\* GovernanceService.advance_incident: the table alone decides.
advance_incident(i, to, postmortem) ==
    /\ incidents[i].status # "NONE"
    /\ to = "CLOSED" /\ incidents[i].severity \in Material => postmortem
    /\ Move(i, to)

lift_incident_freeze_Early(i) ==   \* variant: before the incident is resolved
    /\ incidents[i].status \in IncidentStatus /\ incidents[i].freeze = "active"
    /\ incidents' = [incidents EXCEPT ![i].freeze = "lifted"]
    /\ UNCHANGED sli

lift_incident_freeze(i) ==
    /\ incidents[i].status \in {"RESOLVED", "CLOSED"}
    /\ incidents[i].freeze = "active"
    /\ incidents' = [incidents EXCEPT ![i].freeze = "lifted"]
    /\ UNCHANGED sli

-------------------------------------------------------------------------------
(* Service level indicators *)

define_sli ==
    /\ ~sli.defined
    /\ sli' = [sli EXCEPT !.defined = TRUE]
    /\ UNCHANGED incidents

\* A sample may arrive after its window was evaluated.
record_sample(t, quality) ==
    /\ sli.defined /\ sli.samples[t] = "none"
    /\ sli' = [sli EXCEPT !.samples[t] = quality]
    /\ UNCHANGED incidents

InWindow(end) == {t \in Times : t > end - WindowLength /\ t <= end /\ sli.samples[t] # "none"}

WindowStatus(end) ==
    LET total == Cardinality(InWindow(end))
        good == Cardinality({t \in InWindow(end) : sli.samples[t] = "good"})
    IN  IF (good * 10000) \div total >= Target THEN "COMPLIANT" ELSE "BREACHED"

\* Breached windows evaluated after the last lifted freeze.
RecentBreaches(s) == {t \in Times \ s.remediated : s.windows[t] = "BREACHED"}

evaluate_sli(end) ==
    /\ sli.defined /\ InWindow(end) # {} /\ sli.windows[end] = "NONE"
    /\ LET evaluated == [sli EXCEPT !.windows[end] = WindowStatus(end)]
       IN  sli' = [evaluated EXCEPT !.frozen = \/ @
                                               \/ /\ evaluated.windows[end] = "BREACHED"
                                                  /\ Cardinality(RecentBreaches(evaluated)) >= BreachThreshold]
    /\ UNCHANGED incidents

lift_sli_freeze ==
    /\ sli.frozen
    /\ sli' = [sli EXCEPT !.frozen = FALSE, !.remediated = {t \in Times : sli.windows[t] # "NONE"}]
    /\ UNCHANGED incidents

-------------------------------------------------------------------------------
(* promotion_blockers, and the trigger that refuses a promoting row while there *)
(* is one.                                                                      *)
promotion_blockers ==
    {i \in Incidents : incidents[i].freeze = "active"} \cup (IF sli.frozen THEN {"sli"} ELSE {})

Frozen == promotion_blockers # {}

ReliabilityNext ==
    \/ \E i \in Incidents :
        \/ \E severity \in {"SEV1", "SEV3"} :
            \/ declare_incident(i, severity)
            \/ \E status \in Declared : governance_declare_incident(i, severity, status)
        \/ contain(i) \/ begin_reconciliation(i) \/ record_corrective_action(i) \/ resolve(i)
        \/ reopen(i) \/ lift_incident_freeze(i)
        \/ \E postmortem \in BOOLEAN :
            \/ close(i, postmortem)
            \/ \E to \in IncidentStatus : advance_incident(i, to, postmortem)
    \/ define_sli \/ lift_sli_freeze
    \/ \E t \in Times : evaluate_sli(t) \/ \E quality \in {"good", "bad"} : record_sample(t, quality)

-------------------------------------------------------------------------------
(* What the freezes promise (docs/service_reliability.md), stated of the        *)
(* incidents and windows themselves: nothing material is unresolved and no      *)
(* indicator is in breach.  Two kinds of incident stay outside the promise in   *)
(* this code: those declared through GovernanceService, which writes no freeze, *)
(* and those reopened after their freeze was lifted.                            *)
NothingMaterialOpen ==
    /\ \A i \in Incidents :
        incidents[i].severity \in Material /\ incidents[i].status \in Unresolved
            => incidents[i].service = "governance" \/ incidents[i].reopened
    /\ Cardinality(RecentBreaches(sli)) < BreachThreshold
===============================================================================

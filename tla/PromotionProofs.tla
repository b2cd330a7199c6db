---------------------------- MODULE PromotionProofs ----------------------------
(***************************************************************************)
(* What holds of promotion for any number of incidents, proposals,         *)
(* strategies, snapshots and models: whoever promotes has earned it, the   *)
(* evidence is independent, and nothing is promoted while a material       *)
(* incident is open.  Each service keeps its own part of the invariant,    *)
(* with one section here.                                                  *)
(***************************************************************************)
EXTENDS Promotion, FiniteSums, SequenceTheorems

IncidentRow == [status: IncidentStatus \cup {"NONE"}, severity: {"SEV0", "SEV1", "SEV3"},
                corrective: BOOLEAN, freeze: {"none", "active", "lifted"},
                reopened: BOOLEAN, service: {"none", "reliability", "governance"}]

\* A material incident has its freeze, lifted only once resolved, or is one of the
\* two kinds the code does not freeze.
Covered(row) ==
    row.severity \in Material /\ row.service # "governance"
        => /\ row.freeze \in {"active", "lifted"}
           /\ row.status \in Unresolved => row.reopened \/ row.freeze = "active"

\* The freeze of a material incident stands until the incident is resolved.
FreezesStand == \A i \in Incidents : Covered(incidents[i])

\* As many breached windows as the threshold freeze promotion, and stay
\* counted until the freeze is lifted.
BreachesFreeze == Cardinality(RecentBreaches(sli)) >= BreachThreshold => sli.frozen

ReliabilityInv == ReliabilityTypeOK /\ FreezesStand /\ BreachesFreeze

-------------------------------------------------------------------------------
(* Reliability. *)

\* Nothing is declared and no window is evaluated at the start.
LEMMA ReliabilityStarts == ReliabilityInit => ReliabilityInv
<1> SUFFICES ASSUME ReliabilityInit PROVE ReliabilityInv
  OBVIOUS
<1>1. ReliabilityTypeOK
  BY DEF ReliabilityInit, ReliabilityTypeOK, NoIncident
<1>2. FreezesStand
  BY DEF ReliabilityInit, FreezesStand, Covered, NoIncident, Material
<1>3. RecentBreaches(sli) = {}
  BY DEF ReliabilityInit, RecentBreaches
<1>4. BreachesFreeze
  BY <1>3, FS_EmptySet, ReliabilityAssumption DEF BreachesFreeze, ReliabilityAssumption
<1> QED
  BY <1>1, <1>2, <1>4 DEF ReliabilityInv

\* A declaration, a transition, a corrective action or a lifted freeze writes one
\* incident; none leaves a material one open without its freeze.
LEMMA IncidentSteps ==
    ASSUME ReliabilityInv, NEW i \in Incidents, NEW row, UNCHANGED sli,
           row \in IncidentRow, Covered(row),
           incidents' = [incidents EXCEPT ![i] = row]
    PROVE  ReliabilityInv'
<1>1. ReliabilityTypeOK'
  BY DEF ReliabilityInv, ReliabilityTypeOK, IncidentRow
<1>2. \A x \in Incidents : incidents'[x] = IF x = i THEN row ELSE incidents[x]
  BY DEF ReliabilityInv, ReliabilityTypeOK
<1>3. FreezesStand'
  BY <1>2 DEF ReliabilityInv, FreezesStand
<1>4. BreachesFreeze'
  BY DEF ReliabilityInv, BreachesFreeze, RecentBreaches
<1> QED
  BY <1>1, <1>3, <1>4 DEF ReliabilityInv

\* transition_incident: an incident becomes unresolved again only by reopening.
LEMMA MoveSteps ==
    ASSUME ReliabilityInv, NEW i \in Incidents, NEW to, Move(i, to)
    PROVE  ReliabilityInv'
<1>1. PICK old : old = incidents[i]
  OBVIOUS
<1>2. PICK row : row = [old EXCEPT !.status = to, !.reopened = @ \/ (to = "OPEN" /\ old.freeze = "lifted")]
  OBVIOUS
<1>3. old \in IncidentRow
  BY <1>1 DEF ReliabilityInv, ReliabilityTypeOK, IncidentRow
<1>4. incidents' = [incidents EXCEPT ![i] = row] /\ UNCHANGED sli /\ CanMove(old.status, to)
  BY <1>1, <1>2, <1>3 DEF Move, ReliabilityInv, ReliabilityTypeOK, IncidentRow
<1>5. /\ to \in IncidentStatus
      /\ to \in Unresolved /\ to # "OPEN" => old.status \in Unresolved
  BY <1>4 DEF CanMove, IncidentStatus, Unresolved
<1>6. /\ row.status = to /\ row.severity = old.severity /\ row.freeze = old.freeze
      /\ row.service = old.service /\ (row.reopened <=> old.reopened \/ (to = "OPEN" /\ old.freeze = "lifted"))
  BY <1>2, <1>3 DEF IncidentRow
<1>7. row \in IncidentRow
  BY <1>2, <1>3, <1>5 DEF IncidentRow
<1>8. Covered(row)
  <2>1. Covered(old)
    BY <1>1 DEF ReliabilityInv, FreezesStand
  <2> QED
    BY <1>5, <1>6, <2>1 DEF Covered
<1> QED
  BY <1>4, <1>7, <1>8, IncidentSteps

\* ReliabilityService's own operations on one incident.
LEMMA ServiceSteps ==
    ASSUME ReliabilityInv, NEW i \in Incidents,
           \/ \E severity \in {"SEV1", "SEV3"} : declare_incident(i, severity)
           \/ \E severity \in {"SEV1", "SEV3"}, status \in Declared :
                  governance_declare_incident(i, severity, status)
           \/ record_corrective_action(i) \/ lift_incident_freeze(i)
    PROVE  ReliabilityInv'
<1>1. PICK old : old = incidents[i]
  OBVIOUS
<1>2. old \in IncidentRow /\ Covered(old)
  BY <1>1 DEF ReliabilityInv, ReliabilityTypeOK, IncidentRow, FreezesStand
<1>3. ASSUME NEW severity \in {"SEV1", "SEV3"}, declare_incident(i, severity)
      PROVE  ReliabilityInv'
  <2>1. PICK row : row = [NoIncident EXCEPT !.status = "OPEN", !.severity = severity, !.service = "reliability",
                                            !.freeze = IF severity \in Material THEN "active" ELSE "none"]
    OBVIOUS
  <2>2. row \in IncidentRow /\ Covered(row)
    BY <2>1 DEF IncidentRow, NoIncident, Covered, IncidentStatus, Unresolved, Material
  <2>3. incidents' = [incidents EXCEPT ![i] = row] /\ UNCHANGED sli
    BY <1>3, <2>1 DEF declare_incident
  <2> QED
    BY <2>2, <2>3, IncidentSteps
<1>4. ASSUME NEW severity \in {"SEV1", "SEV3"}, NEW status \in Declared,
             governance_declare_incident(i, severity, status)
      PROVE  ReliabilityInv'
  <2>1. PICK row : row = [NoIncident EXCEPT !.status = status, !.severity = severity, !.service = "governance"]
    OBVIOUS
  <2>2. status \in IncidentStatus
    BY ReliabilityAssumption DEF ReliabilityAssumption, IncidentStatus, Unresolved
  <2>3. row \in IncidentRow /\ Covered(row)
    BY <2>1, <2>2 DEF IncidentRow, NoIncident, Covered
  <2>4. incidents' = [incidents EXCEPT ![i] = row] /\ UNCHANGED sli
    BY <1>4, <2>1 DEF governance_declare_incident
  <2> QED
    BY <2>3, <2>4, IncidentSteps
<1>5. ASSUME record_corrective_action(i) PROVE ReliabilityInv'
  <2>1. PICK row : row = [old EXCEPT !.corrective = TRUE]
    OBVIOUS
  <2>2. row \in IncidentRow
    BY <1>2, <2>1 DEF IncidentRow
  <2>3. /\ row.severity = old.severity /\ row.status = old.status /\ row.service = old.service
        /\ row.reopened = old.reopened /\ row.freeze = old.freeze
    BY <1>2, <2>1 DEF IncidentRow
  <2>4. Covered(row)
    BY <1>2, <2>3 DEF Covered
  <2>5. incidents' = [incidents EXCEPT ![i] = row] /\ UNCHANGED sli
    BY <1>1, <1>5, <2>1 DEF record_corrective_action
  <2> QED
    BY <2>2, <2>4, <2>5, IncidentSteps
<1>6. ASSUME lift_incident_freeze(i) PROVE ReliabilityInv'
  <2>1. PICK row : row = [old EXCEPT !.freeze = "lifted"]
    OBVIOUS
  <2>2. row \in IncidentRow /\ row.status = old.status
    BY <1>2, <2>1 DEF IncidentRow
  <2>3. Covered(row)
    <3>1. /\ row.severity = old.severity /\ row.service = old.service /\ row.freeze = "lifted"
          /\ old.status \notin Unresolved
      BY <1>1, <1>2, <1>6, <2>1 DEF IncidentRow, lift_incident_freeze, Unresolved
    <3> QED
      BY <1>2, <2>2, <3>1 DEF Covered
  <2>4. incidents' = [incidents EXCEPT ![i] = row] /\ UNCHANGED sli
    BY <1>1, <1>6, <2>1 DEF lift_incident_freeze
  <2> QED
    BY <2>2, <2>3, <2>4, IncidentSteps
<1> QED
  BY <1>3, <1>4, <1>5, <1>6

\* Indicators: a window that reaches the threshold freezes; only lifting the
\* freeze takes windows out of the count, and it takes out all of them.
LEMMA IndicatorSteps ==
    ASSUME ReliabilityInv,
           \/ define_sli \/ lift_sli_freeze
           \/ \E t \in Times : evaluate_sli(t) \/ \E quality \in {"good", "bad"} : record_sample(t, quality)
    PROVE  ReliabilityInv'
<1> DEFINE Indicator == [defined: BOOLEAN, samples: [Times -> {"none", "good", "bad"}],
                         windows: [Times -> {"NONE", "COMPLIANT", "BREACHED"}],
                         remediated: SUBSET Times, frozen: BOOLEAN]
<1>1. sli \in Indicator /\ incidents' = incidents
  BY DEF ReliabilityInv, ReliabilityTypeOK, define_sli, lift_sli_freeze, evaluate_sli, record_sample
<1>2. /\ Times \subseteq Nat /\ IsFiniteSet(Times) /\ BreachThreshold \in Nat \ {0}
  BY ReliabilityAssumption DEF ReliabilityAssumption
<1>3. BreachesFreeze
  BY DEF ReliabilityInv
<1>4. SUFFICES sli' \in Indicator /\ BreachesFreeze'
  <2>1. ReliabilityTypeOK' <=> sli' \in Indicator
    BY <1>1 DEF ReliabilityInv, ReliabilityTypeOK
  <2>2. FreezesStand'
    BY <1>1 DEF ReliabilityInv, FreezesStand
  <2> QED
    BY <1>4, <2>1, <2>2 DEF ReliabilityInv
<1>5. CASE define_sli
  <2>1. sli' = [sli EXCEPT !.defined = TRUE]
    BY <1>5 DEF define_sli
  <2>2. sli' \in Indicator /\ sli'.windows = sli.windows /\ sli'.remediated = sli.remediated /\ sli'.frozen = sli.frozen
    BY <1>1, <2>1
  <2> QED
    BY <1>3, <2>2 DEF BreachesFreeze, RecentBreaches
<1>6. ASSUME NEW t \in Times, NEW quality \in {"good", "bad"}, record_sample(t, quality)
      PROVE  sli' \in Indicator /\ BreachesFreeze'
  <2>1. sli' = [sli EXCEPT !.samples[t] = quality]
    BY <1>6 DEF record_sample
  <2>2. sli' \in Indicator /\ sli'.windows = sli.windows /\ sli'.remediated = sli.remediated /\ sli'.frozen = sli.frozen
    BY <1>1, <2>1
  <2> QED
    BY <1>3, <2>2 DEF BreachesFreeze, RecentBreaches
<1>7. CASE lift_sli_freeze
  <2>1. sli' = [sli EXCEPT !.frozen = FALSE, !.remediated = {t \in Times : sli.windows[t] # "NONE"}]
    BY <1>7 DEF lift_sli_freeze
  <2>2. /\ sli' \in Indicator /\ sli'.windows = sli.windows
        /\ sli'.remediated = {t \in Times : sli.windows[t] # "NONE"}
    BY <1>1, <2>1
  <2>3. RecentBreaches(sli)' = {}
    BY <2>2 DEF RecentBreaches
  <2>4. BreachesFreeze'
    BY <1>2, <2>3, FS_EmptySet DEF BreachesFreeze
  <2> QED
    BY <2>2, <2>4
<1>8. ASSUME NEW t \in Times, evaluate_sli(t)
      PROVE  sli' \in Indicator /\ BreachesFreeze'
  <2>1. PICK status : status = WindowStatus(t)
    OBVIOUS
  <2>2. PICK evaluated : evaluated = [sli EXCEPT !.windows[t] = status]
    OBVIOUS
  <2>3. PICK reached : reached = (/\ evaluated.windows[t] = "BREACHED"
                                  /\ Cardinality(RecentBreaches(evaluated)) >= BreachThreshold)
    OBVIOUS
  <2>4. sli.windows[t] = "NONE" /\ sli' = [evaluated EXCEPT !.frozen = @ \/ reached]
    BY <1>8, <2>1, <2>2, <2>3, Zenon DEF evaluate_sli
  <2>5. status \in {"COMPLIANT", "BREACHED"}
    BY <2>1 DEF WindowStatus
  <2>6. /\ evaluated \in Indicator /\ evaluated.frozen = sli.frozen /\ evaluated.remediated = sli.remediated
        /\ evaluated.windows = [sli.windows EXCEPT ![t] = status]
    BY <1>1, <2>2, <2>5
  <2>7. /\ sli' \in Indicator /\ (sli'.frozen <=> sli.frozen \/ reached)
        /\ sli'.windows = evaluated.windows /\ sli'.remediated = evaluated.remediated
    <3>1. evaluated.frozen \in BOOLEAN /\ reached \in BOOLEAN
      BY <2>3, <2>6
    <3> QED
      BY <2>4, <2>6, <3>1
  <2>8. RecentBreaches(sli)' = RecentBreaches(evaluated)
    BY <2>7 DEF RecentBreaches
  <2>9. CASE status = "BREACHED"
    <3>1. evaluated.windows[t] = "BREACHED"
      BY <1>1, <2>6, <2>9
    <3> QED
      BY <2>3, <2>7, <2>8, <3>1 DEF BreachesFreeze
  <2>10. CASE status = "COMPLIANT"
    <3>1. \A x \in Times : evaluated.windows[x] = IF x = t THEN "COMPLIANT" ELSE sli.windows[x]
      BY <1>1, <2>6, <2>10
    <3>2. RecentBreaches(evaluated) = RecentBreaches(sli)
      BY <2>4, <2>6, <3>1 DEF RecentBreaches
    <3> QED
      BY <1>3, <2>7, <2>8, <3>2 DEF BreachesFreeze
  <2> QED
    BY <2>5, <2>9, <2>10
<1> QED
  BY <1>5, <1>6, <1>7, <1>8

\* Every operation on incidents and indicators keeps the freezes.
LEMMA ReliabilitySteps == ReliabilityInv /\ ReliabilityNext => ReliabilityInv'
<1> SUFFICES ASSUME ReliabilityInv, ReliabilityNext PROVE ReliabilityInv'
  OBVIOUS
<1>1. ASSUME NEW i \in Incidents,
             \/ \E severity \in {"SEV1", "SEV3"} :
                    \/ declare_incident(i, severity)
                    \/ \E status \in Declared : governance_declare_incident(i, severity, status)
             \/ record_corrective_action(i) \/ lift_incident_freeze(i)
      PROVE  ReliabilityInv'
  BY <1>1, ServiceSteps
<1>2. ASSUME NEW i \in Incidents,
             \/ contain(i) \/ begin_reconciliation(i) \/ resolve(i) \/ reopen(i)
             \/ \E postmortem \in BOOLEAN :
                    \/ close(i, postmortem)
                    \/ \E to \in IncidentStatus : advance_incident(i, to, postmortem)
      PROVE  ReliabilityInv'
  <2>1. \E to : Move(i, to)
    BY <1>2 DEF contain, begin_reconciliation, resolve, reopen, close, advance_incident
  <2> QED
    BY <2>1, MoveSteps
<1> QED
  BY <1>1, <1>2, IndicatorSteps DEF ReliabilityNext

\* What is unfrozen has nothing material open.
LEMMA UnfrozenIsClear ==
    ASSUME ReliabilityInv, ~Frozen
    PROVE  NothingMaterialOpen
<1>1. (\A i \in Incidents : incidents[i].freeze # "active") /\ ~sli.frozen
  BY DEF Frozen, promotion_blockers
<1>2. \A i \in Incidents : incidents[i].severity \in Material /\ incidents[i].status \in Unresolved
                               => incidents[i].service = "governance" \/ incidents[i].reopened
  BY <1>1 DEF ReliabilityInv, FreezesStand, Covered
<1>3. Cardinality(RecentBreaches(sli)) < BreachThreshold
  <2>1. RecentBreaches(sli) \subseteq Times
    BY DEF RecentBreaches
  <2>2. Cardinality(RecentBreaches(sli)) \in Nat
    BY <2>1, ReliabilityAssumption, FS_Subset, FS_CardinalityType DEF ReliabilityAssumption
  <2> QED
    BY <1>1, <2>2, ReliabilityAssumption DEF ReliabilityInv, BreachesFreeze, ReliabilityAssumption
<1> QED
  BY <1>2, <1>3 DEF NothingMaterialOpen

-------------------------------------------------------------------------------
(* Governance. *)

Delivery == [at: Day, lifecycle: Lifecycle, since: Day]

ProposalRow ==
    [status: ProposalStatus \cup {"NONE"}, declared: Class, realMoney: BOOLEAN,
     snapshot: [policy: Versions \cup {0}, known: SUBSET Incidents],
     class: Class \cup {"none"}, classVersion: Versions \cup {0}, reviews: ReviewRecord,
     synthesis: {"none", "own", "separate", "disclosed"}, lifecycle: Lifecycle, failedAt: Day,
     queued: BOOLEAN, received: Day, overtaken: BOOLEAN,
     delivery: Delivery, told: BOOLEAN, decision: {"none", "APPROVE", "VETO"}]

\* The order of the dates on a proposal: nothing lies in the future, a notice is
\* received after the evidence it is about, an owner is told after the checks
\* ran, and evidence that was delivered and stands again postdates no failure.
Dated(row) ==
    /\ row.failedAt <= now /\ row.lifecycle.at <= now /\ row.received <= now /\ row.delivery.at <= now
    /\ row.received # 0 => /\ row.failedAt <= row.received /\ row.lifecycle.at <= row.received
                           /\ row.delivery.at <= row.received
    /\ row.delivery.since <= row.delivery.at /\ row.delivery.lifecycle.at <= row.delivery.at
    /\ row.delivery # NoDelivery /\ row.delivery.lifecycle = row.lifecycle /\ ~row.lifecycle.fail
           => row.failedAt <= row.delivery.at

\* Adversarial audits are reviews.
Audited(row) == row.reviews.adversarial <= row.reviews.n

Stands(row) == row.status = "PROMOTED" /\ row.class # "none" => Earned(row)

OneEffective == \A v, w \in EffectiveVersions : v = w

GovernanceInv ==
    /\ GovernanceTypeOK /\ OneEffective
    /\ \A p \in Proposals : Dated(proposals[p]) /\ Audited(proposals[p]) /\ Stands(proposals[p])

\* What an operation finds.
LEMMA ProposalFound ==
    ASSUME GovernanceInv, NEW p \in Proposals
    PROVE  /\ proposals[p] \in ProposalRow /\ Dated(proposals[p]) /\ Audited(proposals[p])
           /\ Stands(proposals[p])
           /\ now \in 1..MaxDay /\ MaxDay \in Nat
BY GovernanceAssumption DEF GovernanceInv, GovernanceTypeOK, ProposalRow, Delivery, GovernanceAssumption

\* Every operation on a proposal writes one row; it is enough that this row keeps
\* its dates in order and is not PROMOTED unless it is earned.
LEMMA RowWritten ==
    ASSUME GovernanceInv, NEW p \in Proposals, NEW row \in ProposalRow,
           Dated(row), Audited(row), Stands(row),
           proposals' = [proposals EXCEPT ![p] = row], UNCHANGED <<policies, now>>
    PROVE  GovernanceInv'
<1>1. \A x \in Proposals : proposals'[x] = IF x = p THEN row ELSE proposals[x]
  BY DEF GovernanceInv, GovernanceTypeOK
<1>2. GovernanceTypeOK'
  <2>1. proposals' \in [Proposals -> ProposalRow]
    BY DEF GovernanceInv, GovernanceTypeOK, ProposalRow, Delivery
  <2> QED
    BY <2>1 DEF GovernanceInv, GovernanceTypeOK, ProposalRow, Delivery
<1>3. OneEffective'
  BY DEF GovernanceInv, OneEffective, EffectiveVersions
<1>4. ASSUME NEW x \in Proposals
      PROVE  Dated(proposals'[x]) /\ Audited(proposals'[x]) /\ Stands(proposals'[x])
  BY <1>1 DEF GovernanceInv
<1>5. \A x \in Proposals : Dated(proposals[x])' /\ Audited(proposals[x])' /\ Stands(proposals[x])'
  BY <1>4 DEF Dated, Audited, Stands, Earned
<1> QED
  BY <1>2, <1>3, <1>5 DEF GovernanceInv

\* Promotion rests on these fields alone.
LEMMA StandsOn ==
    ASSUME NEW old, NEW row, Stands(old),
           /\ row.status = old.status /\ row.class = old.class /\ row.reviews = old.reviews
           /\ row.synthesis = old.synthesis /\ row.lifecycle = old.lifecycle
           /\ row.realMoney = old.realMoney /\ row.decision = old.decision
           /\ row.failedAt = old.failedAt /\ row.delivery = old.delivery
    PROVE  Stands(row)
<1>1. _requirements_met(row) <=> _requirements_met(old)
  BY DEF _requirements_met, ChecksPass
<1> QED
  BY <1>1 DEF Stands, Earned

\* The effective policy is a version.
LEMMA EffectiveIsVersion ==
    /\ Effective \in Versions \cup {0}
    /\ Effective # 0 => Effective \in Versions
<1>1. CASE EffectiveVersions = {}
  BY <1>1 DEF Effective
<1>2. CASE EffectiveVersions # {}
  <2>1. Effective \in EffectiveVersions
    BY <1>2 DEF Effective
  <2> QED
    BY <2>1 DEF EffectiveVersions
<1> QED
  BY <1>1, <1>2

\* The dates of a proposal are in these fields alone.
LEMMA DatedOn ==
    ASSUME NEW old, NEW row, Dated(old),
           /\ row.failedAt = old.failedAt /\ row.lifecycle = old.lifecycle
           /\ row.received = old.received /\ row.delivery = old.delivery
    PROVE  Dated(row)
BY DEF Dated

\* A new proposal pins some snapshot and is not classified.
LEMMA ProposeSteps ==
    ASSUME GovernanceInv, NEW p \in Proposals, NEW draft \in Drafts, NEW policy \in Versions \cup {0},
           NEW known \in SUBSET Relevant, propose(p, draft, [policy |-> policy, known |-> known])
    PROVE  GovernanceInv'
<1>1. PICK pinned : pinned = [policy |-> policy, known |-> known]
  OBVIOUS
<1>2. PICK row : row = [NoProposal EXCEPT !.status = draft.status, !.declared = draft.class,
                                          !.realMoney = draft.realMoney, !.snapshot = pinned]
  OBVIOUS
<1>3. pinned \in [policy: Versions \cup {0}, known: SUBSET Incidents]
  BY <1>1, GovernanceAssumption DEF GovernanceAssumption
<1>4. draft \in [class: Class, realMoney: BOOLEAN, status: ProposalStatus] /\ MaxReviews \in Nat
  BY GovernanceAssumption DEF GovernanceAssumption
<1>5. now \in 1..MaxDay /\ MaxDay \in Nat
  BY ProposalFound
<1>6. NoLifecycle \in Lifecycle /\ NoDelivery \in Delivery /\ NoReviews \in ReviewRecord
  BY <1>4, <1>5 DEF NoLifecycle, Lifecycle, NoDelivery, Delivery, NoReviews, ReviewRecord, Day
<1>7. row \in ProposalRow
  <2>1. 0 \in Day /\ "GREEN" \in Class /\ {} \in SUBSET Incidents
    BY <1>5 DEF Day, Class
  <2>2. NoProposal \in ProposalRow
    BY <1>6, <2>1 DEF ProposalRow, NoProposal
  <2> QED
    BY <1>2, <1>3, <1>4, <2>2 DEF ProposalRow
<1>8. /\ row.failedAt = 0 /\ row.lifecycle = NoLifecycle /\ row.received = 0 /\ row.delivery = NoDelivery
      /\ row.reviews = NoReviews /\ row.class = "none"
  BY <1>2 DEF NoProposal
<1>9. Dated(row) /\ Audited(row) /\ Stands(row)
  BY <1>5, <1>8 DEF Dated, Audited, Stands, NoLifecycle, NoDelivery, NoReviews
<1>10. proposals' = [proposals EXCEPT ![p] = row] /\ UNCHANGED <<policies, now>>
  BY <1>1, <1>2 DEF propose
<1> QED
  BY <1>7, <1>9, <1>10, RowWritten

\* Classifying takes PROMOTED away.
LEMMA ClassifySteps ==
    ASSUME GovernanceInv, NEW p \in Proposals, classify(p)
    PROVE  GovernanceInv'
<1>1. PICK old : old = proposals[p]
  OBVIOUS
<1>2. PICK class : class = classify_proposal(old, Effective)
  OBVIOUS
<1>3. PICK row : row = [old EXCEPT !.class = class, !.classVersion = Effective, !.status = "CLASSIFIED"]
  OBVIOUS
<1>4. old \in ProposalRow /\ Dated(old) /\ Audited(old)
  BY <1>1, ProposalFound
<1>5. class \in Class
  <2>1. Floor[Effective] \in Class /\ old.declared \in Class /\ "RED" \in Class
    BY <1>4, EffectiveIsVersion, GovernanceAssumption DEF classify, GovernanceAssumption, ProposalRow, Class
  <2> QED
    BY <1>2, <2>1 DEF classify_proposal, Higher
<1>6. row \in ProposalRow
  BY <1>3, <1>4, <1>5, EffectiveIsVersion DEF ProposalRow, ProposalStatus
<1>7. /\ row.failedAt = old.failedAt /\ row.lifecycle = old.lifecycle
      /\ row.received = old.received /\ row.delivery = old.delivery
      /\ row.reviews = old.reviews /\ row.status = "CLASSIFIED"
  BY <1>3, <1>4 DEF ProposalRow
<1>8. Dated(row) /\ Audited(row) /\ Stands(row)
  BY <1>4, <1>7, DatedOn DEF Audited, Stands
<1>9. proposals' = [proposals EXCEPT ![p] = row] /\ UNCHANGED <<policies, now>>
  BY <1>1, <1>2, <1>3 DEF classify, Update
<1> QED
  BY <1>6, <1>8, <1>9, RowWritten

\* So does a review, and a synthesis.
LEMMA ReviewSteps ==
    ASSUME GovernanceInv, NEW p \in Proposals, NEW kind \in ReviewKinds, record_review(p, kind)
    PROVE  GovernanceInv'
<1>1. PICK old : old = proposals[p]
  OBVIOUS
<1>2. PICK r : r = old.reviews
  OBVIOUS
<1>3. PICK reviews : reviews = [n |-> r.n + 1, adversarial |-> r.adversarial + kind.adversarial,
                                padded |-> r.padded \/ (kind.padded /\ r.n > 0),
                                correlated |-> r.correlated \/ (kind.correlated /\ r.n > 0),
                                objection |-> r.objection \/ kind.objection]
  OBVIOUS
<1>4. PICK row : row = [old EXCEPT !.status = "REVIEWING", !.reviews = reviews]
  OBVIOUS
<1>5. old \in ProposalRow /\ Dated(old) /\ Audited(old)
  BY <1>1, ProposalFound
<1>6. /\ r.n < MaxReviews /\ proposals' = [proposals EXCEPT ![p] = row]
      /\ UNCHANGED <<policies, now>>
  BY <1>1, <1>2, <1>3, <1>4 DEF record_review, Update
<1>7. /\ r \in ReviewRecord /\ r.adversarial <= r.n /\ MaxReviews \in Nat
      /\ kind \in [adversarial: {0, 1}, padded: BOOLEAN, correlated: BOOLEAN, objection: BOOLEAN]
  BY <1>2, <1>5, GovernanceAssumption DEF ProposalRow, Audited, GovernanceAssumption
<1>8. reviews.n = r.n + 1 /\ reviews.adversarial = r.adversarial + kind.adversarial
  BY <1>3
<1>9. reviews.n \in 0..MaxReviews /\ reviews.adversarial \in 0..MaxReviews /\ reviews.adversarial <= reviews.n
  BY <1>6, <1>7, <1>8 DEF ReviewRecord
<1>10. reviews \in ReviewRecord
  BY <1>3, <1>8, <1>9 DEF ReviewRecord
<1>11. row \in ProposalRow
  BY <1>4, <1>5, <1>10 DEF ProposalRow, ProposalStatus
<1>12. /\ row.failedAt = old.failedAt /\ row.lifecycle = old.lifecycle
       /\ row.received = old.received /\ row.delivery = old.delivery
       /\ row.reviews = reviews /\ row.status = "REVIEWING"
  BY <1>4, <1>5 DEF ProposalRow
<1>13. Dated(row) /\ Audited(row) /\ Stands(row)
  BY <1>5, <1>9, <1>12, DatedOn DEF Audited, Stands
<1> QED
  BY <1>6, <1>11, <1>13, RowWritten

\* A synthesis takes PROMOTED away.
LEMMA SynthesisSteps ==
    ASSUME GovernanceInv, NEW p \in Proposals, NEW kind \in Syntheses, record_synthesis(p, kind)
    PROVE  GovernanceInv'
<1>1. PICK old : old = proposals[p]
  OBVIOUS
<1>2. PICK row : row = [old EXCEPT !.synthesis = kind, !.status = "CANARY"]
  OBVIOUS
<1>3. old \in ProposalRow /\ Dated(old) /\ Audited(old)
  BY <1>1, ProposalFound
<1>4. row \in ProposalRow
  <2>1. kind \in {"none", "own", "separate", "disclosed"} /\ "CANARY" \in ProposalStatus
    BY GovernanceAssumption DEF ProposalStatus, GovernanceAssumption
  <2> QED
    BY <1>2, <1>3, <2>1 DEF ProposalRow
<1>5. /\ row.failedAt = old.failedAt /\ row.lifecycle = old.lifecycle
      /\ row.received = old.received /\ row.delivery = old.delivery
      /\ row.reviews = old.reviews /\ row.status = "CANARY"
  BY <1>2, <1>3 DEF ProposalRow
<1>6. Dated(row) /\ Audited(row) /\ Stands(row)
  BY <1>3, <1>5, DatedOn DEF Audited, Stands
<1>7. proposals' = [proposals EXCEPT ![p] = row] /\ UNCHANGED <<policies, now>>
  BY <1>1, <1>2 DEF record_synthesis, Update
<1> QED
  BY <1>4, <1>6, <1>7, RowWritten

\* New evidence takes PROMOTED away and makes every notice void; evidence that was
\* delivered before is taken again only if no failure came after its delivery.
LEMMA LifecycleSteps ==
    ASSUME GovernanceInv, NEW p \in Proposals, NEW phases \in LifecyclePackages, NEW fail \in BOOLEAN,
           NEW at \in 1..now, record_lifecycle(p, [phases |-> phases, fail |-> fail, at |-> at])
    PROVE  GovernanceInv'
<1>1. PICK old : old = proposals[p]
  OBVIOUS
<1>2. PICK lifecycle : lifecycle = [phases |-> phases, fail |-> fail, at |-> at]
  OBVIOUS
<1>3. PICK failedAt : failedAt = IF fail /\ at > old.failedAt THEN at ELSE old.failedAt
  OBVIOUS
<1>4. PICK row : row = [old EXCEPT !.status = LifecycleStatus(lifecycle), !.lifecycle = lifecycle,
                                   !.failedAt = failedAt, !.queued = FALSE, !.received = 0,
                                   !.overtaken = FALSE]
  OBVIOUS
<1>5. old \in ProposalRow /\ Dated(old) /\ Audited(old) /\ now \in 1..MaxDay /\ MaxDay \in Nat
  BY <1>1, ProposalFound
<1>6. lifecycle \in Lifecycle /\ lifecycle.at = at /\ lifecycle.fail = fail
  BY <1>2, <1>5, GovernanceAssumption DEF Lifecycle, Day, GovernanceAssumption
<1>7. Recorded(old, lifecycle) = row
  BY <1>3, <1>4, <1>6 DEF Recorded
<1>8. /\ ~fail => ~_requires_fresh_revalidation(old, lifecycle)
      /\ proposals' = [proposals EXCEPT ![p] = row] /\ UNCHANGED <<policies, now>>
  BY <1>1, <1>2, <1>6, <1>7 DEF record_lifecycle, Update
<1>9. LifecycleStatus(lifecycle) \in {"FROZEN", "CANARY", "SHADOW", "TESTED", "REPLAYED"}
  BY DEF LifecycleStatus
<1>10. /\ old.failedAt \in Day /\ old.received \in Day /\ old.delivery \in Delivery /\ old.lifecycle \in Lifecycle
       /\ old.delivery.at \in Day /\ old.delivery.since \in Day /\ old.delivery.lifecycle.at \in Day
  BY <1>5 DEF ProposalRow, Delivery, Lifecycle
<1>11. failedAt \in Day /\ failedAt <= now
  BY <1>3, <1>5, <1>10 DEF Dated, Day
<1>12. row \in ProposalRow
  <2>1. 0 \in Day /\ LifecycleStatus(lifecycle) \in ProposalStatus
    BY <1>5, <1>9 DEF Day, ProposalStatus
  <2> HIDE DEF LifecycleStatus
  <2> QED
    BY <1>4, <1>5, <1>6, <1>11, <2>1 DEF ProposalRow
<1>13. /\ row.failedAt = failedAt /\ row.lifecycle = lifecycle /\ row.received = 0
       /\ row.delivery = old.delivery /\ row.reviews = old.reviews
       /\ row.status # "PROMOTED"
  BY <1>4, <1>5, <1>9 DEF ProposalRow
<1>14. old.delivery # NoDelivery /\ old.delivery.lifecycle = lifecycle /\ ~fail
           => failedAt <= old.delivery.at
  <2> SUFFICES ASSUME old.delivery # NoDelivery, old.delivery.lifecycle = lifecycle, ~fail
               PROVE  failedAt <= old.delivery.at
    OBVIOUS
  <2>1. failedAt = old.failedAt /\ ~_requires_fresh_revalidation(old, lifecycle)
    BY <1>3, <1>8
  <2>2. ~(old.failedAt >= old.delivery.at) \/ ~(at <= old.failedAt)
    BY <1>6, <2>1 DEF _requires_fresh_revalidation
  <2>3. at <= old.delivery.at
    BY <1>5, <1>6 DEF Dated
  <2> QED
    BY <1>5, <1>10, <2>1, <2>2, <2>3 DEF Day
<1>15. Dated(row)
  BY <1>5, <1>6, <1>11, <1>13, <1>14 DEF Dated
<1>16. Audited(row) /\ Stands(row)
  BY <1>5, <1>13 DEF Audited, Stands
<1> QED
  BY <1>8, <1>12, <1>15, <1>16, RowWritten

\* Notices are queued and received without touching what a promotion rests on.
LEMMA NoticeSteps ==
    ASSUME GovernanceInv, NEW p \in Proposals, queue_owner_notification(p) \/ NoticeReceived(p)
    PROVE  GovernanceInv'
<1>1. PICK old : old = proposals[p]
  OBVIOUS
<1>2. /\ old \in ProposalRow /\ Dated(old) /\ Audited(old) /\ Stands(old)
      /\ now \in 1..MaxDay /\ MaxDay \in Nat
  BY <1>1, ProposalFound
<1>3. CASE queue_owner_notification(p)
  <2>1. PICK row : row = [old EXCEPT !.queued = TRUE, !.overtaken = old.received # 0, !.told = FALSE]
    OBVIOUS
  <2>2. row \in ProposalRow
    BY <1>2, <2>1, ZenonT(60) DEF ProposalRow
  <2>3. /\ row.status = old.status /\ row.class = old.class /\ row.reviews = old.reviews
        /\ row.synthesis = old.synthesis /\ row.lifecycle = old.lifecycle
        /\ row.realMoney = old.realMoney /\ row.decision = old.decision
        /\ row.failedAt = old.failedAt /\ row.delivery = old.delivery /\ row.received = old.received
    BY <1>2, <2>1 DEF ProposalRow
  <2>4. Dated(row) /\ Audited(row) /\ Stands(row)
    BY <1>2, <2>3, DatedOn, StandsOn DEF Audited
  <2>5. proposals' = [proposals EXCEPT ![p] = row] /\ UNCHANGED <<policies, now>>
    BY <1>1, <1>3, <2>1 DEF queue_owner_notification, Update
  <2> QED
    BY <2>2, <2>4, <2>5, RowWritten
<1>4. CASE NoticeReceived(p)
  <2>1. PICK row : row = [old EXCEPT !.received = now]
    OBVIOUS
  <2>2. row \in ProposalRow
    BY <1>2, <2>1 DEF ProposalRow, Day
  <2>3. /\ row.status = old.status /\ row.class = old.class /\ row.reviews = old.reviews
        /\ row.synthesis = old.synthesis /\ row.lifecycle = old.lifecycle
        /\ row.realMoney = old.realMoney /\ row.decision = old.decision
        /\ row.failedAt = old.failedAt /\ row.delivery = old.delivery /\ row.received = now
    BY <1>2, <2>1 DEF ProposalRow
  <2>4. Dated(row)
    BY <1>2, <2>3 DEF Dated
  <2>5. Audited(row) /\ Stands(row)
    BY <1>2, <2>3, StandsOn DEF Audited
  <2>6. proposals' = [proposals EXCEPT ![p] = row] /\ UNCHANGED <<policies, now>>
    BY <1>1, <1>4, <2>1 DEF NoticeReceived
  <2> QED
    BY <2>2, <2>4, <2>5, <2>6, RowWritten
<1> QED
  BY <1>3, <1>4

\* A second delivery of the same evidence moves the date the owner was told, and
\* not the date the owner was first told; no failure lies between.
LEMMA DeliverySteps ==
    ASSUME GovernanceInv, NEW p \in Proposals, record_owner_delivery(p)
    PROVE  GovernanceInv'
<1>1. PICK old : old = proposals[p]
  OBVIOUS
<1>2. /\ old \in ProposalRow /\ Dated(old) /\ Audited(old) /\ Stands(old)
      /\ now \in 1..MaxDay /\ MaxDay \in Nat
  BY <1>1, ProposalFound
<1>3. PICK since : since = IF old.delivery.lifecycle = old.lifecycle THEN old.delivery.since ELSE old.received
  OBVIOUS
<1>4. PICK delivery : delivery = [at |-> old.received, lifecycle |-> old.lifecycle, since |-> since]
  OBVIOUS
<1>5. PICK row : row = [old EXCEPT !.told = TRUE, !.delivery = delivery]
  OBVIOUS
<1>6. /\ old.received # 0
      /\ proposals' = [proposals EXCEPT ![p] = row] /\ UNCHANGED <<policies, now>>
  BY <1>1, <1>2, <1>3, <1>4, <1>5 DEF record_owner_delivery, Update, ProposalRow
<1>7. /\ old.failedAt \in Day /\ old.received \in Day /\ old.lifecycle \in Lifecycle /\ old.lifecycle.at \in Day
      /\ old.delivery.at \in Day /\ old.delivery.since \in Day
  BY <1>2 DEF ProposalRow, Delivery, Lifecycle
<1>8. /\ old.received <= now /\ old.failedAt <= old.received /\ old.lifecycle.at <= old.received
      /\ old.delivery.at <= old.received /\ old.delivery.since <= old.delivery.at
      /\ old.failedAt <= now /\ old.lifecycle.at <= now
  BY <1>2, <1>6 DEF Dated
<1>9. since \in Day /\ since <= old.received
  <2>1. old.delivery.since <= old.received /\ old.received <= old.received
    BY <1>2, <1>7, <1>8 DEF Day
  <2> QED
    BY <1>3, <1>7, <2>1
<1>10. delivery \in Delivery /\ delivery.at = old.received /\ delivery.lifecycle = old.lifecycle /\ delivery.since = since
  BY <1>4, <1>7, <1>9 DEF Delivery
<1>11. row \in ProposalRow
  BY <1>2, <1>5, <1>10 DEF ProposalRow
<1>12. /\ row.status = old.status /\ row.class = old.class /\ row.reviews = old.reviews
       /\ row.synthesis = old.synthesis /\ row.lifecycle = old.lifecycle
       /\ row.realMoney = old.realMoney /\ row.decision = old.decision
       /\ row.failedAt = old.failedAt /\ row.delivery = delivery /\ row.received = old.received
  BY <1>2, <1>5 DEF ProposalRow
<1>13. Dated(row)
  <2>1. old.received <= old.received
    BY <1>2, <1>7 DEF Day
  <2> QED
    BY <1>8, <1>9, <1>10, <1>12, <2>1 DEF Dated
<1>14. Stands(row)
  <2> SUFFICES ASSUME old.status = "PROMOTED", old.class # "none" PROVE Earned(row)
    BY <1>12 DEF Stands
  <2>1. Earned(old)
    BY <1>2 DEF Stands
  <2>2. _requirements_met(row)
    BY <1>12, <2>1 DEF Earned, _requirements_met, ChecksPass
  <2>3. old.class # "RED" => since = old.delivery.since /\ now >= old.delivery.since + 1
    BY <1>3, <2>1 DEF Earned
  <2>4. row.decision # "VETO" /\ ~row.realMoney /\ ~row.reviews.padded
    BY <1>12, <2>1 DEF Earned
  <2>5. \/ row.class = "RED" /\ row.decision = "APPROVE"
        \/ /\ row.class # "RED"
           /\ row.delivery.lifecycle = row.lifecycle
           /\ now >= row.delivery.since + 1
           /\ row.failedAt <= row.delivery.at
    <3>1. CASE old.class = "RED"
      BY <1>12, <2>1, <3>1 DEF Earned
    <3>2. CASE old.class # "RED"
      BY <1>8, <1>10, <1>12, <2>3, <3>2
    <3> QED
      BY <3>1, <3>2
  <2> QED
    BY <2>2, <2>4, <2>5 DEF Earned
<1>15. Audited(row)
  BY <1>2, <1>12 DEF Audited
<1> QED
  BY <1>6, <1>11, <1>13, <1>14, <1>15, RowWritten

\* The owner's one decision: a veto takes PROMOTED away, an approval keeps it.
LEMMA DecideSteps ==
    ASSUME GovernanceInv, NEW p \in Proposals, NEW decision \in {"APPROVE", "VETO"}, decide(p, decision)
    PROVE  GovernanceInv'
<1>1. PICK old : old = proposals[p]
  OBVIOUS
<1>2. old \in ProposalRow /\ Dated(old) /\ Audited(old) /\ Stands(old)
  BY <1>1, ProposalFound
<1>3. PICK status : status = IF decision = "VETO" THEN "VETOED" ELSE old.status
  OBVIOUS
<1>4. PICK row : row = [old EXCEPT !.decision = decision, !.status = status]
  OBVIOUS
<1>5. /\ old.decision = "none"
      /\ proposals' = [proposals EXCEPT ![p] = row] /\ UNCHANGED <<policies, now>>
  BY <1>1, <1>2, <1>3, <1>4 DEF decide, Update, ProposalRow
<1>6. row \in ProposalRow
  <2>1. status \in ProposalStatus \cup {"NONE"}
    BY <1>2, <1>3 DEF ProposalRow, ProposalStatus
  <2> QED
    BY <1>2, <1>4, <2>1 DEF ProposalRow
<1>7. /\ row.status = status /\ row.class = old.class /\ row.reviews = old.reviews
      /\ row.synthesis = old.synthesis /\ row.lifecycle = old.lifecycle
      /\ row.realMoney = old.realMoney /\ row.decision = decision
      /\ row.failedAt = old.failedAt /\ row.delivery = old.delivery /\ row.received = old.received
  BY <1>2, <1>4 DEF ProposalRow
<1>8. Stands(row)
  <2> SUFFICES ASSUME status = "PROMOTED", old.class # "none" PROVE Earned(row)
    BY <1>7 DEF Stands
  <2>1. decision = "APPROVE" /\ old.status = "PROMOTED"
    BY <1>3
  <2>2. Earned(old) /\ old.class # "RED"
    BY <1>2, <1>5, <2>1 DEF Stands, Earned
  <2>3. _requirements_met(row)
    BY <1>7, <2>2 DEF Earned, _requirements_met, ChecksPass
  <2> QED
    BY <1>7, <2>1, <2>2, <2>3 DEF Earned
<1>9. Dated(row) /\ Audited(row)
  BY <1>2, <1>7, DatedOn DEF Audited
<1> QED
  BY <1>5, <1>6, <1>8, <1>9, RowWritten

\* evaluate promotes what is earned: the owner was told of this evidence a day
\* ago, or approved, and no check has failed since.
LEMMA EvaluateSteps ==
    ASSUME GovernanceInv, NEW p \in Proposals, NEW changeSet \in ChangeSets, evaluate(p, changeSet)
    PROVE  GovernanceInv'
<1>1. PICK old : old = proposals[p]
  OBVIOUS
<1>2. /\ old \in ProposalRow /\ Dated(old) /\ Audited(old) /\ Stands(old)
      /\ now \in 1..MaxDay /\ MaxDay \in Nat
  BY <1>1, ProposalFound
<1>3. PICK status : status = evaluate_promotion(old, changeSet)
  OBVIOUS
<1>4. PICK row : row = [old EXCEPT !.status = status]
  OBVIOUS
<1>5. proposals' = [proposals EXCEPT ![p] = row] /\ UNCHANGED <<policies, now>>
  BY <1>1, <1>3, <1>4 DEF evaluate, Update
<1>6. status \in ProposalStatus
  BY <1>3 DEF evaluate_promotion, ProposalStatus
<1>7. row \in ProposalRow
  BY <1>2, <1>4, <1>6 DEF ProposalRow
<1>8. /\ row.status = status /\ row.class = old.class /\ row.reviews = old.reviews
      /\ row.synthesis = old.synthesis /\ row.lifecycle = old.lifecycle
      /\ row.realMoney = old.realMoney /\ row.decision = old.decision
      /\ row.failedAt = old.failedAt /\ row.delivery = old.delivery /\ row.received = old.received
  BY <1>2, <1>4 DEF ProposalRow
<1>9. Stands(row)
  <2> SUFFICES ASSUME status = "PROMOTED" PROVE Earned(row)
    BY <1>8 DEF Stands
  <2>1. /\ old.decision # "VETO" /\ ~old.realMoney /\ ~old.reviews.padded /\ _requirements_met(old)
        /\ IF old.class = "RED" THEN old.decision = "APPROVE" ELSE OwnerHadHisDay(old)
    BY <1>3 DEF evaluate_promotion
  <2>2. _requirements_met(row) /\ ~old.lifecycle.fail
    BY <1>8, <2>1 DEF _requirements_met, ChecksPass
  <2>3. ASSUME old.class # "RED"
        PROVE  /\ old.delivery.lifecycle = old.lifecycle
               /\ now >= old.delivery.since + 1
               /\ old.failedAt <= old.delivery.at
    <3>1. /\ old.delivery # NoDelivery /\ old.delivery.lifecycle = old.lifecycle
          /\ now >= old.delivery.at + 1
      BY <2>1, <2>3 DEF OwnerHadHisDay
    <3>2. old.failedAt <= old.delivery.at /\ old.delivery.since <= old.delivery.at
      BY <1>2, <2>2, <3>1 DEF Dated
    <3>3. old.delivery.since \in Day /\ old.delivery.at \in Day
      BY <1>2 DEF ProposalRow, Delivery
    <3> QED
      BY <1>2, <3>1, <3>2, <3>3 DEF Day
  <2> QED
    BY <1>8, <2>1, <2>2, <2>3 DEF Earned
<1>10. Dated(row) /\ Audited(row)
  BY <1>2, <1>8, DatedOn DEF Audited
<1> QED
  BY <1>5, <1>7, <1>9, <1>10, RowWritten

\* Policies: the first effective version needs that there is none, every later one
\* retires the one before.
LEMMA PolicySteps ==
    ASSUME GovernanceInv, NEW v \in Versions,
           \/ \E effective \in BOOLEAN : register_policy(v, effective)
           \/ \E p \in Proposals : activate_policy(v, p)
           \/ rollback_policy(v)
    PROVE  GovernanceInv'
<1>1. proposals' = proposals /\ now' = now
  BY DEF register_policy, activate_policy, rollback_policy
<1>2. policies \in [Versions -> {"NONE", "DRAFT", "EFFECTIVE", "RETIRED"}] /\ OneEffective
  BY DEF GovernanceInv, GovernanceTypeOK
<1>3. ASSUME NEW effective \in BOOLEAN, register_policy(v, effective)
      PROVE  policies' \in [Versions -> {"NONE", "DRAFT", "EFFECTIVE", "RETIRED"}] /\ OneEffective'
  <2>1. /\ policies' = [policies EXCEPT ![v] = IF effective THEN "EFFECTIVE" ELSE "DRAFT"]
        /\ effective => EffectiveVersions = {}
    BY <1>3 DEF register_policy
  <2>2. CASE effective
    <3>1. EffectiveVersions' = {v}
      BY <1>2, <2>1, <2>2 DEF EffectiveVersions
    <3> QED
      BY <1>2, <2>1, <3>1 DEF OneEffective
  <2>3. CASE ~effective
    <3>1. EffectiveVersions' \subseteq EffectiveVersions
      BY <1>2, <2>1, <2>3 DEF EffectiveVersions
    <3> QED
      BY <1>2, <2>1, <3>1 DEF OneEffective
  <2> QED
    BY <2>2, <2>3
<1>4. ASSUME Replace(v), policies[v] # "EFFECTIVE"
      PROVE  policies' \in [Versions -> {"NONE", "DRAFT", "EFFECTIVE", "RETIRED"}] /\ OneEffective'
  <2>1. \A w \in Versions : policies'[w] = IF w = v THEN "EFFECTIVE"
                                           ELSE IF policies[w] = "EFFECTIVE" THEN "RETIRED" ELSE policies[w]
    BY <1>4 DEF Replace
  <2>2. policies' = [w \in Versions |-> policies'[w]]
    BY <1>4 DEF Replace
  <2>3. EffectiveVersions' = {v}
    BY <2>1 DEF EffectiveVersions
  <2> QED
    BY <1>2, <2>1, <2>2, <2>3 DEF OneEffective
<1>5. policies' \in [Versions -> {"NONE", "DRAFT", "EFFECTIVE", "RETIRED"}] /\ OneEffective'
  BY <1>3, <1>4 DEF activate_policy, rollback_policy
<1>6. \A p \in Proposals : Dated(proposals[p])' /\ Audited(proposals[p])' /\ Stands(proposals[p])'
  BY <1>1 DEF GovernanceInv, Dated, Audited, Stands, Earned
<1>7. GovernanceTypeOK'
  BY <1>1, <1>5 DEF GovernanceInv, GovernanceTypeOK
<1> QED
  BY <1>5, <1>6, <1>7 DEF GovernanceInv

\* Time only makes dates older.
LEMMA DaySteps ==
    ASSUME GovernanceInv, DayPasses
    PROVE  GovernanceInv'
<1>1. now < MaxDay /\ now' = now + 1 /\ UNCHANGED <<policies, proposals>>
  BY DEF DayPasses
<1>2. now \in 1..MaxDay /\ MaxDay \in Nat
  BY GovernanceAssumption DEF GovernanceInv, GovernanceTypeOK, GovernanceAssumption
<1>3. GovernanceTypeOK'
  BY <1>1, <1>2 DEF GovernanceInv, GovernanceTypeOK
<1>4. OneEffective'
  BY <1>1 DEF GovernanceInv, OneEffective, EffectiveVersions
<1>5. ASSUME NEW p \in Proposals
      PROVE  Dated(proposals[p])' /\ Audited(proposals[p])' /\ Stands(proposals[p])'
  <2>1. PICK row : row = proposals[p]
    OBVIOUS
  <2>2. row \in ProposalRow /\ Dated(row) /\ Audited(row) /\ Stands(row)
    BY <2>1, ProposalFound
  <2>3. /\ row.failedAt \in Day /\ row.received \in Day /\ row.lifecycle.at \in Day
        /\ row.delivery.at \in Day /\ row.delivery.since \in Day
    BY <2>2 DEF ProposalRow, Delivery, Lifecycle
  <2>4. \A d \in Day : (d <= now => d <= now') /\ (now >= d + 1 => now' >= d + 1)
    BY <1>1, <1>2 DEF Day
  <2>5. Dated(row)'
    BY <2>2, <2>3, <2>4 DEF Dated
  <2>6. Stands(row)'
    BY <2>2, <2>3, <2>4 DEF Stands, Earned
  <2>7. Audited(row)'
    BY <2>2 DEF Audited
  <2>8. proposals'[p] = row
    BY <1>1, <2>1
  <2> QED
    BY <2>5, <2>6, <2>7, <2>8 DEF Dated, Stands, Earned, Audited
<1> QED
  BY <1>3, <1>4, <1>5 DEF GovernanceInv

\* Nothing is proposed and no policy is registered at the start.
LEMMA GovernanceStarts == GovernanceInit => GovernanceInv
<1> SUFFICES ASSUME GovernanceInit PROVE GovernanceInv
  OBVIOUS
<1>1. /\ policies = [v \in Versions |-> "NONE"] /\ now = 1
      /\ proposals = [p \in Proposals |-> NoProposal]
  BY DEF GovernanceInit
<1>2. MaxDay \in Nat \ {0} /\ MaxReviews \in Nat
  BY GovernanceAssumption DEF GovernanceAssumption
<1>3. NoLifecycle \in Lifecycle /\ NoDelivery \in Delivery /\ NoReviews \in ReviewRecord /\ 0 \in Day
  BY <1>2 DEF NoLifecycle, Lifecycle, NoDelivery, Delivery, NoReviews, ReviewRecord, Day
<1>4. NoProposal \in ProposalRow
  <2>1. "GREEN" \in Class /\ {} \in SUBSET Incidents
    BY DEF Class
  <2> QED
    BY <1>3, <2>1 DEF ProposalRow, NoProposal
<1>5. GovernanceTypeOK
  <2>1. proposals \in [Proposals -> ProposalRow]
    BY <1>1, <1>4
  <2>2. policies \in [Versions -> {"NONE", "DRAFT", "EFFECTIVE", "RETIRED"}] /\ now \in 1..MaxDay
    BY <1>1, <1>2
  <2> QED
    BY <2>1, <2>2 DEF GovernanceTypeOK, ProposalRow, Delivery
<1>6. EffectiveVersions = {}
  BY <1>1 DEF EffectiveVersions
<1>7. Dated(NoProposal) /\ Audited(NoProposal) /\ Stands(NoProposal)
  BY <1>1 DEF Dated, Audited, Stands, NoProposal, NoLifecycle, NoDelivery, NoReviews
<1> QED
  BY <1>1, <1>5, <1>6, <1>7 DEF GovernanceInv, OneEffective

\* Every operation of governance keeps the invariant.
LEMMA GovernanceSteps == GovernanceInv /\ GovernanceNext => GovernanceInv'
<1> SUFFICES ASSUME GovernanceInv, GovernanceNext PROVE GovernanceInv'
  OBVIOUS
<1>1. ASSUME NEW v \in Versions,
             \/ \E effective \in BOOLEAN : register_policy(v, effective)
             \/ \E p \in Proposals : activate_policy(v, p)
             \/ rollback_policy(v)
      PROVE  GovernanceInv'
  BY <1>1, PolicySteps
<1>2. ASSUME NEW p \in Proposals, NEW draft \in Drafts, NEW policy \in Versions \cup {0},
             NEW known \in SUBSET Relevant, propose(p, draft, [policy |-> policy, known |-> known])
      PROVE  GovernanceInv'
  BY <1>2, ProposeSteps
<1>3. ASSUME NEW p \in Proposals,
             classify(p) \/ queue_owner_notification(p) \/ NoticeReceived(p) \/ record_owner_delivery(p)
      PROVE  GovernanceInv'
  BY <1>3, ClassifySteps, NoticeSteps, DeliverySteps
<1>4. ASSUME NEW p \in Proposals, \E kind \in ReviewKinds : record_review(p, kind)
      PROVE  GovernanceInv'
  BY <1>4, ReviewSteps
<1>5. ASSUME NEW p \in Proposals, NEW phases \in LifecyclePackages, NEW fail \in BOOLEAN, NEW at \in 1..now,
             record_lifecycle(p, [phases |-> phases, fail |-> fail, at |-> at])
      PROVE  GovernanceInv'
  BY <1>5, LifecycleSteps
<1>6. ASSUME NEW p \in Proposals, \E kind \in Syntheses : record_synthesis(p, kind)
      PROVE  GovernanceInv'
  BY <1>6, SynthesisSteps
<1>7. ASSUME NEW p \in Proposals, \E decision \in {"APPROVE", "VETO"} : decide(p, decision)
      PROVE  GovernanceInv'
  BY <1>7, DecideSteps
<1>8. ASSUME NEW p \in Proposals, \E changeSet \in ChangeSets : evaluate(p, changeSet)
      PROVE  GovernanceInv'
  BY <1>8, EvaluateSteps
<1> QED
  BY <1>1, <1>2, <1>3, <1>4, <1>5, <1>6, <1>7, <1>8, DaySteps DEF GovernanceNext

-------------------------------------------------------------------------------
(* Research, the sealed holdout, the verifier and the gates. *)

\* The trial that the plan of gate 1 wants on record.
OwnTrial(s) == [strategy |-> s, family |-> Plan[s].family, config |-> Plan[s].config,
                retry |-> FALSE]

\* Parents are registered before their children, and only registered strategies
\* are shown to the holdout.
Lineage ==
    /\ \A s \in Registered : objects[s] \subseteq Registered
    /\ \A x \in holdout.exposed : x.strategy \in Registered
    /\ IsFiniteSet(holdout.exposed) /\ holdout = [queries |-> holdout.queries, exposed |-> holdout.exposed]

\* A report is what the verifier computes from what the snapshot pins, at gate 1
\* from the family screen it kept.
Executed ==
    \A e \in executions :
        e.report = IF e.gate = 1 THEN ScreenReport(e.screen, Manifest[e.snapshot].screen)
                   ELSE GateReport(Manifest[e.snapshot], e.gate)

\* A candidate's state follows from its decisions: as many gates as it passed,
\* none while it is an idea, and registered with a declared trial once it passed
\* the screen.
DecidedFor(s) ==
    /\ \E S : decisions[s] \in Seq(S)
    /\ Len(decisions[s]) <= candidates[s].version
    /\ candidates[s].status = "IDEA" => candidates[s].gate = -1
    /\ candidates[s].status # "IDEA" => 0 <= candidates[s].gate /\ candidates[s].gate < Len(decisions[s])
    /\ PassedScreen(s) => OwnTrial(s) \in trials /\ s \in Registered

Decided ==
    /\ decisions = [s \in Strategies |-> decisions[s]]
    /\ \A s \in Strategies : DecidedFor(s)

EvaluationInv ==
    EvaluationTypeOK /\ Lineage /\ Executed /\ Decided /\ PassesEarned /\ SealedOnce

-------------------------------------------------------------------------------
(* Lineage. *)

\* The recursive query of sealed_result and _gate_one: a strategy is its own
\* ancestor, and the parents of an ancestor are ancestors.
LEMMA AncestryHolds ==
    ASSUME EvaluationTypeOK, NEW s \in Strategies
    PROVE  s \in Ancestry(s) /\ Ancestry(s) \subseteq Strategies /\ HoldsParents(Ancestry(s))
<1>1. s \in Ancestry(s) /\ Ancestry(s) \subseteq Strategies
  BY DEF Ancestry
<1>2. ASSUME NEW x \in Ancestry(s) \cap Registered, NEW y \in objects[x]
      PROVE  y \in Ancestry(s)
  <2>1. objects[x] \subseteq Strategies
    BY <1>1, <1>2 DEF EvaluationTypeOK, Registered
  <2>2. ASSUME NEW S \in SUBSET Strategies, s \in S, HoldsParents(S)
        PROVE  y \in S
    <3>1. x \in S
      BY <1>2, <2>2 DEF Ancestry
    <3> QED
      BY <1>2, <2>2, <3>1 DEF HoldsParents
  <2> QED
    BY <1>2, <2>1, <2>2 DEF Ancestry
<1> QED
  BY <1>1, <1>2 DEF HoldsParents

\* register adds a leaf: nobody registered before gets another ancestor.
LEMMA RegisterKeeps ==
    ASSUME EvaluationTypeOK, Lineage, NEW s \in Strategies, NEW parents \in SUBSET Strategies,
           register(s, parents), NEW x \in Registered
    PROVE  Ancestry(x)' = Ancestry(x) /\ x \in Registered'
<1>1. /\ objects[s] = None /\ parents \subseteq Registered
      /\ objects' = [objects EXCEPT ![s] = parents]
  BY DEF register
<1>2. \A y \in Registered : y # s /\ objects'[y] = objects[y] /\ y \in Registered'
  BY <1>1 DEF Registered, EvaluationTypeOK
<1>3. ASSUME NEW S \in SUBSET Strategies, HoldsParents(S)' PROVE HoldsParents(S)
  BY <1>2, <1>3 DEF HoldsParents
<1>4. ASSUME NEW S \in SUBSET Strategies, HoldsParents(S), NEW R, R = S \cap Registered
      PROVE  HoldsParents(R)'
  <2>1. SUFFICES ASSUME NEW y \in R \cap Registered'
                 PROVE  objects'[y] \subseteq R
    BY <2>1 DEF HoldsParents
  <2>2. objects[y] \subseteq S /\ objects[y] \subseteq Registered /\ y \in Registered
    BY <1>4, <2>1 DEF HoldsParents, Lineage
  <2> QED
    BY <1>2, <1>4, <2>2
<1>5. ASSUME NEW z \in Ancestry(x) PROVE z \in Ancestry(x)'
  BY <1>3, <1>5 DEF Ancestry
<1>6. ASSUME NEW z \in Ancestry(x)' PROVE z \in Ancestry(x)
  <2>1. z \in Strategies
    BY <1>6 DEF Ancestry
  <2>2. ASSUME NEW S \in SUBSET Strategies, x \in S, HoldsParents(S) PROVE z \in S
    <3>1. PICK R : R = S \cap Registered
      OBVIOUS
    <3>2. HoldsParents(R)'
      BY <1>4, <2>2, <3>1
    <3>3. R \in SUBSET Strategies /\ x \in R
      BY <2>2, <3>1
    <3>4. z \in R
      BY <1>6, <3>2, <3>3 DEF Ancestry
    <3> QED
      BY <3>1, <3>4
  <2> QED
    BY <2>1, <2>2 DEF Ancestry
<1> QED
  BY <1>2, <1>5, <1>6

\* What the new strategy descends from, it descends from through a parent.
LEMMA RegisterInherits ==
    ASSUME EvaluationTypeOK, Lineage, NEW s \in Strategies, NEW parents \in SUBSET Strategies,
           register(s, parents), NEW x, x \in Ancestry(s)', x # s
    PROVE  \E p \in parents : x \in Ancestry(p)
<1>1. /\ objects[s] = None /\ parents \subseteq Registered
      /\ objects' = [objects EXCEPT ![s] = parents]
  BY DEF register
<1>2. \A y \in Strategies : y # s => objects'[y] = objects[y] /\ (y \in Registered' => y \in Registered)
  BY <1>1 DEF Registered, EvaluationTypeOK
<1>3a. PICK S : S = {s} \cup UNION {Ancestry(p) : p \in parents}
  OBVIOUS
<1>3. \A p \in parents : p \in Ancestry(p) /\ Ancestry(p) \subseteq Strategies /\ HoldsParents(Ancestry(p))
  BY AncestryHolds
<1>4. S \in SUBSET Strategies /\ s \in S
  BY <1>3, <1>3a
<1>5. HoldsParents(S)'
  <2>1. SUFFICES ASSUME NEW y \in S \cap Registered' PROVE objects'[y] \subseteq S
    BY <2>1 DEF HoldsParents
  <2>2. CASE y = s
    <3>1. objects'[s] = parents
      BY <1>1 DEF EvaluationTypeOK
    <3> QED
      BY <1>3, <1>3a, <2>2, <3>1
  <2>3. CASE y # s
    <3>1. PICK p \in parents : y \in Ancestry(p)
      BY <1>3a, <2>1, <2>3
    <3>2. y \in Registered /\ objects'[y] = objects[y]
      BY <1>2, <1>4, <2>1, <2>3
    <3>3. objects[y] \subseteq Ancestry(p)
      BY <1>3, <3>1, <3>2 DEF HoldsParents
    <3> QED
      BY <1>3a, <3>2, <3>3
  <2> QED
    BY <2>2, <2>3
<1>6. x \in S
  BY <1>4, <1>5 DEF Ancestry
<1> QED
  BY <1>6, <1>3a

-------------------------------------------------------------------------------
(* Research. *)

\* Without a decision candidates keep what they earned; a trial on record stays.
LEMMA DecisionsUntouched ==
    ASSUME EvaluationInv, UNCHANGED <<candidates, decisions>>, trials \subseteq trials',
           Registered \subseteq Registered'
    PROVE  Decided' /\ PassesEarned'
<1>1. Decided'
  <2>1. \A s \in Strategies : PassedScreen(s)' <=> PassedScreen(s)
    BY DEF PassedScreen
  <2>2. \A s \in Strategies : DecidedFor(s)'
    BY <2>1, Zenon DEF EvaluationInv, Decided, DecidedFor
  <2> QED
    BY <2>2 DEF EvaluationInv, Decided
<1>2. PassesEarned'
  BY DEF EvaluationInv, PassesEarned, PassedScreen
<1> QED
  BY <1>1, <1>2

\* Registrations and trials do not touch the gates.
LEMMA GatesUntouched ==
    ASSUME EvaluationInv, UNCHANGED gateVars, trials \subseteq trials', Registered \subseteq Registered'
    PROVE  Executed' /\ Decided' /\ PassesEarned'
<1>1. Executed'
  BY DEF EvaluationInv, Executed, gateVars
<1> QED
  BY <1>1, DecisionsUntouched DEF gateVars

\* Gates and trials do not touch the lineage and the holdout.
LEMMA ResearchUntouched ==
    ASSUME EvaluationInv, UNCHANGED <<objects, holdout, contaminated>>
    PROVE  Lineage' /\ SealedOnce'
<1>1. Registered' = Registered /\ \A s : Ancestry(s)' = Ancestry(s)
  BY DEF Registered, Ancestry, HoldsParents
<1>2. \A s : Descendants(s)' = Descendants(s)
  BY <1>1 DEF Descendants
<1>3. Lineage'
  BY <1>1 DEF EvaluationInv, Lineage
<1>4. SealedOnce'
  BY <1>1, <1>2, Zenon DEF EvaluationInv, SealedOnce
<1> QED
  BY <1>3, <1>4

\* A registered strategy brings no exposed one a relative, and is marked when it
\* descends from one.
LEMMA RegisterSteps ==
    ASSUME EvaluationInv, NEW s \in Strategies, NEW parents \in SUBSET Strategies,
           register(s, parents)
    PROVE  EvaluationInv'
<1>1. /\ objects[s] = None /\ parents \subseteq Registered
      /\ objects' = [objects EXCEPT ![s] = parents]
      /\ contaminated' = contaminated \cup (IF parents \cap contaminated # {} THEN {s} ELSE {})
      /\ UNCHANGED <<trials, holdout, gateVars>>
  BY DEF register
<1>2. EvaluationTypeOK'
  BY <1>1 DEF EvaluationInv, EvaluationTypeOK, gateVars
<1>3. Registered \subseteq Registered' /\ Registered' \subseteq Registered \cup {s} /\ s \notin Registered
  BY <1>1 DEF EvaluationInv, EvaluationTypeOK, Registered
<1>4. \A y \in Strategies : objects'[y] = IF y = s THEN parents ELSE objects[y]
  BY <1>1 DEF EvaluationInv, EvaluationTypeOK
<1>5. Lineage'
  <2>1. \A y \in Registered' : objects'[y] \subseteq Registered'
    BY <1>1, <1>3, <1>4 DEF EvaluationInv, Lineage, Registered
  <2> QED
    BY <1>1, <1>3, <2>1 DEF EvaluationInv, Lineage
<1>6. \A x \in Registered : Ancestry(x)' = Ancestry(x)
  BY RegisterKeeps DEF EvaluationInv
<1>7. \A x \in holdout.exposed : x.strategy \in Registered
  BY DEF EvaluationInv, Lineage
<1>8. ASSUME NEW x \in holdout.exposed, NEW d \in Descendants(x.strategy)'
      PROVE  d \in contaminated'
  <2>1. d \in Registered' /\ x.strategy \in Ancestry(d)'
    BY <1>8 DEF Descendants
  <2>2. CASE d \in Registered
    <3>1. d \in Descendants(x.strategy)
      BY <1>6, <2>1, <2>2 DEF Descendants
    <3> QED
      BY <1>1, <3>1 DEF EvaluationInv, SealedOnce
  <2>3. CASE d = s
    <3>1. x.strategy # s
      BY <1>3, <1>7
    <3>2. PICK p \in parents : x.strategy \in Ancestry(p)
      BY <2>1, <2>3, <3>1, RegisterInherits DEF EvaluationInv
    <3>3. p \in Descendants(x.strategy)
      BY <1>1, <3>2 DEF Descendants
    <3>4. p \in contaminated
      BY <3>3 DEF EvaluationInv, SealedOnce
    <3> QED
      BY <1>1, <2>3, <3>4
  <2> QED
    BY <1>3, <2>1, <2>2, <2>3
<1>9. SealedOnce'
  <2>1. \A x, y \in holdout.exposed :
            x # y => x.family # y.family /\ Ancestry(x.strategy)' \cap Ancestry(y.strategy)' = {}
    BY <1>6, <1>7 DEF EvaluationInv, SealedOnce
  <2>2. Cardinality(holdout.exposed) = holdout.queries
    BY DEF EvaluationInv, SealedOnce
  <2>3. \A x \in holdout.exposed : Descendants(x.strategy)' \subseteq contaminated'
    BY <1>8
  <2>4. holdout' = holdout
    BY <1>1
  <2> QED
    BY <2>1, <2>2, <2>3, <2>4, Zenon DEF SealedOnce
<1> QED
  BY <1>1, <1>2, <1>3, <1>5, <1>9, GatesUntouched DEF EvaluationInv

\* The holdout answers for a strategy once, in a family of its own, and for no
\* relative of a strategy it has answered for.
LEMMA SealedResultSteps ==
    ASSUME EvaluationInv, NEW s \in Strategies, NEW family \in Families,
           sealed_result(s, family)
    PROVE  EvaluationInv'
<1> DEFINE new == [strategy |-> s, family |-> family]
<1>1. /\ \A x \in holdout.exposed : x.strategy # s /\ x.family # family
      /\ objects[s] # None /\ family \in Allowed /\ holdout.queries < Budget
      /\ ~ExposedRelative(s)
      /\ holdout' = [queries |-> holdout.queries + 1, exposed |-> holdout.exposed \cup {new}]
      /\ contaminated' = contaminated \cup Descendants(s)
      /\ UNCHANGED <<objects, trials, gateVars>>
  BY DEF sealed_result
<1>2. new \in Exposure /\ new \notin holdout.exposed
  BY <1>1 DEF Exposure
<1>3. holdout'.exposed = holdout.exposed \cup {new} /\ holdout'.queries = holdout.queries + 1
  BY <1>1
<1>4. EvaluationTypeOK'
  <2>1. holdout'.queries \in 0..Budget
    BY <1>1, <1>3, EvaluationAssumption DEF EvaluationAssumption, EvaluationInv, EvaluationTypeOK
  <2>2. contaminated' \subseteq Strategies
    BY <1>1 DEF EvaluationInv, EvaluationTypeOK, Descendants, Registered
  <2> QED
    BY <1>1, <1>2, <1>3, <2>1, <2>2 DEF EvaluationInv, EvaluationTypeOK, gateVars
<1>5. Registered' = Registered /\ \A x : Ancestry(x)' = Ancestry(x)
  BY <1>1 DEF Registered, Ancestry, HoldsParents
<1>6. \A x : Descendants(x)' = Descendants(x)
  BY <1>5 DEF Descendants
<1>7. Lineage'
  <2>1. s \in Registered
    BY <1>1 DEF Registered
  <2>2. IsFiniteSet(holdout'.exposed)
    <3>1. IsFiniteSet(holdout.exposed)
      BY DEF EvaluationInv, Lineage
    <3> HIDE DEF new
    <3> QED
      BY <1>3, <3>1, FS_AddElement
  <2>3. holdout' = [queries |-> holdout'.queries, exposed |-> holdout'.exposed]
    BY <1>1, <1>3
  <2>4. \A x \in holdout'.exposed : x.strategy \in Registered
    BY <1>3, <2>1 DEF EvaluationInv, Lineage
  <2>5. objects' = objects
    BY <1>1
  <2> QED
    BY <1>5, <2>2, <2>3, <2>4, <2>5 DEF EvaluationInv, Lineage
<1>8. SealedOnce'
  <2>1. \A x \in holdout.exposed : Ancestry(s) \cap Ancestry(x.strategy) = {}
    BY <1>1 DEF ExposedRelative
  <2>2. ASSUME NEW x \in holdout'.exposed, NEW y \in holdout'.exposed, x # y
        PROVE  x.family # y.family /\ Ancestry(x.strategy) \cap Ancestry(y.strategy) = {}
    <3>1. CASE x \in holdout.exposed /\ y \in holdout.exposed
      BY <2>2, <3>1 DEF EvaluationInv, SealedOnce
    <3>2. CASE x = new /\ y \in holdout.exposed
      BY <1>1, <2>1, <3>2
    <3>3. CASE y = new /\ x \in holdout.exposed
      BY <1>1, <2>1, <3>3
    <3> QED
      BY <1>3, <2>2, <3>1, <3>2, <3>3
  <2>3. Cardinality(holdout'.exposed) = holdout'.queries
    <3>1. Cardinality(holdout'.exposed) = Cardinality(holdout.exposed) + 1
      <4>1. PICK E : E = holdout.exposed
        OBVIOUS
      <4>2. IsFiniteSet(E) /\ new \notin E /\ holdout'.exposed = E \cup {new}
        BY <1>2, <1>3, <4>1 DEF EvaluationInv, Lineage
      <4> HIDE DEF new
      <4>3. Cardinality(E \cup {new}) = Cardinality(E) + 1
        BY <4>2, FS_AddElement
      <4> QED
        BY <4>1, <4>2, <4>3
    <3> QED
      BY <1>3, <3>1 DEF EvaluationInv, SealedOnce
  <2>4. \A x \in holdout'.exposed : Descendants(x.strategy) \subseteq contaminated'
    BY <1>1, <1>3 DEF EvaluationInv, SealedOnce
  <2> QED
    BY <1>5, <1>6, <2>2, <2>3, <2>4, Zenon DEF SealedOnce
<1> QED
  BY <1>1, <1>4, <1>7, <1>8, GatesUntouched DEF EvaluationInv, Registered

\* A trial only adds to the record.
LEMMA TrialSteps ==
    ASSUME EvaluationInv, NEW t \in Trial, trial(t)
    PROVE  EvaluationInv'
<1>1. trials' = trials \cup {t} /\ UNCHANGED <<objects, holdout, contaminated, gateVars>>
  BY DEF trial
<1>2. EvaluationTypeOK'
  BY <1>1 DEF EvaluationInv, EvaluationTypeOK, gateVars
<1> QED
  BY <1>1, <1>2, GatesUntouched, ResearchUntouched DEF EvaluationInv, Registered

-------------------------------------------------------------------------------
(* Decisions. *)

\* g gives every set of rules the decision after they were applied, the last
\* one last.
Rulings(start, rules, g, S) ==
    g = [s \in SUBSET S |-> IF s = {} THEN start ELSE ApplyRule(g[s \ {Max(s)}], rules[Max(s)])]

\* A set of positions of a list of rules has a last one.
LEMMA LastPosition ==
    ASSUME NEW n \in Nat, NEW s \in SUBSET (1..n), s # {}
    PROVE  Max(s) \in s
<1> DEFINE B == {k \in Nat : \A y \in s : y <= k}
<1>1. n \in B /\ B \subseteq Nat
  OBVIOUS
<1>2. PICK m \in B : \A k \in B : m <= k
  <2> HIDE DEF B
  <2> QED
    BY <1>1, FirstPosition
<1>3. m \in Nat /\ \A y \in s : y \in Nat /\ y >= 1 /\ y <= m
  <2>1. m \in Nat /\ \A y \in s : y <= m
    BY <1>2
  <2>2. \A y \in s : y \in 1..n
    OBVIOUS
  <2> QED
    BY <2>1, <2>2
<1>4. m - 1 \in Nat
  <2>1. PICK y \in s : TRUE
    OBVIOUS
  <2> HIDE DEF B
  <2> QED
    BY <1>3, <2>1
<1>5. m - 1 \notin B
  <2> HIDE DEF B
  <2> QED
    BY <1>2, <1>3
<1>6. m \in s
  <2>1. PICK y \in s : ~(y <= m - 1)
    BY <1>4, <1>5
  <2>2. y = m
    BY <1>3, <2>1
  <2> QED
    BY <2>1, <2>2
<1> QED
  BY <1>3, <1>6 DEF Max

\* Rules that two lists share are decided alike.
LEMMA RulingsAgree ==
    ASSUME NEW n \in Nat, NEW start, NEW rules, NEW S \in SUBSET (1..n), NEW R \in SUBSET (1..n),
           NEW T, T \subseteq S, T \subseteq R,
           NEW g, NEW h, Rulings(start, rules, g, S), Rulings(start, rules, h, R)
    PROVE  g[T] = h[T]
<1> DEFINE W == {s \in SUBSET T : g[s] # h[s]}
<1> SUFFICES ASSUME W # {} PROVE FALSE
  OBVIOUS
<1>1. PICK s \in W : \A U \in W : U \subseteq s => U = s
  <2>1. W \subseteq SUBSET T
    OBVIOUS
  <2>2. IsFiniteSet(T)
    <3>1. 1 \in Int /\ n \in Int /\ T \subseteq 1..n
      OBVIOUS
    <3>2. IsFiniteSet(1..n)
      BY <3>1, FS_Interval
    <3> QED
      BY <3>1, <3>2, FS_Subset
  <2>3. W # {}
    OBVIOUS
  <2> HIDE DEF W
  <2> QED
    BY ONLY <2>1, <2>2, <2>3, SmallestSet
<1>2. s \in SUBSET S /\ s \in SUBSET R /\ g[s] # h[s]
  BY <1>1
<1>3. s # {}
  BY <1>2 DEF Rulings
<1>4. Max(s) \in s
  BY <1>2, <1>3, LastPosition
<1>5. g[s \ {Max(s)}] = h[s \ {Max(s)}]
  BY <1>1, <1>4
<1>6. /\ g[s] = ApplyRule(g[s \ {Max(s)}], rules[Max(s)])
      /\ h[s] = ApplyRule(h[s \ {Max(s)}], rules[Max(s)])
  BY <1>2, <1>3 DEF Rulings
<1> QED
  BY <1>2, <1>5, <1>6

\* Every list of rules is decided.
LEMMA RulingsExist ==
    ASSUME NEW n \in Nat, NEW start, NEW rules, NEW S, S \subseteq 1..n
    PROVE  \E g : Rulings(start, rules, g, S)
<1> DEFINE W == {T \in SUBSET S : ~ \E g : Rulings(start, rules, g, T)}
<1> SUFFICES ASSUME W # {} PROVE FALSE
  OBVIOUS
<1>1. PICK T \in W : \A U \in W : U \subseteq T => U = T
  <2>1. W \subseteq SUBSET S
    OBVIOUS
  <2>2. IsFiniteSet(S)
    <3>1. 1 \in Int /\ n \in Int /\ S \subseteq 1..n
      OBVIOUS
    <3>2. IsFiniteSet(1..n)
      BY <3>1, FS_Interval
    <3> QED
      BY <3>1, <3>2, FS_Subset
  <2>3. W # {}
    OBVIOUS
  <2> HIDE DEF W
  <2> QED
    BY ONLY <2>1, <2>2, <2>3, SmallestSet
<1> DEFINE G(U) == CHOOSE g : Rulings(start, rules, g, U)
           Rest(s) == s \ {Max(s)}
           new == [s \in SUBSET T |-> IF s = {} THEN start
                                      ELSE ApplyRule(G(Rest(s))[Rest(s)], rules[Max(s)])]
<1>2. ASSUME NEW U \in SUBSET T, U # T PROVE Rulings(start, rules, G(U), U)
  BY <1>1, <1>2
<1>3. ASSUME NEW s \in SUBSET T, s # {}
      PROVE  new[Rest(s)] = G(Rest(s))[Rest(s)]
  <2>1. Max(s) \in s /\ s \in SUBSET (1..n)
    BY <1>3, LastPosition
  <2>2. Rest(s) \in SUBSET T /\ Rest(s) # T
    BY <2>1
  <2>3. Rulings(start, rules, G(Rest(s)), Rest(s))
    BY <1>2, <2>2
  <2>4. CASE Rest(s) = {}
    <3>1. G(Rest(s))[Rest(s)] = start
      BY <2>3, <2>4 DEF Rulings
    <3> QED
      BY <2>2, <2>4, <3>1
  <2>5. CASE Rest(s) # {}
    <3> DEFINE r == Rest(s)
    <3>1. Max(r) \in r /\ r \in SUBSET (1..n)
      BY <2>1, <2>5, LastPosition
    <3>2. Rest(r) \in SUBSET T /\ Rest(r) # T /\ Rest(r) \subseteq r /\ Rest(r) \in SUBSET (1..n)
      BY <2>2, <3>1
    <3>3. Rulings(start, rules, G(Rest(r)), Rest(r))
      BY <1>2, <3>2
    <3>4. G(r)[Rest(r)] = G(Rest(r))[Rest(r)]
      <4> HIDE DEF G, Rest, r
      <4>1. Rulings(start, rules, G(r), r)
        BY <2>3 DEF r
      <4> QED
        BY <3>1, <3>2, <3>3, <4>1, RulingsAgree
    <3>5. G(r)[r] = ApplyRule(G(r)[Rest(r)], rules[Max(r)])
      BY <2>3, <2>5 DEF Rulings
    <3>6. new[r] = ApplyRule(G(Rest(r))[Rest(r)], rules[Max(r)])
      BY <2>2, <2>5
    <3> QED
      BY <3>4, <3>5, <3>6
  <2> QED
    BY <2>4, <2>5
<1>4. Rulings(start, rules, new, T)
  <2>1. \A s \in SUBSET T :
            new[s] = IF s = {} THEN start ELSE ApplyRule(new[Rest(s)], rules[Max(s)])
    <3> SUFFICES ASSUME NEW s \in SUBSET T
                 PROVE  new[s] = IF s = {} THEN start ELSE ApplyRule(new[Rest(s)], rules[Max(s)])
      OBVIOUS
    <3>1. new[s] = IF s = {} THEN start ELSE ApplyRule(G(Rest(s))[Rest(s)], rules[Max(s)])
      OBVIOUS
    <3> HIDE DEF new, G, Rest
    <3> QED
      BY <1>3, <3>1
  <2>2. new = [s \in SUBSET T |-> new[s]]
    OBVIOUS
  <2>3. new = [s \in SUBSET T |-> IF s = {} THEN start ELSE ApplyRule(new[Rest(s)], rules[Max(s)])]
    <3> HIDE DEF new, Rest
    <3> QED
      BY <2>1, <2>2
  <2> QED
    BY <2>3 DEF Rulings
<1> QED
  BY <1>1, <1>4

\* Rules never turn anything into a pass: a gate is passed only on a report whose
\* checks are all true, that is not hard invalid and knows what is material.
LEMMA PassNeedsReport ==
    ASSUME NEW report, NEW rules \in Seq(Standing), NEW bound,
           Decision(report, rules, bound) = "PASS"
    PROVE  ~report.hard /\ ~report.unknown /\ report.checks
<1> DEFINE checked == IF report.hard THEN "FAIL"
                      ELSE IF report.unknown \/ ~report.checks THEN "BLOCKED" ELSE "PASS"
           start == IF checked # "FAIL" /\ ~bound THEN "BLOCKED" ELSE checked
           D == DOMAIN rules
           h == CHOOSE g : Rulings(start, rules, g, D)
<1>1. Len(rules) \in Nat /\ D \in SUBSET (1..Len(rules))
  OBVIOUS
<1>2. Rulings(start, rules, h, D)
  <2> HIDE DEF start, D
  <2> QED
    BY <1>1, RulingsExist
<1>3. Decision(report, rules, bound) = h[D]
  BY DEF Decision, FoldLeft, MapThenFoldSet, Rulings
<1> HIDE DEF h
<1>4. start = "PASS"
  <2> DEFINE W == {s \in SUBSET D : h[s] = "PASS"}
  <2> SUFFICES ASSUME start # "PASS" PROVE FALSE
    OBVIOUS
  <2> HIDE DEF start
  <2>1. D \in W
    BY <1>3
  <2>2. PICK s \in W : \A U \in W : U \subseteq s => U = s
    <3>1. W \subseteq SUBSET D /\ W # {}
      BY <2>1
    <3>2. IsFiniteSet(D)
      BY <1>1, FS_Interval, FS_Subset
    <3> HIDE DEF W, D
    <3> QED
      BY <3>1, <3>2, SmallestSet
  <2>3. s \in SUBSET D /\ h[s] = "PASS" /\ s # {}
    BY <1>2, <2>2 DEF Rulings
  <2>4. Max(s) \in s
    BY <1>1, <2>3, LastPosition
  <2>5. h[s] = ApplyRule(h[s \ {Max(s)}], rules[Max(s)])
    BY <1>2, <2>3 DEF Rulings
  <2>6. h[s \ {Max(s)}] # "PASS"
    BY <2>2, <2>3, <2>4
  <2> QED
    BY <2>3, <2>5, <2>6 DEF ApplyRule
<1> QED
  BY <1>4

-------------------------------------------------------------------------------
(* Reports. *)

\* Gate 2 passes no feature from the future, no label known at its decision and
\* no universe membership learnt after it.
LEMMA NoLookAhead ==
    ASSUME NEW m, Parsed(m), DataReport(m.data).checks
    PROVE  SoundAt(m, 2)
<1>1. RowsValid(m.data)
  BY DEF DataReport, Report, NoPlan
<1> QED
  BY <1>1 DEF SoundAt, Parsed, RowsValid, FeatureRowValid, LabelRowValid, UniverseRowValid

\* Gate 4 passes as many samples as gate 3 declared, that earn their cost within
\* the capacity limit.
LEMMA ProxyEarns ==
    ASSUME NEW m, Parsed(m), HonorMinimum(ProxyReport(m.proxy), m.proxy, m.basis).checks
    PROVE  SoundAt(m, 4)
<1> DEFINE p == m.proxy
<1>1. \E a, b, c : ProxyReport(p) = Report(a, b, c)
  BY DEF ProxyReport, NoPlan, EconomicsReport
<1>2. ProxyReport(p).checks /\ p.minimum >= m.basis.minimum
  BY <1>1, Zenon DEF HonorMinimum, Report
<1>3. EconomicsReport(p).checks
  BY <1>2 DEF ProxyReport, NoPlan, Report
<1>4. /\ Cardinality(DOMAIN p.samples) >= p.minimum
      /\ Total(p) >= p.lower * Cardinality(DOMAIN p.samples)
      /\ \A i \in DOMAIN p.samples : p.capacity[i].planned <= p.limit
  BY <1>3 DEF EconomicsReport, Report
<1>5. Cardinality(DOMAIN p.samples) >= m.basis.minimum
  <2>1. Cardinality(DOMAIN p.samples) \in Nat /\ p.minimum \in Int /\ m.basis.minimum \in Int
    BY FS_CardinalityType DEF Parsed
  <2> QED
    BY <1>2, <1>4, <2>1
<1> QED
  BY <1>4, <1>5 DEF SoundAt

\* Gate 5 passes a replay in which every fee and the instrument specification
\* were known before the quotes they were applied to.
LEMMA ReplayKnown ==
    ASSUME NEW m, Parsed(m), BacktestReport(m.replay).checks
    PROVE  SoundAt(m, 5)
<1> DEFINE tape == m.replay.tape
           known == m.replay.specKnown
<1>1. TapeValid(m.replay) /\ Replayable(m.replay)
  BY DEF BacktestReport, Report
<1>2. tape \in Seq([time: Int, feeKnown: Int]) /\ known \in Int
  BY DEF Parsed
<1>3. /\ known <= tape[1].time
      /\ \A k \in 1..(Len(tape) - 1) : tape[k].time < tape[k + 1].time
      /\ \A k \in DOMAIN tape : tape[k].feeKnown <= tape[k].time
  BY <1>1 DEF TapeValid, Replayable
<1> HIDE DEF tape, known
<1> DEFINE W == {k \in 1..Len(tape) : ~(known <= tape[k].time)}
<1>4. W = {}
  <2> SUFFICES ASSUME W # {} PROVE FALSE
    OBVIOUS
  <2>1. W \subseteq Nat
    OBVIOUS
  <2>2. PICK k \in W : \A i \in W : k <= i
    <3> HIDE DEF W
    <3> QED
      BY <2>1, FirstPosition
  <2>3. k \in 1..Len(tape) /\ ~(known <= tape[k].time)
    BY <2>2
  <2>4. k # 1 /\ Len(tape) \in Nat
    BY <1>2, <1>3, <2>3
  <2>5. k - 1 \in 1..(Len(tape) - 1) /\ k - 1 \in 1..Len(tape)
    BY <2>3, <2>4
  <2>6. tape[k - 1].time < tape[k].time
    <3>1. tape[k - 1].time < tape[k - 1 + 1].time
      BY <1>3, <2>5
    <3>2. k - 1 + 1 = k
      BY <2>3, <2>4
    <3> QED
      BY <3>1, <3>2
  <2>7. tape[k - 1].time \in Int /\ tape[k].time \in Int
    <3>1. \A i \in 1..Len(tape) : tape[i] \in [time: Int, feeKnown: Int]
      <4>1. PICK Q : Q = [time: Int, feeKnown: Int]
        OBVIOUS
      <4>2. tape \in Seq(Q)
        BY ONLY <1>2, <4>1, Zenon
      <4>3. \A i \in 1..Len(tape) : tape[i] \in Q
        BY ONLY <4>2
      <4> QED
        BY ONLY <4>1, <4>3
    <3>2. \A i \in 1..Len(tape) : tape[i].time \in Int
      BY <3>1
    <3> QED
      BY <2>3, <2>5, <3>2
  <2>8. k - 1 \in W
    <3>1. ~(known <= tape[k - 1].time)
      <4>1. ~(known <= tape[k].time) /\ known \in Int
        BY <1>2, <2>3
      <4> QED
        BY ONLY <2>6, <2>7, <4>1
    <3> QED
      BY <2>5, <3>1
  <2>9. k <= k - 1
    <3> HIDE DEF W
    <3> QED
      BY <2>2, <2>8
  <2> QED
    BY <2>3, <2>4, <2>9
<1>5. \A k \in DOMAIN tape : known <= tape[k].time
  BY <1>2, <1>4
<1> QED
  BY <1>3, <1>5 DEF SoundAt, tape, known

\* A report whose checks are true is about sound inputs, at every gate the
\* verifier reports on from the snapshot alone.
LEMMA PassIsSound ==
    ASSUME NEW m, Parsed(m), NEW g \in 0..5, g # 1, GateReport(m, g).checks
    PROVE  SoundAt(m, g)
<1>1. CASE g = 2
  BY <1>1, NoLookAhead DEF GateReport
<1>2. CASE g = 4
  BY <1>2, ProxyEarns DEF GateReport
<1>3. CASE g = 5
  BY <1>3, ReplayKnown DEF GateReport
<1>4. CASE g \notin {2, 4, 5}
  BY <1>4 DEF SoundAt
<1> QED
  BY <1>1, <1>2, <1>3, <1>4

-------------------------------------------------------------------------------
(* The verifier and the gates. *)

\* Snapshots come and are invalidated, and cooldowns pass, without a decision.
LEMMA SnapshotSteps ==
    ASSUME EvaluationInv,
           \/ \E n \in Snapshots : snapshot(n) \/ Invalidate(n)
           \/ \E s \in Strategies : CooldownPasses(s)
    PROVE  EvaluationInv'
<1>1. /\ UNCHANGED <<objects, trials, holdout, contaminated, candidates, executions, decisions>>
      /\ snapshots' \subseteq Snapshots
      /\ invalidated' \subseteq snapshots' /\ cooling' \subseteq cooling
  BY DEF EvaluationInv, EvaluationTypeOK, snapshot, Invalidate, CooldownPasses, researchVars
<1>2. EvaluationTypeOK'
  BY <1>1 DEF EvaluationInv, EvaluationTypeOK
<1>3. Executed'
  BY <1>1 DEF EvaluationInv, Executed
<1> QED
  BY <1>1, <1>2, <1>3, DecisionsUntouched, ResearchUntouched DEF EvaluationInv, Registered

\* execute only adds evidence, computed from what it names.
LEMMA ExecuteSteps ==
    ASSUME EvaluationInv, NEW s \in Strategies, NEW n \in Snapshots, NEW g \in 0..MaxGate,
           execute(s, n, g)
    PROVE  EvaluationInv'
<1>1. PICK screen : screen = Screen(s)
  OBVIOUS
<1>2. PICK e : e = [strategy |-> s, snapshot |-> n, gate |-> g, version |-> candidates[s].version,
                    report |-> IF g = 1 THEN ScreenReport(screen, Manifest[n].screen)
                               ELSE GateReport(Manifest[n], g),
                    screen |-> IF g = 1 THEN screen ELSE None]
  OBVIOUS
<1>3. /\ executions' = executions \cup {e}
      /\ UNCHANGED <<objects, trials, holdout, contaminated, snapshots, invalidated, candidates,
                     decisions, cooling>>
  BY <1>1, <1>2 DEF execute, researchVars
<1>4. candidates[s].version \in 0..MaxVersion
  BY DEF EvaluationInv, EvaluationTypeOK
<1>5. EvaluationTypeOK'
  <2>1. e.strategy = s /\ e.snapshot = n /\ e.gate = g /\ e.version = candidates[s].version
    BY <1>2
  <2> QED
    BY <1>3, <1>4, <2>1 DEF EvaluationInv, EvaluationTypeOK
<1>6. Executed'
  <2>1. e.report = IF e.gate = 1 THEN ScreenReport(e.screen, Manifest[e.snapshot].screen)
                   ELSE GateReport(Manifest[e.snapshot], e.gate)
    BY <1>2
  <2> QED
    BY <1>3, <2>1, Zenon DEF EvaluationInv, Executed
<1> QED
  BY <1>3, <1>5, <1>6, DecisionsUntouched, ResearchUntouched DEF EvaluationInv, Registered

\* A candidate that re-enters keeps none of the gates it passed.
LEMMA ReenterSteps ==
    ASSUME EvaluationInv, NEW s \in Strategies, NEW n \in Snapshots, reenter(s, n)
    PROVE  EvaluationInv'
<1>1. PICK cand : cand = [version |-> candidates[s].version + 1, snapshot |-> n, gate |-> -1,
                          status |-> "IDEA"]
  OBVIOUS
<1>2. /\ candidates[s].version < MaxVersion
      /\ candidates' = [candidates EXCEPT ![s] = cand]
      /\ UNCHANGED <<objects, trials, holdout, contaminated, snapshots, invalidated, executions,
                     decisions, cooling>>
  BY <1>1 DEF reenter, researchVars
<1>3. candidates[s].version \in 0..MaxVersion /\ MaxGate \in Nat /\ MaxVersion \in Nat
  BY EvaluationAssumption DEF EvaluationAssumption, EvaluationInv, EvaluationTypeOK
<1>4. /\ cand.version = candidates[s].version + 1 /\ cand.version \in 0..MaxVersion
      /\ cand.gate = -1 /\ cand.status = "IDEA"
  BY <1>1, <1>2, <1>3
<1>5. \A x \in Strategies : candidates'[x] = IF x = s THEN cand ELSE candidates[x]
  BY <1>2 DEF EvaluationInv, EvaluationTypeOK
<1>6. EvaluationTypeOK'
  <2>1. cand \in [version: 0..MaxVersion, snapshot: Snapshots \cup {None}, gate: -1..MaxGate,
                  status: Terminal \cup {"IDEA", "PASSED"}]
    BY <1>1, <1>3, <1>4
  <2>2. candidates' \in [Strategies -> [version: 0..MaxVersion, snapshot: Snapshots \cup {None},
                                        gate: -1..MaxGate, status: Terminal \cup {"IDEA", "PASSED"}]]
    BY <1>2, <2>1 DEF EvaluationInv, EvaluationTypeOK
  <2> QED
    BY <1>2, <2>2 DEF EvaluationInv, EvaluationTypeOK
<1>7. \A x \in Strategies : PassedScreen(x)' => x # s /\ PassedScreen(x)
  BY <1>4, <1>5 DEF PassedScreen
<1>8. Decided'
  <2>1. ASSUME NEW x \in Strategies PROVE DecidedFor(x)'
    <3>1. CASE x # s
      <4>1. DecidedFor(x) /\ candidates'[x] = candidates[x] /\ decisions' = decisions /\ trials' = trials
        BY <1>2, <1>5, <3>1 DEF EvaluationInv, Decided
      <4>2. Registered' = Registered
        BY <1>2 DEF Registered
      <4> QED
        BY <1>7, <4>1, <4>2, Zenon DEF DecidedFor
    <3>2. CASE x = s
      <4>1. candidates'[x] = cand /\ ~PassedScreen(x)'
        BY <1>5, <1>7, <3>2
      <4>2. (\E S : decisions[s] \in Seq(S)) /\ Len(decisions[s]) <= candidates[s].version
        BY DEF EvaluationInv, Decided, DecidedFor
      <4>3. Len(decisions[s]) <= cand.version
        <5>1. Len(decisions[s]) \in Nat
          BY <4>2
        <5> QED
          BY <1>3, <1>4, <4>2, <5>1
      <4> QED
        BY <1>2, <1>4, <3>2, <4>1, <4>2, <4>3 DEF DecidedFor
    <3> QED
      BY <3>1, <3>2
  <2> QED
    BY <1>2, <2>1 DEF EvaluationInv, Decided
<1>9. PassesEarned'
  <2>1. ASSUME NEW x \in Strategies, candidates'[x].status = "PASSED"
        PROVE  GatesPassed(candidates'[x], decisions'[x])
    <3>1. x # s
      BY <1>4, <1>5, <2>1
    <3>2. candidates'[x] = candidates[x] /\ decisions'[x] = decisions[x]
      BY <1>2, <1>5, <3>1
    <3> QED
      BY <2>1, <3>2 DEF EvaluationInv, PassesEarned
  <2> QED
    BY <1>7, <2>1 DEF EvaluationInv, PassesEarned
<1>10. Executed'
  BY <1>2 DEF EvaluationInv, Executed
<1> QED
  BY <1>2, <1>6, <1>8, <1>9, <1>10, ResearchUntouched DEF EvaluationInv

\* A pass of the family screen says that the screen is clear as the database is
\* at the decision, not as it was when the evidence was executed.
LEMMA ScreenPassed ==
    ASSUME EvaluationInv, NEW s \in Strategies, NEW n \in Snapshots, NEW e \in executions,
           Verified(e, s, n, 1), e.report.checks
    PROVE  Clear(Screen(s))
<1>1. e.gate = 1 /\ e.snapshot = n
  BY DEF Verified
<1>2. e.report = ScreenReport(e.screen, Manifest[n].screen)
  BY <1>1, Zenon DEF EvaluationInv, Executed
<1>3. \A a, b, c : Report(a, b, c).checks = a
  BY DEF Report
<1>4. Manifest[n].screen # "none" /\ Clear(e.screen)
  <2>1. Manifest[n].screen # "none"
    BY <1>2, <1>3 DEF ScreenReport, NoPlan
  <2>2. PICK b, c : e.report = Report(Clear(e.screen) /\ ~(Manifest[n].screen = "other datasets"), b, c)
    BY <1>2, <2>1 DEF ScreenReport
  <2>3. Clear(e.screen)
    <3> SUFFICES ASSUME ~Clear(e.screen) PROVE FALSE
      OBVIOUS
    <3>1. e.report = Report(FALSE, b, c)
      BY <2>2
    <3> QED
      BY <1>3, <3>1
  <2> QED
    BY <2>1, <2>3
<1>5. e.screen = Screen(s)
  BY <1>4 DEF Verified
<1> QED
  BY <1>4, <1>5

\* Who passes the screen has declared its trial, and nobody else an equivalent one
\* nor registered the same content.
LEMMA ClearIsAlone ==
    ASSUME NEW s \in Strategies, Clear(Screen(s))
    PROVE  /\ OwnTrial(s) \in trials
           /\ \A t \in Strategies : t # s /\ Plan[t].config = Plan[s].config => OwnTrial(t) \notin trials
           /\ \A t \in Registered : t # s => Content[t] # Content[s]
<1>1. OwnTrial(s) \in trials
  BY DEF Clear, Screen, OwnTrial
<1>2. {t \in trials : t.config = Plan[s].config /\ t.strategy # s /\ ~t.retry} = {}
  BY DEF Clear, Screen
<1>3. ASSUME NEW t \in Strategies, t # s, Plan[t].config = Plan[s].config, OwnTrial(t) \in trials
      PROVE  FALSE
  <2>1. OwnTrial(t).config = Plan[s].config /\ OwnTrial(t).strategy # s /\ ~OwnTrial(t).retry
    BY <1>3 DEF OwnTrial
  <2> QED
    BY <1>2, <1>3, <2>1
<1>4. {x \in Registered \ {s} : Content[x] = Content[s]} = {}
  BY DEF Clear, Screen
<1> QED
  BY <1>1, <1>3, <1>4

\* A candidate past its first gate has passed the gate before, on the snapshot
\* it is judged on.
LEMMA EarlierGates ==
    ASSUME EvaluationInv, NEW s \in Strategies, NEW n \in Snapshots, NEW g \in 1..MaxGate,
           Undecided(s, n, g)
    PROVE  /\ candidates[s].status = "PASSED" /\ candidates[s].gate = g - 1
           /\ candidates[s].snapshot = n
           /\ GatesPassed(candidates[s], decisions[s])
           /\ g >= 2 => PassedScreen(s)
<1> DEFINE cand == candidates[s]
<1>1. MaxGate \in Nat /\ MaxVersion \in Nat
  BY EvaluationAssumption DEF EvaluationAssumption
<1>2. /\ cand.version \in 0..MaxVersion /\ cand.gate \in -1..MaxGate
      /\ cand.status \in Terminal \cup {"IDEA", "PASSED"}
  BY DEF EvaluationInv, EvaluationTypeOK
<1>3. DecidedFor(s)
  BY DEF EvaluationInv, Decided
<1>4. g = cand.gate + 1 /\ cand.status \notin Terminal /\ (cand.version > 0 => cand.snapshot = n)
  BY DEF Undecided
<1> HIDE DEF cand
<1>5. cand.gate = g - 1 /\ cand.gate >= 0
  BY <1>1, <1>2, <1>4
<1>6. cand.status = "PASSED"
  <2>1. cand.status # "IDEA"
    BY <1>3, <1>5 DEF DecidedFor, cand
  <2> QED
    BY <1>2, <1>4, <2>1
<1>7. cand.version > 0
  <2>1. /\ \E S : decisions[s] \in Seq(S)
        /\ Len(decisions[s]) <= cand.version /\ cand.gate < Len(decisions[s])
    BY <1>3, <1>6 DEF DecidedFor, cand
  <2>2. Len(decisions[s]) \in Nat
    BY <2>1
  <2> QED
    BY <1>1, <1>2, <1>5, <2>1, <2>2
<1>8. GatesPassed(cand, decisions[s])
  BY <1>6 DEF EvaluationInv, PassesEarned, cand
<1>9. g >= 2 => PassedScreen(s)
  BY <1>1, <1>5, <1>6 DEF PassedScreen, cand
<1> QED
  BY <1>4, <1>5, <1>6, <1>7, <1>8, <1>9 DEF cand

\* The history of a candidate that passes one gate more.
LEMMA OneGateMore ==
    ASSUME NEW g \in Nat, NEW v \in Nat, NEW n, NEW S, NEW old \in Seq(S), NEW row,
           PassesAt(row, g, n, v),
           NEW cand, NEW next, next.gate = g, next.version = v + 1, next.snapshot = n,
           g > 0 => /\ cand.gate = g - 1 /\ cand.version = v /\ cand.snapshot = n
                    /\ GatesPassed(cand, old) /\ g - 1 < Len(old)
    PROVE  GatesPassed(next, Append(old, row))
<1> DEFINE new == Append(old, row)
<1>1. PICK T : T = S \cup {row}
  OBVIOUS
<1>2. /\ Len(old) \in Nat /\ Len(new) = Len(old) + 1
      /\ new[Len(old) + 1] = row /\ \A i \in 1..Len(old) : new[i] = old[i]
  <2>1. old \in Seq(T) /\ row \in T
    BY <1>1
  <2> QED
    BY <2>1, AppendProperties
<1> HIDE DEF new
<1>3. ASSUME NEW k \in 0..g
      PROVE  PassesAt(new[Len(new) - g + k], k, n, v + 1 - g - 1 + k)
  <2>1. CASE k = g
    <3>1. Len(new) - g + k = Len(old) + 1 /\ v + 1 - g - 1 + k = v
      BY <1>2, <2>1
    <3> QED
      BY <1>2, <2>1, <3>1
  <2>2. CASE k # g
    <3>1. g > 0 /\ k \in 0..(g - 1)
      BY <2>2
    <3>2. PassesAt(old[Len(old) - (g - 1) + k], k, n, v - (g - 1) - 1 + k)
      BY <3>1 DEF GatesPassed
    <3>3. /\ Len(new) - g + k = Len(old) - (g - 1) + k
          /\ v + 1 - g - 1 + k = v - (g - 1) - 1 + k
          /\ Len(old) - (g - 1) + k \in 1..Len(old)
      BY <1>2, <3>1
    <3> QED
      BY <1>2, <3>2, <3>3
  <2> QED
    BY <2>1, <2>2
<1>4. GatesPassed(next, new)
  BY <1>3 DEF GatesPassed
<1> QED
  BY <1>4 DEF new

\* A decision moves one candidate by one gate.  It passes it only on a report
\* of sound inputs, executed in the state it is decided in, and lets it through
\* the screen only if no equivalent candidate has come through.
LEMMA GateSteps ==
    ASSUME EvaluationInv, NEW s \in Strategies, NEW n \in Snapshots, NEW g \in 0..MaxGate,
           NEW e \in executions, NEW bound \in BOOLEAN, gate(s, n, g, e, bound)
    PROVE  EvaluationInv'
<1>1. PICK decision : decision = Decision(e.report, Manifest[n].rules[g], bound)
  OBVIOUS
<1>2. PICK status : status = CASE decision = "PASS" -> "PASSED"
                               [] decision = "FAIL" -> "FAILED"
                               [] decision = "BLOCKED" -> "BLOCKED"
                               [] OTHER -> "BORDERLINE_FRONTIER"
  OBVIOUS
<1>3. PICK cand : cand = candidates[s]
  OBVIOUS
<1>4. PICK next : next = [version |-> cand.version + 1, snapshot |-> n, gate |-> g, status |-> status]
  OBVIOUS
<1>5. PICK row : row = [gate |-> g, snapshot |-> n, version |-> cand.version, decision |-> decision,
                        executedAt |-> e.version, report |-> e.report,
                        clear |-> g = 1 => Clear(Screen(s))]
  OBVIOUS
<1>6. /\ cand.version < MaxVersion /\ Undecided(s, n, g) /\ Verified(e, s, n, g)
      /\ candidates' = [candidates EXCEPT ![s] = next]
      /\ decisions' = [decisions EXCEPT ![s] = Append(@, row)]
      /\ cooling' = IF decision = "FAIL" THEN cooling \cup {s} ELSE cooling
      /\ UNCHANGED <<objects, trials, holdout, contaminated, snapshots, invalidated, executions>>
  BY <1>1, <1>2, <1>3, <1>4, <1>5 DEF gate, researchVars
<1>7. /\ MaxGate \in 0..5 /\ MaxVersion \in Nat /\ g \in 0..5
      /\ Parsed(Manifest[n]) /\ Manifest[n].rules[g] \in Seq(Standing)
  BY EvaluationAssumption, SMTT(30) DEF EvaluationAssumption
<1>8. cand.version \in 0..MaxVersion /\ cand.gate \in -1..MaxGate
  BY <1>3 DEF EvaluationInv, EvaluationTypeOK
<1>9. /\ next.version = cand.version + 1 /\ next.version \in 0..MaxVersion
      /\ next.snapshot = n /\ next.gate = g /\ next.status = status
  BY <1>4, <1>6, <1>7, <1>8
<1>10. status \in {"PASSED", "FAILED", "BLOCKED", "BORDERLINE_FRONTIER"} /\ (status = "PASSED" => decision = "PASS")
  BY <1>2
<1>11. \A x \in Strategies : candidates'[x] = IF x = s THEN next ELSE candidates[x]
  BY <1>6 DEF EvaluationInv, EvaluationTypeOK
<1>12. PICK old, S : old = decisions[s] /\ old \in Seq(S) /\ Len(old) <= cand.version
                     /\ (cand.status # "IDEA" => cand.gate < Len(old))
  BY <1>3 DEF EvaluationInv, Decided, DecidedFor
<1>13. \A x \in Strategies : decisions'[x] = IF x = s THEN Append(old, row) ELSE decisions[x]
  BY <1>6, <1>12 DEF EvaluationInv, Decided
<1>14. /\ Len(old) \in Nat /\ Len(Append(old, row)) = Len(old) + 1
       /\ \E R : Append(old, row) \in Seq(R)
  <2>1. PICK R : R = S \cup {row}
    OBVIOUS
  <2>2. old \in Seq(R) /\ row \in R
    BY <1>12, <2>1
  <2> QED
    BY <2>2, AppendProperties
<1>15. /\ g >= 1 => /\ cand.status = "PASSED" /\ cand.gate = g - 1 /\ cand.snapshot = n
                    /\ GatesPassed(cand, old)
       /\ g >= 2 => PassedScreen(s)
  BY <1>3, <1>6, <1>7, <1>12, EarlierGates
<1>16. decision = "PASS" => e.report.checks /\ (g = 1 => Clear(Screen(s)))
  <2>1. decision = "PASS" => e.report.checks
    BY <1>1, <1>7, PassNeedsReport
  <2>2. e.report.checks /\ g = 1 => Clear(Screen(s))
    BY <1>6, ScreenPassed
  <2> QED
    BY <2>1, <2>2
<1>17. decision = "PASS" => PassesAt(row, g, n, cand.version)
  <2> SUFFICES ASSUME decision = "PASS" PROVE PassesAt(row, g, n, cand.version)
    OBVIOUS
  <2>1. row.gate = g /\ row.decision = "PASS" /\ row.snapshot = n /\ row.version = cand.version
    BY <1>5
  <2>2. row.executedAt = row.version
    BY <1>3, <1>5, <1>6 DEF Verified
  <2>3. row.clear
    BY <1>5, <1>16
  <2>4. SoundAt(Manifest[n], g)
    <3>1. CASE g = 1
      BY <3>1 DEF SoundAt
    <3>2. CASE g # 1
      <4>1. e.gate = g /\ e.snapshot = n
        BY <1>6 DEF Verified
      <4>2. e.report = GateReport(Manifest[n], g)
        BY <3>2, <4>1, Zenon DEF EvaluationInv, Executed
      <4>3. GateReport(Manifest[n], g).checks
        BY <1>16, <4>2
      <4> QED
        BY <1>7, <3>2, <4>3, PassIsSound
    <3> QED
      BY <3>1, <3>2
  <2> QED
    BY <2>1, <2>2, <2>3, <2>4 DEF PassesAt
<1>18. EvaluationTypeOK'
  <2>1. next \in [version: 0..MaxVersion, snapshot: Snapshots \cup {None}, gate: -1..MaxGate,
                  status: Terminal \cup {"IDEA", "PASSED"}]
    BY <1>4, <1>7, <1>9, <1>10 DEF Terminal
  <2>2. candidates' \in [Strategies -> [version: 0..MaxVersion, snapshot: Snapshots \cup {None},
                                        gate: -1..MaxGate, status: Terminal \cup {"IDEA", "PASSED"}]]
    BY <1>6, <2>1 DEF EvaluationInv, EvaluationTypeOK
  <2>3. \A x \in Strategies : Len(decisions'[x]) <= MaxVersion
    <3>1. Len(Append(old, row)) <= MaxVersion
      BY <1>6, <1>7, <1>8, <1>12, <1>14
    <3> QED
      BY <1>13, <3>1 DEF EvaluationInv, EvaluationTypeOK
  <2>4. cooling' \subseteq Strategies
    BY <1>6 DEF EvaluationInv, EvaluationTypeOK
  <2> QED
    BY <1>6, <2>2, <2>3, <2>4 DEF EvaluationInv, EvaluationTypeOK
<1>19. PassedScreen(s)' => PassedScreen(s) \/ Clear(Screen(s))
  <2> SUFFICES ASSUME PassedScreen(s)' PROVE PassedScreen(s) \/ Clear(Screen(s))
    OBVIOUS
  <2>1. candidates'[s] = next
    BY <1>11
  <2>2. g >= 1 /\ (g = 1 => status = "PASSED")
    BY <1>9, <2>1 DEF PassedScreen
  <2> QED
    BY <1>7, <1>10, <1>15, <1>16, <2>2
<1>20. \A x \in Strategies : x # s => (PassedScreen(x)' <=> PassedScreen(x))
  BY <1>11 DEF PassedScreen
<1>21. Decided'
  <2>1. ASSUME NEW x \in Strategies, x # s PROVE DecidedFor(x)'
    <3>1. DecidedFor(x) /\ candidates'[x] = candidates[x] /\ decisions'[x] = decisions[x] /\ trials' = trials
      BY <1>6, <1>11, <1>13, <2>1 DEF EvaluationInv, Decided
    <3>2. PassedScreen(x)' => PassedScreen(x)
      BY <1>20, <2>1
    <3>3. Registered' = Registered
      BY <1>6 DEF Registered
    <3> QED
      BY <3>1, <3>2, <3>3, Zenon DEF DecidedFor
  <2>2. DecidedFor(s)'
    <3>1. candidates'[s] = next /\ decisions'[s] = Append(old, row) /\ trials' = trials
      BY <1>6, <1>11, <1>13
    <3>2. Len(Append(old, row)) <= next.version
      BY <1>8, <1>9, <1>12, <1>14
    <3>3. next.status # "IDEA" /\ 0 <= next.gate /\ next.gate < Len(Append(old, row))
      <4>1. g < Len(old) + 1
        <5>1. g >= 1 => g - 1 < Len(old)
          BY <1>12, <1>15
        <5> QED
          BY <1>7, <1>14, <5>1
      <4> QED
        BY <1>7, <1>9, <1>10, <1>14, <4>1
    <3>4. PassedScreen(s)' => OwnTrial(s) \in trials /\ s \in Registered
      BY <1>19, ClearIsAlone DEF EvaluationInv, Decided, DecidedFor, gate, Pinned, Registered
    <3>5. Registered' = Registered
      BY <1>6 DEF Registered
    <3> QED
      BY <1>14, <3>1, <3>2, <3>3, <3>4, <3>5, Zenon DEF DecidedFor
  <2>3. decisions' = [x \in Strategies |-> decisions'[x]]
    BY <1>6 DEF EvaluationInv, Decided
  <2> QED
    BY <2>1, <2>2, <2>3 DEF Decided
<1>22. PassesEarned'
  <2>1. ASSUME NEW x \in Strategies, candidates'[x].status = "PASSED"
        PROVE  GatesPassed(candidates'[x], decisions'[x])
    <3>1. CASE x # s
      <4>1. candidates'[x] = candidates[x] /\ decisions'[x] = decisions[x]
        BY <1>11, <1>13, <3>1
      <4> QED
        BY <2>1, <4>1 DEF EvaluationInv, PassesEarned
    <3>2. CASE x = s
      <4>1. candidates'[s] = next /\ decisions'[s] = Append(old, row)
        BY <1>11, <1>13
      <4>2. PassesAt(row, g, n, cand.version)
        BY <1>9, <1>10, <1>17, <2>1, <3>2, <4>1
      <4>3. g > 0 => /\ cand.gate = g - 1 /\ cand.snapshot = n
                     /\ GatesPassed(cand, old) /\ g - 1 < Len(old)
        BY <1>7, <1>12, <1>15
      <4>4. g \in Nat /\ cand.version \in Nat /\ old \in Seq(S)
        BY <1>7, <1>8, <1>12
      <4>5. GatesPassed(next, Append(old, row))
        BY <1>9, <4>2, <4>3, <4>4, OneGateMore
      <4> QED
        BY <3>2, <4>1, <4>5
    <3> QED
      BY <3>1, <3>2
  <2>2. ASSUME NEW x \in Strategies, x # s, Plan[x].config = Plan[s].config \/ Content[x] = Content[s],
               PassedScreen(s)', PassedScreen(x)'
        PROVE  FALSE
    <3>1. PassedScreen(x) /\ OwnTrial(x) \in trials /\ x \in Registered
      BY <1>20, <2>2 DEF EvaluationInv, Decided, DecidedFor
    <3>2. ~PassedScreen(s)
      BY <2>2, <3>1 DEF EvaluationInv, PassesEarned
    <3> QED
      BY <1>19, <2>2, <3>1, <3>2, ClearIsAlone
  <2>3. \A x, y \in Strategies :
            x # y /\ (Plan[x].config = Plan[y].config \/ Content[x] = Content[y])
                => ~(PassedScreen(x)' /\ PassedScreen(y)')
    BY <1>20, <2>2 DEF EvaluationInv, PassesEarned
  <2> QED
    BY <2>1, <2>3 DEF PassesEarned
<1>23. Executed'
  BY <1>6 DEF EvaluationInv, Executed
<1> QED
  BY <1>6, <1>18, <1>21, <1>22, <1>23, ResearchUntouched DEF EvaluationInv

-------------------------------------------------------------------------------
(* The induction. *)

\* Nothing is registered, executed or decided at the start.
LEMMA EvaluationStarts == EvaluationInit => EvaluationInv
<1> SUFFICES ASSUME EvaluationInit PROVE EvaluationInv
  OBVIOUS
<1> USE EvaluationAssumption DEF EvaluationAssumption, EvaluationInit
<1>1. EvaluationTypeOK
  BY DEF EvaluationTypeOK, NoCandidate, Exposure, Trial, Terminal
<1>2. Registered = {} /\ IsFiniteSet({})
  BY FS_EmptySet DEF Registered
<1>3. Lineage
  BY <1>2 DEF Lineage
<1>4. Executed
  BY DEF Executed
<1>5. \A s \in Strategies : candidates[s] = NoCandidate /\ decisions[s] = <<>> /\ ~PassedScreen(s)
  BY DEF PassedScreen, NoCandidate
<1>6. Decided
  <2>1. \A s \in Strategies : \E S : decisions[s] \in Seq(S)
    <3>1. <<>> \in Seq({})
      OBVIOUS
    <3> QED
      BY <1>5, <3>1
  <2> QED
    BY <1>5, <2>1 DEF Decided, DecidedFor, NoCandidate
<1>7. PassesEarned
  BY <1>5 DEF PassesEarned, NoCandidate
<1>8. SealedOnce
  BY FS_EmptySet DEF SealedOnce
<1> QED
  BY <1>1, <1>3, <1>4, <1>6, <1>7, <1>8 DEF EvaluationInv

\* Every operation of registry, holdout, verifier and evaluator keeps the invariant.
LEMMA EvaluationSteps == EvaluationInv /\ EvaluationNext => EvaluationInv'
<1> SUFFICES ASSUME EvaluationInv, EvaluationNext PROVE EvaluationInv'
  OBVIOUS
<1>1. ASSUME NEW s \in Strategies, \E parents \in SUBSET Strategies : register(s, parents)
      PROVE  EvaluationInv'
  BY <1>1, RegisterSteps
<1>2. ASSUME NEW s \in Strategies, \E family \in Families : sealed_result(s, family)
      PROVE  EvaluationInv'
  BY <1>2, SealedResultSteps
<1>3. ASSUME NEW s \in Strategies, CooldownPasses(s)
      PROVE  EvaluationInv'
  BY <1>3, SnapshotSteps
<1>4. ASSUME NEW s \in Strategies, NEW n \in Snapshots, reenter(s, n)
      PROVE  EvaluationInv'
  BY <1>4, ReenterSteps
<1>5. ASSUME NEW s \in Strategies, NEW n \in Snapshots, NEW g \in 0..MaxGate, execute(s, n, g)
      PROVE  EvaluationInv'
  BY <1>5, ExecuteSteps
<1>6. ASSUME NEW s \in Strategies, NEW n \in Snapshots, NEW g \in 0..MaxGate,
             \E e \in executions, bound \in BOOLEAN : gate(s, n, g, e, bound)
      PROVE  EvaluationInv'
  BY <1>6, GateSteps
<1>7. ASSUME NEW t \in Trial, trial(t)
      PROVE  EvaluationInv'
  BY <1>7, TrialSteps
<1>8. ASSUME NEW n \in Snapshots, snapshot(n) \/ Invalidate(n)
      PROVE  EvaluationInv'
  BY <1>8, SnapshotSteps
<1> QED
  BY <1>1, <1>2, <1>3, <1>4, <1>5, <1>6, <1>7, <1>8 DEF EvaluationNext

\* The steps of governance, model risk and reliability leave evaluation alone.
LEMMA EvaluationStutters == EvaluationInv /\ UNCHANGED evalVars => EvaluationInv'
<1> SUFFICES ASSUME EvaluationInv, UNCHANGED evalVars PROVE EvaluationInv'
  OBVIOUS
<1>1. UNCHANGED <<objects, holdout, contaminated, trials>> /\ UNCHANGED gateVars
  BY DEF evalVars, researchVars
<1>2. EvaluationTypeOK'
  BY <1>1 DEF EvaluationInv, EvaluationTypeOK, gateVars
<1> QED
  BY <1>1, <1>2, GatesUntouched, ResearchUntouched DEF EvaluationInv, Registered
-------------------------------------------------------------------------------
(* Model risk. *)

ModelRow ==
    [column: ModelStatus \cup {"NONE"}, status: ModelStatus \cup {"NONE"}, material: BOOLEAN,
     dev: SUBSET Evidence, val: SUBSET Evidence, mon: SUBSET Evidence, consumed: SUBSET Evidence,
     links: SUBSET (Evidence \X EvidenceRoles), validations: SUBSET Validations,
     challenged: SUBSET Validations, entry: ModelStatus \cup {"NONE"}, original: SUBSET Evidence]

\* ApprovedIndependently for one row; what built the model stays on record as
\* development evidence, also when later evidence is linked.
Independent(row) ==
    /\ row.status = "APPROVED" /\ row.material /\ row.entry # "APPROVED" =>
           \E v \in row.challenged : v.validator \notin Developers /\ v.evidence \cap row.original = {}
    /\ row.column \in {row.status, "WATCH"}
    /\ row.status = "RETIRED" => row.column = "RETIRED"
    /\ row.original \subseteq row.dev

ModelRiskInv == models \in [Models -> ModelRow] /\ \A m \in Models : Independent(models[m])

\* Every operation writes the row of one model.
LEMMA ModelWritten ==
    ASSUME ModelRiskInv, NEW m \in Models, NEW row \in ModelRow, Independent(row),
           models' = [models EXCEPT ![m] = row]
    PROVE  ModelRiskInv'
<1>1. \A x \in Models : models'[x] = IF x = m THEN row ELSE models[x]
  BY DEF ModelRiskInv
<1>2. models' \in [Models -> ModelRow]
  BY DEF ModelRiskInv
<1>3. \A x \in Models : Independent(models'[x])
  BY <1>1 DEF ModelRiskInv
<1> QED
  BY <1>2, <1>3 DEF ModelRiskInv

\* A registration enters its status twice and its evidence as what built the model.
LEMMA RegisterModelSteps ==
    ASSUME ModelRiskInv, NEW m \in Models, NEW entry \in Entries, register_model(m, entry)
    PROVE  ModelRiskInv'
<1>1. PICK row : row = [NoModel EXCEPT !.column = entry.status, !.status = entry.status, !.entry = entry.status,
                                       !.material = entry.material, !.dev = entry.dev, !.original = entry.dev]
  OBVIOUS
<1>2. entry \in [status: ModelStatus, material: BOOLEAN, dev: (SUBSET Evidence) \ {{}}]
  BY ModelRiskAssumption DEF ModelRiskAssumption
<1>3. row \in ModelRow
  BY <1>1, <1>2 DEF ModelRow, NoModel
<1>4. /\ row.column = entry.status /\ row.status = entry.status /\ row.entry = entry.status
      /\ row.dev = entry.dev /\ row.original = entry.dev
  BY <1>1 DEF NoModel
<1>5. Independent(row)
  BY <1>4 DEF Independent
<1>6. models' = [models EXCEPT ![m] = row]
  BY <1>1 DEF register_model, Write
<1> QED
  BY <1>3, <1>5, <1>6, ModelWritten

\* Validations and challenges are only added.
LEMMA ValidationSteps ==
    ASSUME ModelRiskInv, NEW m \in Models, NEW validation \in Validations,
           record_model_validation(m, validation) \/ record_effective_challenge(m, validation)
    PROVE  ModelRiskInv'
<1>1. PICK old : old = models[m]
  OBVIOUS
<1>2. old \in ModelRow /\ Independent(old)
  BY <1>1 DEF ModelRiskInv
<1>3. CASE record_model_validation(m, validation)
  <2>1. PICK row : row = [old EXCEPT !.validations = @ \cup {validation}]
    OBVIOUS
  <2>2. row \in ModelRow
    BY <1>2, <2>1 DEF ModelRow
  <2>3. /\ row.column = old.column /\ row.status = old.status /\ row.entry = old.entry
        /\ row.material = old.material /\ row.challenged = old.challenged
        /\ row.dev = old.dev /\ row.original = old.original
    BY <1>2, <2>1 DEF ModelRow
  <2>4. Independent(row)
    BY <1>2, <2>3 DEF Independent
  <2>5. models' = [models EXCEPT ![m] = row]
    BY <1>1, <1>3, <2>1 DEF record_model_validation
  <2> QED
    BY <2>2, <2>4, <2>5, ModelWritten
<1>4. CASE record_effective_challenge(m, validation)
  <2>1. PICK row : row = [old EXCEPT !.challenged = @ \cup {validation}]
    OBVIOUS
  <2>2. row \in ModelRow
    BY <1>2, <2>1 DEF ModelRow
  <2>3. /\ row.column = old.column /\ row.status = old.status /\ row.entry = old.entry
        /\ row.material = old.material /\ row.challenged = old.challenged \cup {validation}
        /\ row.dev = old.dev /\ row.original = old.original
    BY <1>2, <2>1 DEF ModelRow
  <2>4. Independent(row)
    BY <1>2, <2>3 DEF Independent
  <2>5. models' = [models EXCEPT ![m] = row]
    BY <1>1, <1>4, <2>1 DEF record_effective_challenge
  <2> QED
    BY <2>2, <2>4, <2>5, ModelWritten
<1> QED
  BY <1>3, <1>4

\* approve: a material model is approved on a challenged validation of somebody
\* else, on evidence disjoint from everything that built it.
LEMMA ApproveSteps ==
    ASSUME ModelRiskInv, NEW m \in Models, NEW validation \in Validations, approve(m, validation)
    PROVE  ModelRiskInv'
<1>1. PICK old : old = models[m]
  OBVIOUS
<1>2. old \in ModelRow /\ Independent(old)
  BY <1>1 DEF ModelRiskInv
<1>3. PICK links : links = old.links \cup (validation.evidence \X {"VALIDATION"})
  OBVIOUS
<1>4. PICK row : row = [old EXCEPT !.column = "APPROVED", !.status = "APPROVED", !.val = validation.evidence,
                                   !.links = links]
  OBVIOUS
<1>5. /\ validation \in old.challenged /\ assess_model_admission(old, validation)
      /\ models' = [models EXCEPT ![m] = row]
  BY <1>1, <1>2, <1>3, <1>4 DEF approve, Write, ModelRow
<1>6. validation.evidence \in SUBSET Evidence /\ links \in SUBSET (Evidence \X EvidenceRoles)
  BY <1>2, <1>3 DEF Validations, ModelRow, EvidenceRoles
<1>7. row \in ModelRow
  BY <1>2, <1>4, <1>6 DEF ModelRow, ModelStatus
<1>8. /\ row.column = "APPROVED" /\ row.status = "APPROVED" /\ row.material = old.material
      /\ row.challenged = old.challenged /\ row.dev = old.dev /\ row.original = old.original
  BY <1>2, <1>4 DEF ModelRow
<1>9. old.material => /\ validation.validator \notin Developers
                      /\ validation.evidence \cap old.original = {}
  BY <1>2, <1>5 DEF assess_model_admission, Independent
<1>10. Independent(row)
  BY <1>2, <1>5, <1>8, <1>9 DEF Independent
<1> QED
  BY <1>5, <1>7, <1>10, ModelWritten

\* Drift: GovernanceService writes the column alone, ModelRiskService both copies.
LEMMA DriftSteps ==
    ASSUME ModelRiskInv, NEW m \in Models, NEW breached \in BOOLEAN,
           governance_record_drift(m, breached) \/ record_drift(m, breached)
    PROVE  ModelRiskInv'
<1>1. PICK old : old = models[m]
  OBVIOUS
<1>2. old \in ModelRow /\ Independent(old)
  BY <1>1 DEF ModelRiskInv
<1>3. CASE models' = models
  BY <1>3 DEF ModelRiskInv
<1>4. ASSUME old.column \notin {"RETIRED", "SUSPENDED"},
             NEW row, row = [old EXCEPT !.column = "WATCH"], models' = [models EXCEPT ![m] = row]
      PROVE  ModelRiskInv'
  <2>1. row \in ModelRow
    BY <1>2, <1>4 DEF ModelRow, ModelStatus
  <2>2. /\ row.column = "WATCH" /\ row.status = old.status /\ row.entry = old.entry
        /\ row.material = old.material /\ row.challenged = old.challenged
        /\ row.dev = old.dev /\ row.original = old.original
    BY <1>2, <1>4 DEF ModelRow
  <2>3. Independent(row)
    BY <1>2, <1>4, <2>2 DEF Independent
  <2> QED
    BY <1>4, <2>1, <2>3, ModelWritten
<1>5. CASE record_drift(m, breached)
  <2>1. PICK status : status = IF breached /\ old.status \notin {"RETIRED", "SUSPENDED"} THEN "WATCH" ELSE old.status
    OBVIOUS
  <2>2. PICK row : row = [old EXCEPT !.column = status, !.status = status]
    OBVIOUS
  <2>3. models' = [models EXCEPT ![m] = row]
    BY <1>1, <1>5, <2>1, <2>2 DEF record_drift, Write
  <2>4. status \in ModelStatus \cup {"NONE"}
    BY <1>2, <2>1 DEF ModelRow, ModelStatus
  <2>5. row \in ModelRow
    BY <1>2, <2>2, <2>4 DEF ModelRow
  <2>6. /\ row.column = status /\ row.status = status /\ row.entry = old.entry
        /\ row.material = old.material /\ row.challenged = old.challenged
        /\ row.dev = old.dev /\ row.original = old.original
    BY <1>2, <2>2 DEF ModelRow
  <2>7. Independent(row)
    BY <1>2, <2>1, <2>6 DEF Independent
  <2> QED
    BY <2>3, <2>5, <2>7, ModelWritten
<1>6. CASE governance_record_drift(m, breached)
  BY <1>1, <1>3, <1>4, <1>6 DEF governance_record_drift, Write
<1> QED
  BY <1>5, <1>6

\* Linked evidence adds to what built the model or moves between the roles.
LEMMA LinkSteps ==
    ASSUME ModelRiskInv, NEW m \in Models, NEW e \in Evidence, NEW role \in EvidenceRoles,
           link_evidence(m, e, role)
    PROVE  ModelRiskInv'
<1>1. PICK old : old = models[m]
  OBVIOUS
<1>2. old \in ModelRow /\ Independent(old)
  BY <1>1 DEF ModelRiskInv
<1>3. PICK updated : updated = _updated_record(old, e, role)
  OBVIOUS
<1>4. PICK row : row = [updated EXCEPT !.links = @ \cup {<<e, role>>}]
  OBVIOUS
<1>5. models' = [models EXCEPT ![m] = row]
  BY <1>1, <1>3, <1>4 DEF link_evidence, Write
<1>6. /\ updated \in ModelRow
      /\ updated.column = old.column /\ updated.status = old.status /\ updated.entry = old.entry
      /\ updated.material = old.material /\ updated.challenged = old.challenged
      /\ old.dev \subseteq updated.dev /\ updated.original = old.original
  <2>1. CASE role = "DEVELOPMENT"
    <3>1. updated = [old EXCEPT !.dev = @ \cup {e}]
      BY <1>3, <2>1 DEF _updated_record
    <3> QED
      BY <1>2, <3>1 DEF ModelRow
  <2>2. CASE role = "VALIDATION"
    <3>1. updated = [old EXCEPT !.val = @ \cup {e}]
      BY <1>3, <2>2 DEF _updated_record
    <3> QED
      BY <1>2, <3>1 DEF ModelRow
  <2>3. CASE role = "MONITORING"
    <3>1. updated = [old EXCEPT !.mon = @ \cup {e}]
      BY <1>3, <2>3 DEF _updated_record
    <3> QED
      BY <1>2, <3>1 DEF ModelRow
  <2>4. CASE role = "DEVELOPMENT_USED"
    <3>1. updated = [old EXCEPT !.val = @ \ {e}, !.consumed = @ \cup {e}]
      BY <1>3, <2>4 DEF _updated_record
    <3> QED
      BY <1>2, <3>1 DEF ModelRow
  <2> QED
    BY <2>1, <2>2, <2>3, <2>4 DEF EvidenceRoles
<1>7. row \in ModelRow
  BY <1>4, <1>6 DEF ModelRow
<1>8. /\ row.column = updated.column /\ row.status = updated.status /\ row.entry = updated.entry
      /\ row.material = updated.material /\ row.challenged = updated.challenged
      /\ row.dev = updated.dev /\ row.original = updated.original
  BY <1>4, <1>6 DEF ModelRow
<1>9. Independent(row)
  BY <1>2, <1>6, <1>8 DEF Independent
<1> QED
  BY <1>5, <1>7, <1>9, ModelWritten

\* Retirement writes both copies of the status.
LEMMA RetireSteps ==
    ASSUME ModelRiskInv, NEW m \in Models, NEW replacement \in Models, retire(m, replacement)
    PROVE  ModelRiskInv'
<1>1. PICK old : old = models[m]
  OBVIOUS
<1>2. old \in ModelRow /\ Independent(old)
  BY <1>1 DEF ModelRiskInv
<1>3. PICK row : row = [old EXCEPT !.column = "RETIRED", !.status = "RETIRED"]
  OBVIOUS
<1>4. models' = [models EXCEPT ![m] = row]
  BY <1>1, <1>3 DEF retire, Write
<1>5. row \in ModelRow
  BY <1>2, <1>3 DEF ModelRow, ModelStatus
<1>6. row.column = "RETIRED" /\ row.status = "RETIRED" /\ row.dev = old.dev /\ row.original = old.original
  BY <1>2, <1>3 DEF ModelRow
<1>7. Independent(row)
  BY <1>2, <1>6 DEF Independent
<1> QED
  BY <1>4, <1>5, <1>7, ModelWritten

\* The inventory is empty at the start.
LEMMA ModelRiskStarts == ModelRiskInit => ModelRiskInv
<1>1. NoModel \in ModelRow /\ Independent(NoModel)
  BY DEF NoModel, ModelRow, Independent
<1> QED
  BY <1>1 DEF ModelRiskInit, ModelRiskInv

\* Every operation on the inventory keeps approvals independent.
LEMMA ModelRiskSteps == ModelRiskInv /\ ModelRiskNext => ModelRiskInv'
<1> SUFFICES ASSUME ModelRiskInv, ModelRiskNext PROVE ModelRiskInv'
  OBVIOUS
<1> QED
  BY RegisterModelSteps, ValidationSteps, ApproveSteps, DriftSteps, LinkSteps, RetireSteps DEF ModelRiskNext

-------------------------------------------------------------------------------
(* The whole system. *)

Inv == ReliabilityInv /\ GovernanceInv /\ EvaluationInv /\ ModelRiskInv

\* Each service keeps its own part and does not write the tables of the others.
LEMMA Stutters ==
    /\ ReliabilityInv /\ UNCHANGED relVars => ReliabilityInv'
    /\ GovernanceInv /\ UNCHANGED govVars => GovernanceInv'
    /\ ModelRiskInv /\ UNCHANGED models => ModelRiskInv'
<1>1. ReliabilityInv /\ UNCHANGED relVars => ReliabilityInv'
  BY DEF ReliabilityInv, ReliabilityTypeOK, FreezesStand, BreachesFreeze, RecentBreaches, relVars
<1>2. ASSUME GovernanceInv, UNCHANGED govVars PROVE GovernanceInv'
  <2>1. policies' = policies /\ proposals' = proposals /\ now' = now
    BY <1>2 DEF govVars
  <2>2. GovernanceTypeOK' /\ OneEffective'
    BY <1>2, <2>1 DEF GovernanceInv, GovernanceTypeOK, OneEffective, EffectiveVersions
  <2>3. \A p \in Proposals : Dated(proposals[p])' /\ Audited(proposals[p])' /\ Stands(proposals[p])'
    BY <1>2, <2>1 DEF GovernanceInv, Dated, Audited, Stands, Earned
  <2> QED
    BY <2>2, <2>3 DEF GovernanceInv
<1>3. ModelRiskInv /\ UNCHANGED models => ModelRiskInv'
  BY DEF ModelRiskInv
<1> QED
  BY <1>1, <1>2, <1>3

\* Reliability is read by every other service, and written by itself alone.
LEMMA OthersReadReliability ==
    GovernanceNext \/ EvaluationNext \/ ModelRiskNext => UNCHANGED relVars
<1>1. GovernanceNext => UNCHANGED relVars
  <2>1. /\ \A v, effective : register_policy(v, effective) => UNCHANGED relVars
        /\ \A v, p : activate_policy(v, p) => UNCHANGED relVars
        /\ \A v : rollback_policy(v) => UNCHANGED relVars
        /\ \A p, draft, pinned : propose(p, draft, pinned) => UNCHANGED relVars
        /\ \A p : NoticeReceived(p) => UNCHANGED relVars
        /\ DayPasses => UNCHANGED relVars
    BY DEF register_policy, activate_policy, rollback_policy, propose, NoticeReceived, DayPasses
  <2>2. \A p, row : Update(p, row) => UNCHANGED relVars
    BY DEF Update
  <2>3. /\ \A p : classify(p) \/ queue_owner_notification(p) => UNCHANGED relVars
        /\ \A p : record_owner_delivery(p) => UNCHANGED relVars
        /\ \A p, kind : record_review(p, kind) => UNCHANGED relVars
    BY <2>2, Zenon DEF classify, queue_owner_notification, record_owner_delivery, record_review
  <2>4. /\ \A p, lifecycle : record_lifecycle(p, lifecycle) => UNCHANGED relVars
        /\ \A p, kind : record_synthesis(p, kind) => UNCHANGED relVars
        /\ \A p, decision : decide(p, decision) => UNCHANGED relVars
        /\ \A p, changeSet : evaluate(p, changeSet) => UNCHANGED relVars
    BY <2>2, Zenon DEF record_lifecycle, record_synthesis, decide, evaluate
  <2> QED
    BY <2>1, <2>3, <2>4, Zenon DEF GovernanceNext
<1>2. EvaluationNext => UNCHANGED relVars
  <2>1. /\ \A s, parents : register(s, parents) => UNCHANGED relVars
        /\ \A s, family : sealed_result(s, family) => UNCHANGED relVars
        /\ \A t : trial(t) => UNCHANGED relVars
    BY DEF register, sealed_result, trial
  <2>2. /\ \A n : snapshot(n) \/ Invalidate(n) => UNCHANGED relVars
        /\ \A s : CooldownPasses(s) => UNCHANGED relVars
        /\ \A s, n : reenter(s, n) => UNCHANGED relVars
        /\ \A s, n, g : execute(s, n, g) => UNCHANGED relVars
    BY DEF snapshot, Invalidate, CooldownPasses, reenter, execute
  <2>3. \A s, n, g, e, bound : gate(s, n, g, e, bound) => UNCHANGED relVars
    BY DEF gate
  <2> QED
    BY <2>1, <2>2, <2>3 DEF EvaluationNext
<1>3. ModelRiskNext => UNCHANGED relVars
  <2>1. \A m, row : Write(m, row) => UNCHANGED relVars
    BY DEF Write
  <2>2. /\ \A m, entry : register_model(m, entry) => UNCHANGED relVars
        /\ \A m, validation : approve(m, validation) => UNCHANGED relVars
        /\ \A m, e, role : link_evidence(m, e, role) => UNCHANGED relVars
        /\ \A m, replacement : retire(m, replacement) => UNCHANGED relVars
    BY <2>1, Zenon DEF register_model, approve, link_evidence, retire
  <2>3. /\ \A m, breached : governance_record_drift(m, breached) => UNCHANGED relVars
        /\ \A m, breached : record_drift(m, breached) => UNCHANGED relVars
        /\ \A m, validation : record_model_validation(m, validation) => UNCHANGED relVars
        /\ \A m, validation : record_effective_challenge(m, validation) => UNCHANGED relVars
    BY <2>1, Zenon DEF governance_record_drift, record_drift, record_model_validation, record_effective_challenge
  <2> QED
    BY <2>2, <2>3, Zenon DEF ModelRiskNext
<1> QED
  BY <1>1, <1>2, <1>3, Zenon

\* The inductive invariant of the services that promote, over every interleaving
\* of their operations.
THEOREM Invariance == Spec => []Inv
<1>1. Init => Inv
  BY ReliabilityStarts, GovernanceStarts, EvaluationStarts, ModelRiskStarts DEF Init, Inv
<1>2. Inv /\ [Next]_vars => Inv'
  <2> SUFFICES ASSUME Inv, [Next]_vars PROVE Inv'
    OBVIOUS
  <2>1. CASE ReliabilityNext /\ UNCHANGED <<govVars, evalVars, models>>
    BY <2>1, ReliabilitySteps, Stutters, EvaluationStutters DEF Inv
  <2>2. CASE GovernanceNext /\ UNCHANGED <<evalVars, models>>
    BY <2>2, GovernanceSteps, OthersReadReliability, Stutters, EvaluationStutters DEF Inv
  <2>3. CASE EvaluationNext /\ UNCHANGED <<govVars, models>>
    BY <2>3, EvaluationSteps, OthersReadReliability, Stutters DEF Inv
  <2>4. CASE ModelRiskNext /\ UNCHANGED <<govVars, evalVars>>
    BY <2>4, ModelRiskSteps, OthersReadReliability, Stutters, EvaluationStutters DEF Inv
  <2>5. CASE UNCHANGED vars
    BY <2>5, Stutters, EvaluationStutters DEF Inv, vars
  <2> QED
    BY <2>1, <2>2, <2>3, <2>4, <2>5 DEF Next
<1> QED
  BY <1>1, <1>2, PTL DEF Spec

\* The tables of reliability, governance, evaluation and model risk keep their types.
THEOREM TypeCorrect == Spec => []TypeOK
<1>1. Inv => TypeOK
  <2>1. ModelRiskInv => ModelRiskTypeOK
    BY DEF ModelRiskInv, ModelRiskTypeOK, ModelRow
  <2> QED
    BY <2>1 DEF Inv, ReliabilityInv, GovernanceInv, EvaluationInv, TypeOK
<1> QED
  BY <1>1, Invariance, PTL

\* evaluate and the recordings around it: a classified proposal stands PROMOTED
\* only while everything it was promoted for stands, and one policy version at
\* most is effective.
THEOREM PromotionsAreEarned == Spec => []PromotionsEarned
<1>1. Inv => PromotionsEarned
  <2> SUFFICES ASSUME GovernanceInv PROVE PromotionsEarned
    BY DEF Inv
  <2>1. \A p \in Proposals : proposals[p].status = "PROMOTED" /\ proposals[p].class # "none"
                                 => Earned(proposals[p])
    BY DEF GovernanceInv, Stands
  <2>2. Cardinality(EffectiveVersions) <= 1
    <3>1. CASE EffectiveVersions = {}
      BY <3>1, FS_EmptySet
    <3>2. CASE EffectiveVersions # {}
      <4>1. PICK v : EffectiveVersions = {v}
        BY <3>2 DEF GovernanceInv, OneEffective
      <4> QED
        BY <4>1, FS_Singleton
    <3> QED
      BY <3>1, <3>2
  <2> QED
    BY <2>1, <2>2 DEF PromotionsEarned
<1> QED
  BY <1>1, Invariance, PTL

\* Evaluator.gate, reenter, execute and verify_execution: a passed gate rests on
\* the gates before it, on current evidence and on sound inputs, and of two
\* candidates with one configuration one passes the family screen.
THEOREM PassesAreEarned == Spec => []PassesEarned
<1>1. Inv => PassesEarned
  BY DEF Inv, EvaluationInv
<1> QED
  BY <1>1, Invariance, PTL

\* Research.sealed_result and register, ModelRiskService.approve and link_evidence:
\* what judges a strategy or a model is independent of what made it.
THEOREM EvidenceIsIndependent == Spec => []IndependentEvidence
<1>1. Inv => IndependentEvidence
  BY DEF Inv, EvaluationInv, ModelRiskInv, Independent, ApprovedIndependently, IndependentEvidence
<1> QED
  BY <1>1, Invariance, PTL

-------------------------------------------------------------------------------
(* Freezes. *)

\* Whatever passes a gate passes it unfrozen.
LEMMA GatesWait ==
    ASSUME EvaluationTypeOK, EvaluationNext, NEW s \in Strategies,
           candidates'[s] # candidates[s], candidates'[s].status = "PASSED"
    PROVE  ~Frozen
<1>1. candidates \in [Strategies -> [version: 0..MaxVersion, snapshot: Snapshots \cup {None},
                                     gate: -1..MaxGate, status: Terminal \cup {"IDEA", "PASSED"}]]
  BY DEF EvaluationTypeOK
<1>2. ASSUME NEW x \in Strategies, NEW n \in Snapshots, reenter(x, n) PROVE FALSE
  <2>1. \E v : candidates' = [candidates EXCEPT ![x] = [version |-> v, snapshot |-> n, gate |-> -1,
                                                        status |-> "IDEA"]]
    BY <1>2 DEF reenter
  <2> QED
    BY <1>1, <2>1
<1>3. ASSUME NEW x \in Strategies, NEW n \in Snapshots, NEW g, NEW e, NEW bound, gate(x, n, g, e, bound)
      PROVE  ~Frozen
  BY <1>3 DEF gate
<1>4. ASSUME NEW x \in Strategies, NEW n \in Snapshots, NEW g, execute(x, n, g) PROVE FALSE
  BY <1>4 DEF execute
<1>5. ASSUME NEW x \in Strategies,
             \/ \E parents \in SUBSET Strategies : register(x, parents)
             \/ \E family \in Families : sealed_result(x, family)
             \/ CooldownPasses(x)
      PROVE  FALSE
  BY <1>5 DEF register, sealed_result, CooldownPasses, gateVars
<1>6. ASSUME \E t \in Trial : trial(t) PROVE FALSE
  BY <1>6 DEF trial, gateVars
<1>7. ASSUME \E n \in Snapshots : snapshot(n) \/ Invalidate(n) PROVE FALSE
  BY <1>7 DEF snapshot, Invalidate
<1> QED
  BY <1>2, <1>3, <1>4, <1>5, <1>6, <1>7 DEF EvaluationNext

\* A proposal becomes PROMOTED, and a policy EFFECTIVE, unfrozen.
LEMMA GovernanceWaits ==
    ASSUME GovernanceInv, GovernanceNext,
           \/ \E p \in Proposals : proposals'[p].status = "PROMOTED" /\ proposals[p].status # "PROMOTED"
           \/ \E v \in Versions : policies'[v] = "EFFECTIVE" /\ policies[v] # "EFFECTIVE"
    PROVE  ~Frozen
<1>1. ASSUME NEW p \in Proposals, NEW row, Update(p, row) PROVE ~Frozen
  <2>1. row.status = "PROMOTED"
    BY <1>1 DEF Update, GovernanceInv, GovernanceTypeOK
  <2> QED
    BY <1>1, <2>1 DEF Update, Guarded
<1>2. ASSUME NEW v \in Versions,
             \/ \E effective \in BOOLEAN : register_policy(v, effective)
             \/ \E p \in Proposals : activate_policy(v, p)
             \/ rollback_policy(v)
      PROVE  ~Frozen
  <2>1. ASSUME NEW effective \in BOOLEAN, register_policy(v, effective) PROVE ~Frozen
    <3>1. effective
      BY <2>1 DEF register_policy, GovernanceInv, GovernanceTypeOK
    <3> QED
      BY <2>1, <3>1 DEF register_policy
  <2> QED
    BY <1>2, <2>1 DEF activate_policy, rollback_policy
<1>3. ASSUME NEW p \in Proposals, NEW draft \in Drafts, NEW pinned, propose(p, draft, pinned) PROVE ~Frozen
  <2>1. PICK row : row = [NoProposal EXCEPT !.status = draft.status, !.declared = draft.class,
                                     !.realMoney = draft.realMoney, !.snapshot = pinned]
    OBVIOUS
  <2>2. row.status = draft.status
    BY <2>1 DEF NoProposal
  <2>3. proposals' = [proposals EXCEPT ![p] = row] /\ policies' = policies
    BY <1>3, <2>1 DEF propose
  <2>4. draft.status = "PROMOTED"
    BY <2>2, <2>3 DEF GovernanceInv, GovernanceTypeOK
  <2> QED
    BY <1>3, <2>4 DEF propose, Guarded
<1>4. ASSUME NEW p \in Proposals, NoticeReceived(p) PROVE FALSE
  BY <1>4 DEF NoticeReceived, GovernanceInv, GovernanceTypeOK
<1>5. ASSUME NEW p \in Proposals,
             \/ classify(p) \/ queue_owner_notification(p) \/ record_owner_delivery(p)
             \/ \E kind \in ReviewKinds : record_review(p, kind)
             \/ \E phases \in LifecyclePackages, fail \in BOOLEAN, at \in 1..now :
                    record_lifecycle(p, [phases |-> phases, fail |-> fail, at |-> at])
             \/ \E kind \in Syntheses : record_synthesis(p, kind)
             \/ \E decision \in {"APPROVE", "VETO"} : decide(p, decision)
             \/ \E changeSet \in ChangeSets : evaluate(p, changeSet)
      PROVE  \E row : Update(p, row)
  BY <1>5, Zenon DEF classify, queue_owner_notification, record_owner_delivery, record_review,
                     record_lifecycle, record_synthesis, decide, evaluate
<1>6. ASSUME DayPasses PROVE FALSE
  BY <1>6 DEF DayPasses
<1> QED
  BY <1>1, <1>2, <1>3, <1>4, <1>5, <1>6 DEF GovernanceNext

\* A model becomes APPROVED unfrozen.
LEMMA ApprovalWaits ==
    ASSUME ModelRiskInv, ModelRiskNext, NEW m \in Models,
           models'[m].column = "APPROVED", models[m].column # "APPROVED"
    PROVE  ~Frozen
<1>1. ASSUME NEW x \in Models, NEW row, Write(x, row) PROVE ~Frozen
  <2>1. row.column = "APPROVED"
    BY <1>1 DEF Write, ModelRiskInv
  <2> QED
    BY <1>1, <2>1 DEF Write
<1>2. ASSUME NEW x \in Models, NEW v \in Validations,
             record_model_validation(x, v) \/ record_effective_challenge(x, v)
      PROVE  FALSE
  BY <1>2 DEF record_model_validation, record_effective_challenge, ModelRiskInv, ModelRow
<1>3. ASSUME NEW x \in Models,
             \/ \E entry \in Entries : register_model(x, entry)
             \/ \E v \in Validations : approve(x, v)
             \/ \E breached \in BOOLEAN : governance_record_drift(x, breached) \/ record_drift(x, breached)
             \/ \E e \in Evidence, role \in EvidenceRoles : link_evidence(x, e, role)
             \/ \E replacement \in Models : retire(x, replacement)
      PROVE  (\E row : Write(x, row)) \/ models' = models
  BY <1>3, Zenon DEF register_model, approve, governance_record_drift, record_drift, link_evidence, retire
<1> QED
  BY <1>1, <1>2, <1>3 DEF ModelRiskNext

\* Whoever promotes, the gates, governance or model risk, does it only while no
\* material incident is open and no indicator is in breach.
THEOREM PromotionBlocked == Spec => MaterialIncidentsBlock
<1>1. Inv /\ [Next]_vars => [Promotes => NothingMaterialOpen]_vars
  <2> SUFFICES ASSUME Inv, Next, Promotes PROVE NothingMaterialOpen
    OBVIOUS
  <2>1. SUFFICES ~Frozen
    BY <2>1, UnfrozenIsClear DEF Inv
  <2>2. CASE ReliabilityNext /\ UNCHANGED <<govVars, evalVars, models>>
    BY <2>2 DEF Promotes, govVars, evalVars, gateVars
  <2>3. CASE GovernanceNext /\ UNCHANGED <<evalVars, models>>
    <3>1. candidates' = candidates /\ models' = models
      BY <2>3 DEF evalVars, gateVars
    <3> QED
      BY <2>3, <3>1, GovernanceWaits DEF Promotes, Inv
  <2>4. CASE EvaluationNext /\ UNCHANGED <<govVars, models>>
    <3>1. proposals' = proposals /\ policies' = policies /\ models' = models
      BY <2>4 DEF govVars
    <3> QED
      BY <2>4, <3>1, GatesWait DEF Promotes, Inv, EvaluationInv
  <2>5. CASE ModelRiskNext /\ UNCHANGED <<govVars, evalVars>>
    <3>1. proposals' = proposals /\ policies' = policies /\ candidates' = candidates
      BY <2>5 DEF govVars, evalVars, gateVars
    <3> QED
      BY <2>5, <3>1, ApprovalWaits DEF Promotes, Inv
  <2> QED
    BY <2>2, <2>3, <2>4, <2>5 DEF Next
<1> QED
  BY <1>1, Invariance, PTL DEF Spec, MaterialIncidentsBlock
================================================================================

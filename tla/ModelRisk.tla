------------------------------- MODULE ModelRisk -------------------------------
(* The model inventory (src/liki/model_risk_service.py, the model operations of *)
(* governance_service.py, ModelRecord and assess_model_admission of             *)
(* governance/domain.py).  An inventory row keeps the model's status twice: in  *)
(* a column, which the promotion trigger and replacements look at, and in the   *)
(* record, which admission looks at.  Operations name the current version and   *)
(* run under one advisory lock, so each is one step.                            *)
EXTENDS Reliability

CONSTANTS Models,        \* model ids
          Principals,    \* who develops and validates
          Developers,    \* the developers of the models
          Evidence,      \* evidence artifacts
          Entries,       \* what is registered: [status, material, dev]
          MaxValidations \* bound: validations per model

VARIABLE models   \* model_inventory with model_validations, _effective_challenges and _evidence_links

ModelStatus == {"DEVELOPMENT", "SHADOW", "APPROVED", "WATCH", "SUSPENDED", "RETIRED"}
EvidenceRoles == {"DEVELOPMENT", "VALIDATION", "MONITORING", "DEVELOPMENT_USED"}

ASSUME ModelRiskAssumption ==
    /\ Developers \subseteq Principals /\ Developers # {} /\ MaxValidations \in Nat
    /\ Entries \subseteq [status: ModelStatus, material: BOOLEAN, dev: (SUBSET Evidence) \ {{}}]

Validations == [validator: Principals, evidence: SUBSET Evidence]

\* "entry" is history: what was registered.
NoModel == [column |-> "NONE", status |-> "NONE", material |-> FALSE, dev |-> {}, val |-> {}, mon |-> {},
            consumed |-> {}, links |-> {}, validations |-> {}, challenged |-> {}, entry |-> "NONE", original |-> {}]

ModelRiskTypeOK ==
    models \in [Models ->
        [column: ModelStatus \cup {"NONE"}, status: ModelStatus \cup {"NONE"}, material: BOOLEAN,
         dev: SUBSET Evidence, val: SUBSET Evidence, mon: SUBSET Evidence, consumed: SUBSET Evidence,
         links: SUBSET (Evidence \X EvidenceRoles), validations: SUBSET Validations,
         challenged: SUBSET Validations, entry: ModelStatus \cup {"NONE"}, original: SUBSET Evidence]]

ModelRiskInit == models = [m \in Models |-> NoModel]

\* ModelRecord's validator, run whenever the record is read back.  A row that
\* fails it raises in every operation that reads it.
Readable(row) == /\ row.column # "NONE"
                 /\ row.dev \cap row.val = {} /\ row.val \cap row.consumed = {}

\* freeze_model_approval looks at the column of the row being written.
Write(m, row) ==
    /\ row.column = "APPROVED" => ~Frozen
    /\ models' = [models EXCEPT ![m] = row]
    /\ UNCHANGED relVars

-------------------------------------------------------------------------------
(* GovernanceService *)

\* Any status is accepted; RETIRED comes with its date.
register_model(m, entry) ==
    /\ models[m].column = "NONE"
    /\ Write(m, [NoModel EXCEPT !.column = entry.status, !.status = entry.status, !.entry = entry.status,
                                !.material = entry.material, !.dev = entry.dev, !.original = entry.dev])

record_model_validation(m, validation) ==
    /\ Readable(models[m])
    /\ validation.validator \notin Developers
    /\ Cardinality(models[m].validations) < MaxValidations
    /\ models' = [models EXCEPT ![m].validations = @ \cup {validation}]
    /\ UNCHANGED relVars

\* A breach writes the column and leaves the record as it was.
governance_record_drift(m, breached) ==
    /\ models[m].column # "NONE"
    /\ IF breached /\ models[m].column \notin {"RETIRED", "SUSPENDED"}
       THEN Write(m, [models[m] EXCEPT !.column = "WATCH"])
       ELSE UNCHANGED <<models, relVars>>

-------------------------------------------------------------------------------
(* ModelRiskService *)

\* _updated_record: evidence consumed by a recalibration stops validating.
_updated_record(row, e, role) ==
    CASE role = "DEVELOPMENT" -> [row EXCEPT !.dev = @ \cup {e}]
      [] role = "VALIDATION" -> [row EXCEPT !.val = @ \cup {e}]
      [] role = "MONITORING" -> [row EXCEPT !.mon = @ \cup {e}]
      [] OTHER -> [row EXCEPT !.val = @ \ {e}, !.consumed = @ \cup {e}]

\* The roles an artifact already has come from the link table, which does not
\* hold the evidence of the registration.
link_evidence(m, e, role) ==
    LET row == models[m]
    IN  /\ Readable(row)
        /\ role = "VALIDATION" => row.links \cap {<<e, "DEVELOPMENT">>, <<e, "DEVELOPMENT_USED">>} = {}
        /\ role = "DEVELOPMENT_USED" => <<e, "VALIDATION">> \in row.links
        /\ Write(m, [_updated_record(row, e, role) EXCEPT !.links = @ \cup {<<e, role>>}])

record_effective_challenge(m, validation) ==
    /\ Readable(models[m])
    /\ validation \in models[m].validations \ models[m].challenged
    /\ validation.validator \notin Developers
    /\ models' = [models EXCEPT ![m].challenged = @ \cup {validation}]
    /\ UNCHANGED relVars

\* assess_model_admission: material models need evidence that neither built nor
\* recalibrated them.
\* variant: the status alone decides
assess_model_admission_Unread(row, validation) == row.status \notin {"RETIRED", "SUSPENDED", "WATCH"}

assess_model_admission(row, validation) ==
    /\ row.status \notin {"RETIRED", "SUSPENDED", "WATCH"}
    /\ row.material => /\ validation.validator \notin Developers
                       /\ validation.evidence \cap (row.dev \cup row.consumed) = {}

approve(m, validation) ==
    LET row == models[m]
    IN  /\ Readable(row)
        /\ validation \in row.challenged
        /\ assess_model_admission(row, validation)
        /\ Write(m, [row EXCEPT !.column = "APPROVED", !.status = "APPROVED", !.val = validation.evidence,
                                !.links = @ \cup (validation.evidence \X {"VALIDATION"})])

\* The status of the record is written to both places.
record_drift(m, breached) ==
    LET row == models[m]
        status == IF breached /\ row.status \notin {"RETIRED", "SUSPENDED"} THEN "WATCH" ELSE row.status
    IN  /\ Readable(row)
        /\ Write(m, [row EXCEPT !.column = status, !.status = status])

\* replacement: another model, or m itself for none.
retire(m, replacement) ==
    /\ Readable(models[m]) /\ models[m].status # "RETIRED"
    /\ replacement # m => models[replacement].column = "APPROVED"
    /\ Write(m, [models[m] EXCEPT !.column = "RETIRED", !.status = "RETIRED"])

ModelRiskNext ==
    \E m \in Models :
        \/ \E entry \in Entries : register_model(m, entry)
        \/ \E validation \in Validations :
            /\ validation.evidence # {}
            /\ \/ record_model_validation(m, validation)
               \/ record_effective_challenge(m, validation)
               \/ approve(m, validation)
        \/ \E breached \in BOOLEAN : governance_record_drift(m, breached) \/ record_drift(m, breached)
        \/ \E e \in Evidence, role \in EvidenceRoles : link_evidence(m, e, role)
        \/ \E replacement \in Models : retire(m, replacement)

-------------------------------------------------------------------------------
(* A material model whose record says APPROVED, and that was not registered so,  *)
(* has a challenged validation by somebody else than its developers, on evidence *)
(* that did not build it.  The two copies of its status differ only by a drift   *)
(* breach of GovernanceService, and never after retirement.                      *)
ApprovedIndependently ==
    \A m \in Models :
        LET row == models[m]
        IN  /\ row.status = "APPROVED" /\ row.material /\ row.entry # "APPROVED" =>
                \E v \in row.challenged : v.validator \notin Developers /\ v.evidence \cap row.original = {}
            /\ row.column \in {row.status, "WATCH"}
            /\ row.status = "RETIRED" => row.column = "RETIRED"
===============================================================================

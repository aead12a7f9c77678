---------------------------------- MODULE Gates ----------------------------------
(***************************************************************************)
(* The manual gates of a release: records of decisions, the files they     *)
(* are kept in and the checks that read them (scripts/record_gate.py,      *)
(* scripts/deploy_preflight.py, scripts/portfolio_release.py).             *)
(*                                                                         *)
(* A deliverable is known by the form of its value, the only thing the     *)
(* checks tell apart.                                                      *)
(***************************************************************************)
EXTENDS Naturals, Sequences, FiniteSets, TLC

CONSTANTS
  RecordInputs,  \* argument lists of --record
  ReviewInputs,  \* argument lists of --review-apply
  Environs,      \* process environments a check may run in
  Preflights,    \* argument lists of deploy_preflight.py
  GateFolders,   \* what var/gates may hold at the start
  MaxWrites,     \* bound on the records written
  NoFile,       \* no file, no environment
  Torn           \* the content of a file whose writing was cut short

VARIABLES
  folder,  \* the files of var/gates by the environment and gate in their name
  writes   \* how many records have been written

gateVars == <<folder, writes>>

-----------------------------------------------------------------------------
GATE_IDS == <<"M-00", "M-01", "M-02", "M-03", "M-04", "M-05", "M-06", "M-07", "M-08",
              "M-09", "M-10">>
GateId == {GATE_IDS[i] : i \in DOMAIN GATE_IDS}
STATUSES == {"complete", "waived"}
ENVIRONMENTS == {"local", "dev", "prod"}
PROTECTED_GATES == {"M-01", "M-03", "M-07", "M-08", "M-09", "M-10"}
FORBIDDEN_DELIVERABLE_KEYS == {"password", "token", "tfstate", "plan_json"}

SCOPE_REQUIREMENTS ==
  [local |-> {},
   plan  |-> {"M-01", "M-02"},
   apply |-> {"M-01", "M-02", "M-03", "M-09"},
   aws   |-> {"M-01", "M-02", "M-03", "M-05", "M-09"},
   prod  |-> GateId \ {"M-00", "M-04"}]

(* Every form but the blank one, and "secret", which is never accepted.    *)
Stated == {"account", "zeros", "region", "email", "digest", "first-apply", "yes", "no",
           "method", "root", "commercial", "owner/name", "word"}
Some(keys) == [k \in keys |-> Stated]
Yes(keys) == [k \in keys |-> {"yes"}]

(* The required deliverables of a gate and the forms validate_deliverables *)
(* accepts for each; whether the gate may be waived.                       *)
GATE_SPECS ==
  "M-00" :> [waivable |-> FALSE, required |-> Some({})] @@
  "M-01" :> [waivable |-> FALSE, required |->
               [aws_account_id |-> {"account"}, credential_method |-> {"method"},
                profile_or_role |-> Stated \ {"root"}]] @@
  "M-02" :> [waivable |-> FALSE, required |-> [primary_region |-> {"region"}]] @@
  "M-03" :> [waivable |-> FALSE, required |->
               [budget_limit |-> Stated, alert_email |-> {"email"}]
               @@ Yes({"email_subscription_confirmed", "cost_estimate_recorded"})] @@
  "M-04" :> [waivable |-> TRUE, required |-> [model_id |-> Stated \ {"commercial"}]] @@
  "M-05" :> [waivable |-> FALSE, required |->
               [github_owner_repo |-> {"owner/name"}]
               @@ Yes({"environments_configured", "oidc_allowed"})] @@
  "M-06" :> [waivable |-> TRUE, required |->
               Some({"domain_name", "dns_provider", "callback_urls"})] @@
  "M-07" :> [waivable |-> TRUE, required |->
               Some({"registration_mode", "mfa_policy", "account_recovery",
                     "first_admin_process"})] @@
  "M-08" :> [waivable |-> TRUE, required |->
               Some({"data_classification", "retention_policy", "operator_access",
                     "conversation_persistence", "deletion_export_process"})] @@
  "M-09" :> [waivable |-> FALSE, required |->
               [aws_account |-> {"account"}, aws_role |-> Stated,
                aws_region |-> {"region"}, image_digest |-> {"digest", "first-apply"}]
               @@ Yes({"plan_reviewed", "destroys_reviewed", "cost_estimate_reviewed",
                       "migration_reviewed", "dns_callbacks_reviewed"})] @@
  "M-10" :> [waivable |-> FALSE, required |->
               Some({"prod_account_or_environment", "threat_privacy_review",
                     "restore_test", "live_ai_eval", "incident_ownership",
                     "plan_and_window_approved"})]

-----------------------------------------------------------------------------
(* Records                                                                 *)

reject_forbidden_deliverables(d) ==
  /\ DOMAIN d \cap FORBIDDEN_DELIVERABLE_KEYS = {}
  /\ \A k \in DOMAIN d : d[k] # "secret"

(* A waived gate needs no deliverables, and those it has are not read.     *)
validate_deliverables(gate, d, status) ==
  /\ reject_forbidden_deliverables(d)
  /\ IF status = "waived" THEN GATE_SPECS[gate].waivable
     ELSE \A k \in DOMAIN GATE_SPECS[gate].required :
            k \in DOMAIN d /\ d[k] \in GATE_SPECS[gate].required[k]

validate_record(r) ==
  /\ r.gate \in GateId
  /\ r.status \in STATUSES /\ r.environment \in ENVIRONMENTS
  /\ r.recorded_by # "nobody"
  /\ r.gate \in PROTECTED_GATES => r.recorded_by # "agent"
  /\ r.gate = "M-09" => r.confirmed
  /\ r.status = "waived" => r.notes
  /\ ~(r.gate = "M-06" /\ r.status = "waived" /\ r.environment = "prod")
  /\ validate_deliverables(r.gate, r.deliverables, r.status)

(* Only the record of M-09 carries the confirmation.                       *)
build_record(input) == [input EXCEPT !.confirmed = input.gate = "M-09" /\ @]

(* --review-apply answers for the whole checklist.                         *)
build_apply_review(input) ==
  build_record(
    [gate |-> "M-09", status |-> "complete", environment |-> input.environment,
     recorded_by |-> input.recorded_by, notes |-> input.notes, confirmed |-> TRUE,
     deliverables |->
       [aws_account |-> input.account, aws_role |-> input.role, aws_region |-> input.region,
        image_digest |-> IF input.first_apply /\ input.image = "blank" THEN "first-apply"
                         ELSE input.image]
       @@ [k \in {"plan_reviewed", "destroys_reviewed", "cost_estimate_reviewed",
                  "migration_reviewed", "dns_callbacks_reviewed"} |-> "yes"]])

-----------------------------------------------------------------------------
(* Reading them                                                            *)

Place == ENVIRONMENTS \X GateId

(* Who records a decision: nobody is named, the name says agent, another.  *)
Recorder == {"nobody", "agent", "human"}

ASSUME GatesAssumption ==
  /\ \A input \in RecordInputs \cup ReviewInputs :
       "recorded_by" \in DOMAIN input /\ input.recorded_by \in Recorder
  /\ \A f \in GateFolders :
       DOMAIN f = Place /\ \A p \in Place :
         f[p] \in {NoFile, Torn} \/ f[p].recorded_by \in Recorder

default_output(environment, gate) == <<environment, gate>>
Index(gate) == CHOOSE i \in DOMAIN GATE_IDS : GATE_IDS[i] = gate

(* What the variables of a workflow say of the first two gates.            *)
evidence_from_env(environ) ==
  LET told == [gate \in {"M-01", "M-02"} |->
                 IF gate = "M-01" THEN environ.account = "account" /\ environ.role # "blank"
                                  ELSE environ.region = "region"]
  IN [gate \in {g \in DOMAIN told : told[g]} |->
        IF gate = "M-01"
        THEN [aws_account_id |-> environ.account, credential_method |-> "method",
              profile_or_role |-> environ.role]
        ELSE [primary_region |-> environ.region]]

Synthesized(gate, environment, deliverables) ==
  [gate |-> gate, status |-> "complete", environment |-> environment,
   recorded_by |-> "github-vars", notes |-> TRUE, confirmed |-> FALSE,
   deliverables |-> deliverables]

(* Files are read in the order of their names; a later one replaces an     *)
(* earlier one with the same gate inside, whatever its name says.          *)
ReadFrom(places) ==
  [gate \in {folder[p].gate : p \in places} |->
     folder[CHOOSE p \in places :
              /\ folder[p].gate = gate
              /\ \A q \in places : folder[q].gate = gate => Index(q[2]) <= Index(p[2])]]

(* Mutant of Files: the files of every environment.                        *)
FilesOfAll(environment) == {p \in Place : folder[p] # NoFile}

Files(environment) == {p \in Place : p[1] = environment /\ folder[p] # NoFile}

FilesValid(environment) ==
  \A p \in Files(environment) : folder[p] # Torn /\ validate_record(folder[p])

Extra(environment, environ) ==
  IF environ = NoFile THEN << >>
  ELSE LET evidence == evidence_from_env(environ)
       IN [gate \in DOMAIN evidence |-> Synthesized(gate, environment, evidence[gate])]

(* load_records: the files, then the environment for gates without a file; *)
(* anything invalid raises and ends the check.                             *)
load_records(environment, environ) ==
  LET read == ReadFrom(Files(environment))
      extra == Extra(environment, environ)
  IN [gate \in DOMAIN read \cup DOMAIN extra |->
        IF gate \in DOMAIN read THEN read[gate] ELSE extra[gate]]

LoadFails(environment, environ) ==
  \/ ~FilesValid(environment)
  \/ LET extra == Extra(environment, environ)
         read == {folder[p].gate : p \in Files(environment)}
     IN \E gate \in DOMAIN extra \ read : ~validate_record(extra[gate])

required_gates(scope, ai_provider) ==
  SCOPE_REQUIREMENTS[scope] \cup (IF ai_provider = "bedrock" THEN {"M-04"} ELSE {})

missing_gates(scope, records, ai_provider) ==
  {g \in required_gates(scope, ai_provider) :
     g \notin DOMAIN records \/ ~validate_record(records[g])}

(* check_scope finds nothing missing.                                      *)
check_scope(scope, environment, environ, ai_provider) ==
  /\ ~LoadFails(environment, environ)
  /\ missing_gates(scope, load_records(environment, environ), ai_provider) = {}

-----------------------------------------------------------------------------
(* What goes ahead                                                         *)

(* The items of deploy_preflight.py a human or the pipeline reports.       *)
ItemsPassed(p) ==
  /\ p.ci_status = "green"
  /\ p.image = "digest" \/ (p.first_apply /\ p.image = "blank")
  /\ p.frontend_artifact /\ p.openapi_snapshot
  /\ p.migration_reviewed /\ p.budget_reviewed /\ p.backup_reviewed
  /\ p.account = "account" /\ p.role # "blank" /\ p.region = "region"
  /\ p.ai_provider = "stub" \/ (p.ai_provider = "bedrock" /\ p.bedrock_model_id # "blank")

(* main passes no environment, whether or not it is called with --from-env. *)
evaluate_preflight(p) ==
  /\ ItemsPassed(p)
  /\ p.require_gates =>
       check_scope(IF p.environment = "prod" THEN "prod" ELSE "apply",
                   p.environment, NoFile, p.ai_provider)

(* refuse_release_tag lets the version 1.0.0 be tagged.                    *)
refuse_release_tag(version) ==
  version = "1.0.0" /\ check_scope("prod", "prod", NoFile, "stub")

-----------------------------------------------------------------------------
GatesInit == folder \in GateFolders /\ writes = 0

(* write_record at the place --output names, or at the default one.  A     *)
(* process that ends in write_text leaves a file that is no JSON.          *)
write_record(record, place) ==
  /\ writes < MaxWrites /\ writes' = writes + 1
  /\ \/ folder' = [folder EXCEPT ![place] = record]
     \/ folder' = [folder EXCEPT ![place] = Torn]

Record ==
  \E input \in RecordInputs :
    LET record == build_record(input)
    IN /\ validate_record(record)
       /\ \E environment \in {record.environment, "prod"} :
            write_record(record, default_output(environment, record.gate))

ReviewApply ==
  \E input \in ReviewInputs :
    LET record == build_apply_review(input)
    IN /\ input.confirm
       /\ input.require_prior =>
            /\ ~LoadFails(input.environment, input.environ)
            /\ {"M-01", "M-02", "M-03"} \subseteq
                 DOMAIN load_records(input.environment, input.environ)
       /\ validate_record(record)
       /\ write_record(record, default_output(record.environment, "M-09"))

GatesNext == Record \/ ReviewApply

GatesSpec == GatesInit /\ [][GatesNext]_gateVars

-----------------------------------------------------------------------------
(* Properties                                                              *)

(* A decision is on file for the environment: complete with its            *)
(* deliverables, or waived where that is allowed and with a reason, and    *)
(* the waived domain is not that of production unless the record names     *)
(* another environment.  Only that of a protected gate has to be a         *)
(* person's; any other may be an agent's.                                  *)
Decided(environment, gate) ==
  \E p \in Files(environment) :
    LET r == folder[p]
    IN /\ p[1] = environment /\ r # Torn /\ r.gate = gate
       /\ gate \in PROTECTED_GATES => r.recorded_by = "human"
       /\ r.status = "complete" => DOMAIN GATE_SPECS[gate].required \subseteq DOMAIN r.deliverables
       /\ r.status = "waived" =>
            /\ GATE_SPECS[gate].waivable /\ r.notes
            /\ gate = "M-06" => r.environment # "prod"

(* Whatever goes ahead rests on decisions on file for that very            *)
(* environment, after any sequence of records, reviews and interrupted     *)
(* writes, and for a protected gate on that of a person; variables of the  *)
(* process stand for the account and the region only ("They are not a      *)
(* substitute for the apply checklist", docs/GATES.md).                    *)
GatesStandForDecisions ==
  /\ \A scope \in DOMAIN SCOPE_REQUIREMENTS, environment \in ENVIRONMENTS,
        environ \in Environs :
       check_scope(scope, environment, environ, "stub") =>
         \A g \in SCOPE_REQUIREMENTS[scope] :
           Decided(environment, g) \/ (environ # NoFile /\ g \in {"M-01", "M-02"})
  /\ \A p \in Preflights :
       evaluate_preflight(p) /\ p.require_gates => Decided(p.environment, "M-09")
  /\ refuse_release_tag("1.0.0") => Decided("prod", "M-10")
=============================================================================

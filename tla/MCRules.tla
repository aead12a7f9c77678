-------------------------------- MODULE MCRules --------------------------------
(* Finite instances of the calculations: one state machine at a time grows *)
(* a file, a ledger with scenario rules, or reads a list.                  *)
EXTENDS ImportRows, Analytics, Pages, Workbook, Tools, Gates

VARIABLE about

ruleVars == <<about, fileVars, ledgerVars, pageVars, upload, request, gateVars>>

-----------------------------------------------------------------------------
Date(form, year, first, second) ==
  [form |-> form, year |-> year, first |-> first, second |-> second]
Number(digits, comma, point) ==
  [digits |-> digits, comma |-> comma, point |-> point, repeated |-> {}]

Good ==
  [period |-> Date("month", 1, 2, 0), account_code |-> "A1", account_name |-> None,
   account_type |-> None, department_code |-> "D1", department_name |-> "dep",
   cost_center_code |-> None, amount |-> Number(15, None, 1), currency |-> "MXN",
   source_reference |-> None, notes |-> None]

MCHeader == DOMAIN Good
RowWith(f, v) == [cells |-> [Good EXCEPT ![f] = v], formulas |-> {}]

MCFileRows ==
  {[cells |-> Good, formulas |-> {}],
   [cells |-> Good, formulas |-> {"notes"}],
   [cells |-> [h \in MCHeader |-> None], formulas |-> {}],
   [cells |-> [Good EXCEPT !.account_code = "A2", !.account_name = "cash"], formulas |-> {}],
   [cells |-> [Good EXCEPT !.department_code = "D2"], formulas |-> {}],
   RowWith("account_code", "A2"), RowWith("department_name", "long"),
   RowWith("period", Date("slash", 1, 13, 2)), RowWith("period", Date("slash", 1, 2, 13)),
   RowWith("period", Date("slash", 1, 31, 2)), RowWith("period", Date("month", 2, 6, 0)),
   RowWith("period", None), RowWith("amount", Number(15, 1, None)),
   RowWith("amount", [Number(150, 2, 1) EXCEPT !.repeated = {"comma"}]),
   RowWith("amount", Number(150, 2, 1)), RowWith("amount", Number(99, None, None)),
   RowWith("amount", Number(999, None, None)), RowWith("currency", "USD"),
   RowWith("currency", "pesos"), RowWith("cost_center_code", "UNASSIGNED"),
   RowWith("cost_center_code", "C1"), RowWith("cost_center_code", "long"),
   RowWith("account_type", "income"), RowWith("source_reference", "r1")}

Codes(accs, centers) ==
  [account |-> accs, department |-> {"D1"}, cost_center |-> centers]

MCFileSettings ==
  {[fields |-> CANONICAL_FIELDS, columns |-> columns, locale |-> locale, fiscal_year |-> year, start_month |-> 2,
    create_missing |-> create, known |-> Codes({"A1"}, {"UNASSIGNED"})] :
     columns \in {MCHeader, {"amount", "notes"}}, locale \in {"es", "en"}, year \in {2, None}, create \in BOOLEAN}

-----------------------------------------------------------------------------
Months == {12, 13, 14}
Amounts == {3, -2}
Types == <<"revenue", "expense">>
Values == {[n |-> 1, d |-> 2], [n |-> 1, d |-> 20], [n |-> -9, d |-> 5], [n |-> 29, d |-> 20]}

EntryOf(type, version, period, account, department, amount) ==
  [type |-> type, version |-> version, period |-> period,
   fiscal_year |-> fiscal_year_for_date(period, StartMonth), account |-> account,
   department |-> department, center |-> 1, amount |-> amount]

MCEntries ==
  {EntryOf("budget", 1, 13, 1, 1, 3), EntryOf("budget", 2, 13, 1, 1, 3),
   EntryOf("actual", None, 13, 1, 1, 3), EntryOf("budget", 1, 13, 2, 1, -2),
   EntryOf("actual", None, 13, 2, 2, 3), EntryOf("actual", None, 12, 1, 1, 3),
   EntryOf("budget", 1, 14, 1, 1, 3), EntryOf("actual", None, 14, 2, 1, -2)}

RuleOf(sequence, operation, value, from, accs) ==
  [sequence |-> sequence, operation |-> operation, value |-> value, from |-> from, to |-> 13,
   accounts |-> accs, departments |-> {}, centers |-> {}]

MCRuleSet ==
  {RuleOf(1, "percentage_change", [n |-> 1, d |-> 2], 13, {1}),
   RuleOf(2, "percentage_change", [n |-> -9, d |-> 5], 13, {}),
   RuleOf(2, "percentage_change", [n |-> 1, d |-> 20], 12, {}),
   RuleOf(1, "absolute_change", [n |-> 1, d |-> 2], 12, {1}),
   RuleOf(2, "absolute_change", [n |-> -9, d |-> 5], 12, {1}),
   RuleOf(1, "absolute_change", [n |-> 29, d |-> 20], 13, {})}

-----------------------------------------------------------------------------
MCLimits == [max_sheets |-> 2, max_rows |-> 2, max_columns |-> 2, max_cells |-> 6,
             max_cell_length |-> 3]
Comma == ","
Semicolon == ";"
MCDelimiters == <<Comma, Semicolon>>

File(extension, content, media, archive, sheets) ==
  [extension |-> extension, content |-> content, media |-> media, archive |-> archive,
   sheets |-> sheets, lines |-> [t \in {sheets[i].title : i \in DOMAIN sheets} |-> <<>>]]
One(title) == <<[title |-> title, visible |-> TRUE]>>
Both == <<[title |-> "csv", visible |-> FALSE], [title |-> "plan", visible |-> TRUE]>>

MCUploads ==
  {File("csv", "text", "text/csv", "good", One("csv")),
   File("csv", "not utf-8", Unset, "good", One("csv")),
   File("csv", "binary", Unset, "good", One("csv")),
   File("csv", "text", "application/zip", "good", One("csv")),
   File("xls", "zip", Unset, "good", One("plan")),
   File("xlsx", "zip", Unset, "macros", One("plan")),
   File("xlsx", "zip", Unset, "bomb", One("plan")),
   File("xlsx", "zip", Unset, "good", Both),
   File("xlsx", "zip", "application/zip", "good", One("plan") \o One("real"))}

MCBookLines ==
  LET xlsx == {<<>>, <<<<"x">>, <<"x">>>>, <<<<>>, <<"y">>>>,
               <<<<"=", "x">>, <<"y">>, <<"z">>>>, <<<<"x", "y", "z", "z">>>>,
               <<<<>>, <<>>, <<"z">>>>}
  IN [csv |-> {<<>>, <<"x", Comma, "y">>, <<"y", Comma, "y">>,
               <<"x", Semicolon, "y", Comma, "x">>, <<"x", Comma, "x", "y", "z", "z">>},
      xlsx |-> xlsx, xls |-> {}]

-----------------------------------------------------------------------------
Sample ==
  <<EntryOf("budget", 1, 12, 1, 1, 3), EntryOf("actual", None, 12, 2, 1, 3),
    EntryOf("budget", 1, 13, 2, 1, -2), EntryOf("budget", 1, 13, 1, 1, 3),
    EntryOf("actual", None, 13, 2, 2, 3), EntryOf("actual", None, 14, 2, 1, 3)>>

MCIsoDate == [m12 |-> 12, m13 |-> 13, m14 |-> 14]
MCDecimalText == "0.5" :> [n |-> 1, d |-> 2] @@ "-1.25" :> [n |-> -5, d |-> 4]
MCUuid == [u1 |-> 1, u2 |-> 2]
MCScopes ==
  {[AllOf(<<12, 12>>, 1, 1) EXCEPT !.accounts = {1}], AllOf(<<13, 14>>, 2, 1),
   AllOf(<<12, 14>>, 2, 1), AllOf(<<14, 14>>, 2, 2)}

JText(x) == [is |-> "string", text |-> x]
JInt(x) == [is |-> "integer", number |-> x]
JList(x) == [is |-> "array", items |-> x]
JRule(value, from, extra) ==
  [is |-> "object", fields |->
     [operation |-> JText("percentage_change"), value |-> JText(value),
      scope |-> [is |-> "object", fields |->
                   [period_from |-> JText(from), period_to |-> JText("m13")] @@ extra]]]
Arg(name, value) == [name |-> name, value |-> value]

MCArguments ==
  {Arg("fiscal_year", JInt(1)), Arg("fiscal_year", JInt(0)), Arg("fiscal_year", JText("2")),
   Arg("period_from", JText("m13")), Arg("period_from", JText("")),
   Arg("period_to", JText("m12")), Arg("period_to", JText("soon")),
   Arg("budget_version_id", JText("u2")), Arg("account_ids", JList(<<>>)),
   Arg("account_ids", JList(<<JText("u2")>>)), Arg("account_ids", JList(<<JInt(1)>>)),
   Arg("group_by", JText("department")), Arg("group_by", JText("user")),
   Arg("limit", JInt(1)), Arg("limit", JInt(11)), Arg("sort", JText("budget_amount")),
   Arg("compare_from", JText("m12")), Arg("compare_to", JText("m13")),
   Arg("compare_to", JText("soon")), Arg("baseline_type", JText("actual")),
   Arg("rules", JList(<<JRule("0.5", "m13", <<>>), JRule("-1.25", "m12", <<>>)>>)),
   Arg("rules", JList(<<JRule("0.5", "", <<>>)>>)), Arg("rules", JList(<<JRule("half", "m13", <<>>)>>)),
   Arg("rules", JList(<<JRule("0.5", "m13", [organization_id |-> JText("x")])>>)),
   Arg("sql", JText("x"))}

-----------------------------------------------------------------------------
(* Deliverables every check accepts, and the record that carries them.     *)
Fine(g) == [k \in DOMAIN GATE_SPECS[g].required |->
              CHOOSE v \in GATE_SPECS[g].required[k] : TRUE]
Signed(g, environment) ==
  [gate |-> g, status |-> "complete", environment |-> environment, recorded_by |-> "human",
   notes |-> FALSE, confirmed |-> TRUE, deliverables |-> Fine(g)]
Waived(g, environment, reason) ==
  [Signed(g, environment) EXCEPT !.status = "waived", !.notes = reason, !.deliverables = << >>]

MCRecordInputs ==
  {Signed(g, e) : g \in {"M-01", "M-06", "M-09", "M-10"}, e \in {"dev", "prod"}} \cup
  {Signed("M-02", "dev"), Signed("M-03", "dev"), Waived("M-04", "prod", TRUE),
   Waived("M-06", "dev", TRUE), Waived("M-06", "prod", TRUE), Waived("M-06", "dev", FALSE),
   Waived("M-10", "prod", TRUE),
   [Signed("M-10", "prod") EXCEPT !.recorded_by = "agent"],
   [Signed("M-01", "prod") EXCEPT !.deliverables.aws_account_id = "zeros"],
   [Signed("M-01", "prod") EXCEPT !.deliverables.profile_or_role = "secret"],
   [Signed("M-03", "dev") EXCEPT !.deliverables.cost_estimate_recorded = "no"],
   [Signed("M-09", "prod") EXCEPT !.confirmed = FALSE]}

MCEnvirons ==
  {[account |-> "account", region |-> "region", role |-> "word"],
   [account |-> "account", region |-> "region", role |-> "root"],
   [account |-> "zeros", region |-> "region", role |-> "word"]} \cup {NoFile}

MCReviewInputs ==
  [environment : {"dev", "prod"}, recorded_by : {"human", "agent"}, notes : {FALSE},
   account : {"account"}, role : {"word"}, region : {"region"},
   image : {"blank", "digest"}, first_apply : BOOLEAN, confirm : BOOLEAN,
   require_prior : BOOLEAN, environ : {CHOOSE e \in MCEnvirons : e # NoFile}]

MCPreflights ==
  [environment : {"dev", "prod"}, ci_status : {"green"}, image : {"digest"},
   first_apply : {FALSE}, frontend_artifact : {TRUE}, openapi_snapshot : {TRUE},
   migration_reviewed : BOOLEAN, budget_reviewed : {TRUE}, backup_reviewed : {TRUE},
   account : {"account"}, role : {"word"}, region : {"region"},
   ai_provider : {"stub", "bedrock"}, bedrock_model_id : {"word"}, require_gates : BOOLEAN]

(* Production lacks one or two of its records; nothing else is recorded.   *)
MCGateFolders ==
  {[p \in Place |-> IF p[1] = "prod" /\ p[2] \in SCOPE_REQUIREMENTS.prod \ gap
                    THEN [Signed(p[2], "prod") EXCEPT !.confirmed = p[2] = "M-09"]
                    ELSE NoFile] :
     gap \in {{"M-01", "M-10"}, {"M-06", "M-09"}, SCOPE_REQUIREMENTS.prod}}

-----------------------------------------------------------------------------
Init ==
  /\ about \in {"upload", "tool", "file", "ledger", "list", "gates"}
  /\ IF about = "gates" THEN GatesInit
     ELSE folder = [p \in Place |-> NoFile] /\ writes = 0
  /\ IF about = "upload" THEN UploadInit ELSE upload = CHOOSE u \in Uploads : TRUE
  /\ IF about = "file" THEN FileInit
     ELSE file = <<>> /\ settings = CHOOSE s \in FileSettings : TRUE
  /\ IF about = "tool" THEN ToolsInit /\ ledger = Sample /\ rules = <<>>
     ELSE LedgerInit /\ request = [name |-> "execute_sql", arguments |-> NoArguments]
  /\ IF about = "list" THEN PagesInit
     ELSE /\ listing = memberships /\ rows = {} /\ cursor = First
          /\ shown = <<>> /\ steady = {} /\ changes = 0

UploadNext == about = "upload" /\ AddLine /\ UNCHANGED <<about, fileVars, ledgerVars, pageVars, request, gateVars>>
ToolsNext == about = "tool" /\ AddArgument /\ UNCHANGED <<about, fileVars, ledgerVars, pageVars, upload, gateVars>>
FileNext == about = "file" /\ AddRow /\ UNCHANGED <<about, ledgerVars, pageVars, upload, request, gateVars>>
ReportsNext == about = "ledger" /\ LedgerNext /\ UNCHANGED <<about, fileVars, pageVars, upload, request, gateVars>>
ListNext == about = "list" /\ PagesNext /\ UNCHANGED <<about, fileVars, ledgerVars, upload, request, gateVars>>

ReleaseNext == about = "gates" /\ GatesNext /\ UNCHANGED <<about, fileVars, ledgerVars, pageVars, upload, request>>

Next == UploadNext \/ ToolsNext \/ FileNext \/ ReportsNext \/ ListNext \/ ReleaseNext

Spec == Init /\ [][Next]_ruleVars
=============================================================================

------------------------------- MODULE ImportRows ------------------------------
(***************************************************************************)
(* From the lines of a file to the rows an import may write, and the       *)
(* issues that keep it from doing so (adapters/parsing.py,                 *)
(* row_normalization.py, domain/importing.py, ImportService._collect_rows, *)
(* preview and _to_entry).                                                 *)
(*                                                                         *)
(* A cell is what its text is to the code: None (blank), a name, a text    *)
(* that is too long, a date, a number.  Issues come without their wording. *)
(***************************************************************************)
EXTENDS Money, SequencesExt

CONSTANTS
  Header,       \* columns, called by the field they are mapped to, or as they are
  FileRows,     \* rows a file may have: [cells |-> [Header -> cell], formulas |-> SUBSET Header]
  FileSettings, \* what else validation depends on
  Overlong,     \* texts longer than their field allows
  Functional,   \* the organization's currency
  Currencies,   \* texts that are a currency
  MaxRows       \* bound: rows of a file

VARIABLES
  file,      \* the rows of the file, in order
  settings   \* of the job and of the organization

fileVars == <<file, settings>>

CANONICAL_FIELDS ==
  {"period", "account_code", "account_name", "account_type", "department_code",
   "department_name", "cost_center_code", "cost_center_name", "amount", "currency",
   "source_reference"}

REQUIRED_FIELDS == {"period", "account_code", "department_code", "amount", "currency"}
Dimensions == {"account", "department", "cost_center"}

(* Fields mapped, columns the file has, amount locale, fiscal year of the  *)
(* version (None for actuals), create_missing_dimensions; the codes the    *)
(* organization has.  Nothing asks whether the file has a mapped column.   *)
validate_mapping(fields) ==
  REQUIRED_FIELDS \subseteq fields /\ fields \subseteq CANONICAL_FIELDS

ASSUME FileAssumption ==
  /\ MaxRows \in Nat
  /\ \A s \in FileSettings :
       /\ DOMAIN s = {"fields", "columns", "locale", "fiscal_year", "start_month",
                      "create_missing", "known"}
       /\ validate_mapping(s.fields) /\ s.columns \subseteq Header
       /\ s.locale \in {"es", "en"} /\ s.create_missing \in BOOLEAN
       /\ DOMAIN s.known = Dimensions
  /\ \A row \in FileRows : IsFiniteSet(row.formulas)

-----------------------------------------------------------------------------
(* One row: normalize_row.                                                 *)
mapped_value(row, s, field) ==
  IF field \in s.fields \cap s.columns THEN row.cells[field] ELSE None

Blank(row, s) == \A field \in s.fields : mapped_value(row, s, field) = None

_issue(field, code) == [field |-> field, code |-> code, severity |-> "error"]
Warning(field, code) == [field |-> field, code |-> code, severity |-> "warning"]

IssueIf(condition, field, code) == IF condition THEN {_issue(field, code)} ELSE {}

Missing(row, s) ==
  {_issue(f, "MISSING_COLUMN") : f \in {g \in REQUIRED_FIELDS : mapped_value(row, s, g) = None}}

InYear(month, s) ==
  s.fiscal_year # None => period_in_fiscal_year(month, s.fiscal_year, s.start_month)

period_issues(row, s) ==
  LET text == mapped_value(row, s, "period")
      parsed == parse_period_start(text)
  IN IssueIf(text # None /\ (parsed.error # "no" \/ ~InYear(parsed.value, s)),
             "period", "INVALID_PERIOD")

AmountOf(row, s) == parse_mapped_amount(row.cells["amount"], s.locale)

amount_issues(row, s) ==
  IssueIf(mapped_value(row, s, "amount") # None /\ AmountOf(row, s).error # "no",
          "amount", "INVALID_AMOUNT")

(* As if any currency were the organization's.                             *)
currency_issues_unmatched(row, s) ==
  LET text == mapped_value(row, s, "currency")
  IN IssueIf(text # None /\ text \notin Currencies, "currency", "INVALID_CURRENCY")

currency_issues(row, s) ==
  LET text == mapped_value(row, s, "currency")
  IN IssueIf(text # None /\ text # Functional, "currency", "INVALID_CURRENCY")

(* _bounded_code and _bounded_text.                                        *)
BoundedFields(s) == s.fields \ {"period", "amount", "currency", "account_type"}

_bounded(row, s) ==
  {_issue(f, "TEXT_TRUNCATION") : f \in {g \in BoundedFields(s) : mapped_value(row, s, g) \in Overlong}}

account_type_issues(row, s) ==
  LET text == mapped_value(row, s, "account_type")
  IN IssueIf(text # None /\ text \notin AccountType, "account_type", "MISSING_COLUMN")

center_warnings(row, s) ==
  IF mapped_value(row, s, "cost_center_code") = None
  THEN {Warning("cost_center_code", "EMPTY_OPTIONAL_VALUE")} ELSE {}

(* What no handler in normalize_row catches: an overlong cost center is    *)
(* looked up again after its issue is recorded, and the decimal context    *)
(* gives up on a number with more digits than it keeps.                    *)
Raises(row, s) ==
  /\ row.formulas = {} /\ ~Blank(row, s)
  /\ \/ mapped_value(row, s, "cost_center_code") \in Overlong
     \/ /\ mapped_value(row, s, "amount") # None
        /\ AmountOf(row, s).error = "decimal.InvalidOperation"

Item(row, s) ==
  [period |-> parse_period_start(row.cells["period"]).value,
   account |-> row.cells["account_code"], account_name |-> mapped_value(row, s, "account_name"),
   department |-> row.cells["department_code"],
   department_name |-> mapped_value(row, s, "department_name"),
   cost_center |-> IF mapped_value(row, s, "cost_center_code") = None
                   THEN "UNASSIGNED" ELSE row.cells["cost_center_code"],
   amount |-> AmountOf(row, s).value, reference |-> mapped_value(row, s, "source_reference")]

(* A formula in any column, mapped or not, drops the row.                  *)
normalize_row(row, s) ==
  IF row.formulas # {}
  THEN [item |-> None, issues |-> {_issue(h, "FORMULA_NOT_ALLOWED") : h \in row.formulas}]
  ELSE IF Blank(row, s)
  THEN [item |-> None, issues |-> {Warning("row", "EMPTY_OPTIONAL_VALUE")}]
  ELSE LET errors == Missing(row, s) \cup period_issues(row, s) \cup amount_issues(row, s)
                     \cup currency_issues(row, s) \cup _bounded(row, s)
                     \cup account_type_issues(row, s)
       IN [item |-> IF errors = {} THEN Item(row, s) ELSE None,
           issues |-> errors \cup center_warnings(row, s)]

-----------------------------------------------------------------------------
(* A file: _collect_rows.                                                  *)
duplicate_key(item) ==
  <<item.period, item.account, item.department, item.cost_center, item.amount, item.reference>>

Absent(item, s, d) == item[d] \notin s.known[d]

NameField == [account |-> "account_name", department |-> "department_name"]
CodeField == [account |-> "account_code", department |-> "department_code",
              cost_center |-> "cost_center_code"]
UnknownCode == [account |-> "UNKNOWN_ACCOUNT", department |-> "UNKNOWN_DEPARTMENT",
                cost_center |-> "UNKNOWN_COST_CENTER"]

(* As if creating a dimension took no name.                                *)
dimension_issues_unnamed(item, s) ==
  {IF s.create_missing THEN Warning(CodeField[d], UnknownCode[d])
   ELSE _issue(CodeField[d], UnknownCode[d]) : d \in {e \in Dimensions : Absent(item, s, e)}}

(* Only accounts and departments need a name to be created.                *)
_dimension_issues(item, s) ==
  {IF s.create_missing /\ d \in DOMAIN NameField /\ item[NameField[d]] = None
   THEN _issue(NameField[d], "MISSING_COLUMN")
   ELSE IF s.create_missing THEN Warning(CodeField[d], UnknownCode[d])
   ELSE _issue(CodeField[d], UnknownCode[d]) : d \in {e \in Dimensions : Absent(item, s, e)}}

HasError(issues) == \E x \in issues : x.severity = "error"

Placed(i, issues) == {[row |-> i, issue |-> x] : x \in issues}

(* Blank rows after the last row with data are passed over in silence.     *)
LastData(rows, s) ==
  LET data == {i \in DOMAIN rows : rows[i].formulas # {} \/ ~Blank(rows[i], s)}
  IN IF data = {} THEN 0 ELSE Max(data)

CollectOne(so_far, i, rows, s) ==
  LET row == normalize_row(rows[i], s)
      placed == [so_far EXCEPT !.issues = @ \cup Placed(i, row.issues)]
  IN IF i > LastData(rows, s) THEN so_far
     ELSE IF row.item = None THEN placed
     ELSE IF duplicate_key(row.item) \in so_far.seen
     THEN [placed EXCEPT !.issues = @ \cup Placed(i, {_issue("row", "DUPLICATE_ROW")})]
     ELSE LET unknown == _dimension_issues(row.item, s)
              checked == [placed EXCEPT !.issues = @ \cup Placed(i, unknown),
                                        !.seen = @ \cup {duplicate_key(row.item)}]
          IN IF HasError(unknown) THEN checked
             ELSE [checked EXCEPT !.normalized = Append(@, [row |-> i, item |-> row.item])]

_collect_rows(rows, s) ==
  FoldLeft(LAMBDA so_far, i : CollectOne(so_far, i, rows, s),
           [normalized |-> <<>>, issues |-> {}, seen |-> {}], [i \in DOMAIN rows |-> i])

group_import_issues(issues) ==
  LET kind(x) == [code |-> x.issue.code, severity |-> x.issue.severity]
  IN [k \in {kind(x) : x \in issues} |-> Cardinality({x \in issues : kind(x) = k})]

-----------------------------------------------------------------------------
(* The preview: pages of normalized rows, and how many codes the rows up   *)
(* to the first one past the page would add.                               *)
PreviewRows(normalized, offset, limit) ==
  LET upto == offset + limit
  IN SubSeq(normalized, offset + 1, IF Len(normalized) > upto THEN upto ELSE Len(normalized))

NewCodes(normalized, d, offset, limit, s) ==
  LET seen == {i \in DOMAIN normalized : i <= offset + limit + 1}
  IN Cardinality({normalized[i].item[d] : i \in seen} \ s.known[d])

(* Applying: _to_entry resolves the dimensions of a row, and creates those *)
(* that are missing; an account cannot be created without a name.          *)
_resolve(known, item) ==
  [d \in Dimensions |-> known[d] \cup {item[d]}]

_to_entry(so_far, placed) ==
  IF so_far.failed \/ (placed.item.account \notin so_far.known.account
                       /\ placed.item.account_name = None)
  THEN [so_far EXCEPT !.failed = TRUE]
  ELSE [so_far EXCEPT !.known = _resolve(@, placed.item), !.entries = @ + 1]

Applied(normalized, s) ==
  FoldLeft(_to_entry, [known |-> s.known, failed |-> FALSE, entries |-> 0], normalized)

-----------------------------------------------------------------------------
FileInit == file = <<>> /\ settings \in FileSettings

AddRow ==
  /\ Len(file) < MaxRows
  /\ \E row \in FileRows : file' = Append(file, row)
  /\ UNCHANGED settings

FileSpec == FileInit /\ [][AddRow]_fileVars

-----------------------------------------------------------------------------
(* What makes a row fit to be written, in one place.                       *)
Sound(row, s) ==
  /\ row.formulas = {}
  /\ \A f \in REQUIRED_FIELDS : mapped_value(row, s, f) # None
  /\ parse_period_start(row.cells["period"]).error = "no"
  /\ InYear(parse_period_start(row.cells["period"]).value, s)
  /\ AmountOf(row, s).error = "no"
  /\ row.cells["currency"] = Functional
  /\ \A f \in BoundedFields(s) : mapped_value(row, s, f) \notin Overlong
  /\ mapped_value(row, s, "account_type") \in AccountType \cup {None}

(* None is none of the values: no row that is read is taken for no row.    *)
ASSUME RowAssumption ==
  \A row \in FileRows, s \in FileSettings : Sound(row, s) => Item(row, s) # None

FirstOfItsKey(i) ==
  \A j \in 1..(i - 1) :
    Sound(file[j], settings) =>
      duplicate_key(Item(file[j], settings)) # duplicate_key(Item(file[i], settings))

Resolvable(item, s) ==
  \A d \in Dimensions :
    Absent(item, s, d) =>
      s.create_missing /\ (d \in DOMAIN NameField => item[NameField[d]] # None)

Fit(i) ==
  /\ Sound(file[i], settings)
  /\ FirstOfItsKey(i)
  /\ Resolvable(Item(file[i], settings), settings)

Aborted == \E i \in DOMAIN file : Raises(file[i], settings)
Collected == _collect_rows(file, settings)

(* The three things that may become of a row.                              *)
EachRowOnce(written, issues) ==
  /\ written = {i \in DOMAIN file : Fit(i)}
  /\ \A i \in DOMAIN file :
       LET errors == {x \in issues : x.row = i /\ x.issue.severity = "error"}
       IN IF file[i].formulas = {} /\ Blank(file[i], settings)
          THEN /\ errors = {}
               /\ (\E x \in issues : x.row = i) <=> LastData(file, settings) > i
          ELSE (i \in written) <=> (errors = {})

InFileOrder(normalized) ==
  \A j, k \in DOMAIN normalized : j < k => normalized[j].row < normalized[k].row

(* Groups of issues and pages of rows.                                     *)
PreviewShowsAll(normalized, issues) ==
  /\ LET grouped == group_import_issues(issues)
     IN MapThenSumSet(LAMBDA k : grouped[k], DOMAIN grouped) = Cardinality(issues)
  /\ PreviewRows(normalized, 0, 1) \o PreviewRows(normalized, 1, MaxRows) = normalized

(* Validation loses no row: each one is written, or is reported with an    *)
(* error, or has nothing in it, which is reported too unless nothing       *)
(* follows it; and what is written is what is fit to be.  The preview's    *)
(* groups count every issue and its pages show every row.  All unless one  *)
(* row aborts the whole: a cost center or a number beyond bounds that      *)
(* become no issue.  (normalize_row, _collect_rows, preview.)              *)
RowsAccounted ==
  ~Aborted =>
    \A c \in {Collected} :
      /\ EachRowOnce({c.normalized[k].row : k \in DOMAIN c.normalized}, c.issues)
      /\ InFileOrder(c.normalized)
      /\ PreviewShowsAll(c.normalized, c.issues)

Growths(s, items) ==
  {[s EXCEPT !.known = k] :
     k \in {[d \in Dimensions |-> IF d = e THEN s.known[d] \cup more ELSE s.known[d]] :
              e \in Dimensions,
              more \in SUBSET {item[d] : item \in items, d \in Dimensions}}}

(* A file without errors can be applied when its turn comes, in full, also *)
(* if dimensions were added meanwhile by hand or by other imports; it adds *)
(* the codes the preview announced, if the preview's page reached its end. *)
(* (validate, preview and _apply call _collect_rows at different times.)   *)
StaysApplicable ==
  ~Aborted =>
    \A c \in {Collected} :
      (\A x \in c.issues : x.issue.severity = "warning") =>
        /\ \A s \in Growths(settings, {placed.item : placed \in Range(c.normalized)}) :
             LET later == _collect_rows(file, s)
                 done == Applied(c.normalized, s)
             IN /\ later.normalized = c.normalized
                /\ \A x \in later.issues : x.issue.severity = "warning"
                /\ ~done.failed /\ done.entries = Len(c.normalized)
        /\ \A d \in Dimensions :
             Cardinality(Applied(c.normalized, settings).known[d] \ settings.known[d])
               = NewCodes(c.normalized, d, 0, MaxRows, settings)
=============================================================================

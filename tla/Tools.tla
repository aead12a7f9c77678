--------------------------------- MODULE Tools ---------------------------------
(***************************************************************************)
(* The tools the copilot lets its provider call, and what it makes of the  *)
(* arguments the provider sends (domain/tools.py, ConversationService's    *)
(* _query_from_tool_args and _run_tool).                                   *)
(*                                                                         *)
(* JSON is [is, text], [is, number], [is, items] or [is, fields]; the texts *)
(* that are first days of months and ids are those of IsoDate and Uuid.    *)
(* The ledger is that of Analytics, and stays.                             *)
(***************************************************************************)
EXTENDS Analytics

CONSTANTS
  IsoDate,         \* texts date.fromisoformat reads, and their months
  DecimalText,     \* texts Decimal reads, and the fractions [n, d] they stand for
  Uuid,            \* texts UUID reads, and the numbers they stand for
  AiMaxResultRows, \* settings.ai_max_result_rows
  Scopes,          \* scopes of questions
  Arguments,       \* argument names and values a provider may send: [name, value]
  MaxArguments     \* bound: arguments of a request

ASSUME ToolsAssumption ==
  /\ AiMaxResultRows \in Nat \ {0} /\ MaxArguments \in Nat
  /\ \A text \in DOMAIN IsoDate : IsoDate[text] \in Month
  /\ Scopes \subseteq Query
  /\ \A a \in Arguments :
       /\ a.value.is = "array" => a.value.items \in Seq(ToSet(a.value.items))
       /\ a.value.is = "integer" => a.value.number \in Int

VARIABLE request  \* the name of a tool and arguments, an object of JSON

-----------------------------------------------------------------------------
(* Schemas.                                                                *)
Text == [type |-> "string", enum |-> None]
OneOf(texts) == [type |-> "string", enum |-> texts]
Whole(minimum, maximum) == [type |-> "integer", minimum |-> minimum, maximum |-> maximum]
ListOf(schema) == [type |-> "array", items |-> schema]

_object_schema(properties, required) ==
  [type |-> "object", properties |-> properties, required |-> required]

_SCOPE_PROPERTIES ==
  [fiscal_year |-> Whole(None, None), period_from |-> Text, period_to |-> Text,
   budget_version_id |-> Text, account_ids |-> ListOf(Text),
   department_ids |-> ListOf(Text), cost_center_ids |-> ListOf(Text)]

_RULE_SCOPE_SCHEMA ==
  _object_schema([period_from |-> Text, period_to |-> Text, account_ids |-> ListOf(Text),
                  department_ids |-> ListOf(Text), cost_center_ids |-> ListOf(Text)],
                 {"period_from", "period_to"})

RuleSchema ==
  _object_schema([operation |-> OneOf({"percentage_change", "absolute_change"}),
                  value |-> Text, sequence |-> Whole(None, None),
                  scope |-> _RULE_SCOPE_SCHEMA], {"operation", "value", "scope"})

GroupBy == OneOf({"account", "department", "cost_center", "period"})

SortBy == OneOf({"variance_amount", "absolute_variance", "budget_amount", "actual_amount"})

built_in_tools ==
  [get_variance_summary |-> [more |-> <<>>, row_budget |-> 1],
   get_variance_breakdown |->
     [more |-> [group_by |-> GroupBy, sort |-> SortBy, limit |-> Whole(1, 20)], row_budget |-> 20],
   get_top_unfavorable_variances |->
     [more |-> [group_by |-> GroupBy, limit |-> Whole(1, 10)], row_budget |-> 10],
   compare_periods |-> [more |-> [compare_from |-> Text, compare_to |-> Text], row_budget |-> 2],
   calculate_scenario_preview |->
     [more |-> [baseline_type |-> OneOf({"budget", "actual"}), rules |-> ListOf(RuleSchema)],
      row_budget |-> 50]]

(* None stands for a bound or an enumeration a schema does not have.       *)
ASSUME NoneAssumption ==
  /\ None \notin 1..20
  /\ None \notin {GroupBy.enum, SortBy.enum, {"budget", "actual"}}

(* The fields of both; those of the first where they have the same name.   *)
Merged(f, g) ==
  [k \in DOMAIN f \cup DOMAIN g |-> IF k \in DOMAIN f THEN f[k] ELSE g[k]]

input_schema(name) ==
  _object_schema(Merged(_SCOPE_PROPERTIES, built_in_tools[name].more), {})

-----------------------------------------------------------------------------
_assert_enum(schema, value) == schema.enum # None => value \in schema.enum

_assert_bounds(schema, value) ==
  /\ schema.minimum # None => value >= schema.minimum
  /\ schema.maximum # None => value <= schema.maximum

(* What a schema asks of a value, but for the values inside it.            *)
Fits(schema, v) ==
  /\ v.is = schema.type
  /\ v.is = "string" => _assert_enum(schema, v.text)
  /\ v.is = "integer" => _assert_bounds(schema, v.number)
  /\ v.is = "object" => /\ DOMAIN v.fields \subseteq DOMAIN schema.properties
                        /\ schema.required \subseteq DOMAIN v.fields

(* The values inside a value, each with its schema.                        *)
Inside(schema, v) ==
  CASE v.is = "array" -> {<<schema.items, v.items[i]>> : i \in DOMAIN v.items}
    [] v.is = "object" -> {<<schema.properties[k], v.fields[k]>> : k \in DOMAIN v.fields}
    [] OTHER -> {}

Below(pairs) ==
  UNION {Inside(p[1], p[2]) : p \in {x \in pairs : Fits(x[1], x[2])}}

(* Level by level; the schemas have six.  What it returns is the value     *)
(* itself: what a schema does not name is refused.                         *)
Nesting == 0..5

validate_closed_schema(schema, v) ==
  LET level[depth \in Nesting] ==
        IF depth = 0 THEN {<<schema, v>>} ELSE Below(level[depth - 1])
  IN \A depth \in Nesting : \A p \in level[depth] : Fits(p[1], p[2])

(* An organization the provider names is not listened to.                  *)
Payload(arguments) ==
  [arguments EXCEPT !.fields = Restrict(@, DOMAIN @ \ {"organization_id"})]

validate_arguments(name, arguments) ==
  validate_closed_schema(input_schema(name), Payload(arguments))

-----------------------------------------------------------------------------
(* What is empty or zero counts as not given.                              *)
Given(args, name) ==
  /\ name \in DOMAIN args
  /\ CASE args[name].is = "string" -> args[name].text # ""
       [] args[name].is = "integer" -> args[name].number # 0
       [] args[name].is = "array" -> args[name].items # <<>>

Dates(args) == {args[n].text : n \in {k \in {"period_from", "period_to"} : Given(args, k)}}

_uuid_list(args, name) ==
  IF Given(args, name) THEN {args[name].items[i].text : i \in DOMAIN args[name].items} ELSE {}

Ids(args) ==
  UNION {_uuid_list(args, n) : n \in {"account_ids", "department_ids", "cost_center_ids"}}
    \cup {args[n].text : n \in {k \in {"budget_version_id"} : Given(args, k)}}

Readable(args) == Dates(args) \subseteq DOMAIN IsoDate /\ Ids(args) \subseteq DOMAIN Uuid

(* The scope of the question, with what the provider gives instead.        *)
_query_from_tool_args(base, args) ==
  LET month(name, else) == IF Given(args, name) THEN IsoDate[args[name].text] ELSE else
      ids(name, else) ==
        IF Given(args, name) THEN {Uuid[text] : text \in _uuid_list(args, name)} ELSE else
  IN [fiscal_year |-> IF Given(args, "fiscal_year") THEN args["fiscal_year"].number
                      ELSE base.fiscal_year,
      from |-> month("period_from", base.from), to |-> month("period_to", base.to),
      version |-> IF Given(args, "budget_version_id") THEN Uuid[args["budget_version_id"].text]
                  ELSE base.version,
      accounts |-> ids("account_ids", base.accounts),
      departments |-> ids("department_ids", base.departments),
      centers |-> ids("cost_center_ids", base.centers)]

-----------------------------------------------------------------------------
Succeeded(scope, payload) == [status |-> "succeeded", scope |-> scope, payload |-> payload]
Rejected == [status |-> "rejected"]   \* a DomainError
Failed == [status |-> "failed"]       \* any other exception

argument(args, name, else) ==
  IF name \notin DOMAIN args THEN else
  ELSE IF args[name].is = "integer" THEN args[name].number ELSE args[name].text

AtMost(a, b) == IF a < b THEN a ELSE b

(* February of the first month's calendar year, unless both are given.     *)
_compare_range(scoped, args) ==
  IF Given(args, "compare_from") /\ Given(args, "compare_to")
  THEN [from |-> args["compare_from"].text, to |-> args["compare_to"].text]
  ELSE LET february == CHOOSE t \in DOMAIN IsoDate : IsoDate[t] = MonthAt(Year(scoped.from), 2)
       IN [from |-> february, to |-> february]

(* As if ranges that share one month did not overlap.                      *)
ranges_overlap_strictly(a, b, c, d) == a < d /\ c < b

_ranges_overlap(a, b, c, d) == a <= d /\ c <= b

_period_change(compared) ==
  [actual |-> compared.comparison.actual - compared.baseline.actual,
   variance |-> compared.comparison.variance - compared.baseline.variance]

(* Ranges that overlap: the first one shrinks to its first month.          *)
RunCompare(scoped, args) ==
  LET range == _compare_range(scoped, args)
      from == IsoDate[range.from]
      to == IsoDate[range.to]
      left == IF _ranges_overlap(scoped.from, scoped.to, from, to)
              THEN [scoped EXCEPT !.to = scoped.from] ELSE scoped
      compared == compare_periods(left, from, to)
  IN IF {range.from, range.to} \subseteq DOMAIN IsoDate
     THEN IF _ranges_overlap(left.from, left.to, from, to) \/ from > to THEN Rejected
          ELSE Succeeded(left, [compared |-> compared, change |-> _period_change(compared),
                                other |-> [left EXCEPT !.from = from, !.to = to]])
     ELSE Failed

RunBreakdown(scoped, args) ==
  LET items == sort_breakdown_items(_breakdown_items(scoped, argument(args, "group_by", "account")),
                                    argument(args, "sort", "absolute_variance"), "desc")
      limit == AtMost(argument(args, "limit", 20), AiMaxResultRows)
  IN Succeeded(scoped, SubSeq(items, 1, AtMost(Len(items), limit)))

(* Each one's share of the sum of those listed.                            *)
_with_contribution(items) ==
  LET total == SumFunction([i \in DOMAIN items |-> Magnitude(items[i].metrics.variance)])
  IN [i \in DOMAIN items |->
        [item |-> items[i],
         contribution |-> IF total = 0 THEN None
                          ELSE RoundHalfEven(Magnitude(items[i].metrics.variance) * RatioUnit,
                                             total)]]

RunTop(scoped, args) ==
  Succeeded(scoped,
    _with_contribution(top_unfavorable(scoped, argument(args, "group_by", "account"),
                                       argument(args, "limit", 10))))

parse_rule(payload) ==
  LET f == payload.fields
  IN [sequence |-> argument(f, "sequence", 1), operation |-> f.operation.text,
      value |-> DecimalText[f.value.text], from |-> IsoDate[f.scope.fields.period_from.text],
      to |-> IsoDate[f.scope.fields.period_to.text],
      accounts |-> {Uuid[t] : t \in _uuid_list(f.scope.fields, "account_ids")},
      departments |-> {Uuid[t] : t \in _uuid_list(f.scope.fields, "department_ids")},
      centers |-> {Uuid[t] : t \in _uuid_list(f.scope.fields, "cost_center_ids")}]

(* The first months of a preview, as many as the tool may tell.            *)
FirstMonths(payload, budget) ==
  [payload EXCEPT
     !.monthly = Restrict(@, {m \in DOMAIN @ : Cardinality({k \in DOMAIN @ : k < m}) < budget})]

(* A rule whose dates or value are no dates or no number raises.           *)
RunPreview(scoped, args) ==
  LET list == IF "rules" \in DOMAIN args THEN args["rules"].items ELSE <<>>
      readable(p) == /\ p.fields.value.text \in DOMAIN DecimalText
                     /\ Readable(p.fields.scope.fields)
                     /\ \A n \in {"period_from", "period_to"} : Given(p.fields.scope.fields, n)
      parsed == [i \in DOMAIN list |-> parse_rule(list[i])]
  IN IF \E i \in DOMAIN list : ~readable(list[i]) THEN Failed
     ELSE IF \E i \in DOMAIN list : parsed[i].from > parsed[i].to THEN Rejected
     ELSE Succeeded(scoped,
            FirstMonths(preview(scoped, argument(args, "baseline_type", "budget"), parsed),
                        built_in_tools["calculate_scenario_preview"].row_budget))

_run_tool(name, args, base) ==
  LET scoped == _query_from_tool_args(base, args)
  IN IF ~Readable(args) THEN Failed
     ELSE IF scoped.from > scoped.to \/ scoped.version \notin Version THEN Rejected
     ELSE CASE name = "get_variance_summary" -> Succeeded(scoped, summary(scoped))
            [] name = "get_variance_breakdown" -> RunBreakdown(scoped, args)
            [] name = "get_top_unfavorable_variances" -> RunTop(scoped, args)
            [] name = "compare_periods" -> RunCompare(scoped, args)
            [] name = "calculate_scenario_preview" -> RunPreview(scoped, args)

_execute_registered_tool(name, arguments, base) ==
  IF name \notin DOMAIN built_in_tools THEN Rejected
  ELSE IF validate_arguments(name, arguments)
  THEN _run_tool(name, Payload(arguments).fields, base) ELSE Rejected

-----------------------------------------------------------------------------
NoArguments == [is |-> "object", fields |-> <<>>]

ToolsInit ==
  request \in [name: DOMAIN built_in_tools \cup {"execute_sql"}, arguments: {NoArguments}]

(* A request with one argument more.                                       *)
AddArgument ==
  /\ Cardinality(DOMAIN request.arguments.fields) < MaxArguments
  /\ \E a \in Arguments :
       /\ a.name \notin DOMAIN request.arguments.fields
       /\ request' = [request EXCEPT !.arguments.fields = Merged(@, [k \in {a.name} |-> a.value])]

(* A provider asks about a ledger, which stays.                            *)
ToolsSpec ==
  /\ ToolsInit /\ ledger \in Seq(Entries) /\ rules \in Seq(Rules)
  /\ [][AddArgument /\ UNCHANGED ledgerVars]_<<request, ledgerVars>>

-----------------------------------------------------------------------------
(* The rows two reports of one answer are made of.                         *)
Disjoint(q, p) == _apply_filters(q) \cap _apply_filters(p) = {}

Shares(items) == SumFunction([i \in DOMAIN items |-> items[i].contribution])

TellsTheReports(name, base, answer) ==
  LET q == answer.scope
      p == answer.payload
      items == answer.payload
  IN /\ q.from <= q.to
     /\ \A d \in {"accounts", "departments", "centers"} : base[d] # {} => q[d] # {}
     /\ name = "get_variance_summary" => p = summary(q)
     /\ name \in {"get_variance_breakdown", "get_top_unfavorable_variances"} =>
          /\ Len(items) <= built_in_tools[name].row_budget
     /\ name = "get_variance_breakdown" =>
          /\ Len(items) <= AiMaxResultRows
          /\ \A i, j \in DOMAIN items : items[i].group = items[j].group => i = j
     /\ name = "get_top_unfavorable_variances" /\ items # <<>> =>
          Magnitude(Shares(items) - RatioUnit) * 2 <= Len(items)
     /\ name = "compare_periods" =>
          /\ Disjoint(q, p.other)
          /\ p.change.actual = summary(p.other).actual - summary(q).actual
     /\ name = "calculate_scenario_preview" =>
          p.baseline \in {summary(q).budget, summary(q).actual}

(* Whatever arguments the provider sends, a tool either refuses them or    *)
(* answers with the reports of the scope it names: two compared ranges     *)
(* never count a row twice, the shares of the worst variances make up      *)
(* the whole but for rounding, no breakdown or ranking is longer than its  *)
(* tool's budget, and an argument no schema names, at whatever depth, is   *)
(* refused, but for an organization at the top, which changes nothing.     *)
(* (ToolRegistry.validate_arguments, _execute_registered_tool, _run_tool.) *)
ToolsTellTheReports ==
  LET tenant == [organization_id |-> [is |-> "string", text |-> "x"]]
      other == [request.arguments EXCEPT !.fields = Merged(tenant, @)]
  IN \A base \in Scopes :
       \A answer \in {_execute_registered_tool(request.name, request.arguments, base)} :
         /\ answer = _execute_registered_tool(request.name, other, base)
         /\ answer.status = "succeeded" => TellsTheReports(request.name, base, answer)
=============================================================================

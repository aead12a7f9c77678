------------------------------- MODULE Analytics -------------------------------
(***************************************************************************)
(* What the product tells about the rows of one organization: variance     *)
(* reports (application/analytics.py, analytics_query.py and the SQL of    *)
(* SqlAnalyticsRepository) and what-if scenarios (domain/scenario.py,      *)
(* ScenarioService.preview and compare).                                   *)
(*                                                                         *)
(* The ledger grows as imports are applied; a user writes the rules of a   *)
(* scenario one by one.                                                    *)
(***************************************************************************)
EXTENDS Money, Ordering, SequencesExt

CONSTANTS
  Month,        \* months with entries
  Amount,       \* amounts of entries
  Account, Department, CostCenter,   \* numbers: they stand for their codes too
  TypeOf,       \* the type of each account
  Version,      \* budget versions
  StartMonth,   \* first month of the fiscal year
  RuleValue,    \* values of rules as written: fractions [n, d]
  Entries,      \* rows imports bring
  Rules,        \* rules the user writes
  MaxEntries, MaxRules   \* bounds

ASSUME AnalyticsAssumption ==
  /\ Month \subseteq Nat
  /\ Amount \subseteq Int
  /\ Account \subseteq Int /\ Department \subseteq Int /\ CostCenter \subseteq Int
  /\ TypeOf \in [Account -> AccountType]
  /\ RuleValue \subseteq [n : Int, d : Nat \ {0}]
  /\ StartMonth \in 1..12
  /\ MaxEntries \in Nat /\ MaxRules \in Nat

VARIABLES
  ledger,  \* the rows of financial_entries
  rules    \* the rules of the scenario as the request has them

ledgerVars == <<ledger, rules>>

-----------------------------------------------------------------------------
(* A row: __post_init__ and assert_consistent_with.                        *)
Entry ==
  {e \in [type: {"budget", "actual"}, version: Version \cup {None}, period: Month,
          fiscal_year: {fiscal_year_for_date(m, StartMonth) : m \in Month},
          account: Account, department: Department, center: CostCenter, amount: Amount] :
     /\ (e.type = "budget") <=> (e.version # None)
     /\ period_in_fiscal_year(e.period, e.fiscal_year, StartMonth)}

ASSUME EntriesAssumption == Entries \subseteq Entry

(* The same key from two files is two rows, as identical lines are.        *)
add_many(e) == ledger' = Append(ledger, e)

(* AnalyticsQuery: an empty list of ids asks for all.  Nothing relates the *)
(* months asked for to the fiscal year.                                    *)
Query == {q \in [fiscal_year: {fiscal_year_for_date(m, StartMonth) : m \in Month},
                 from: Month, to: Month, version: Version,
                 accounts: SUBSET Account, departments: SUBSET Department,
                 centers: SUBSET CostCenter] : q.from <= q.to}

InList(x, ids) == ids = {} \/ x \in ids

apply_dimensions(e, q) ==
  /\ InList(e.account, q.accounts)
  /\ InList(e.department, q.departments)
  /\ InList(e.center, q.centers)

(* As if the range ended before its last month.                            *)
filters_before_end(q) ==
  {i \in DOMAIN ledger :
     /\ ledger[i].fiscal_year = q.fiscal_year
     /\ ledger[i].period >= q.from
     /\ ledger[i].period < q.to
     /\ ledger[i].type = "budget" => ledger[i].version = q.version
     /\ apply_dimensions(ledger[i], q)}

_apply_filters(q) ==
  {i \in DOMAIN ledger :
     /\ ledger[i].fiscal_year = q.fiscal_year
     /\ ledger[i].period >= q.from
     /\ ledger[i].period <= q.to
     /\ ledger[i].type = "budget" => ledger[i].version = q.version
     /\ apply_dimensions(ledger[i], q)}

SumOf(rowset, type) ==
  SumFunction([i \in {j \in rowset : ledger[j].type = type} |-> ledger[i].amount])

_amount_columns(rowset) ==
  [budget |-> SumOf(rowset, "budget"), actual |-> SumOf(rowset, "actual"),
   types |-> {TypeOf[ledger[i].account] : i \in rowset}]

build_variance_metrics(t) == compute_variance(t.actual, t.budget, t.types)

totals(q) == _amount_columns(_apply_filters(q))

summary(q) == build_variance_metrics(totals(q))

_group_columns(by, e) ==
  CASE by = "period" -> e.period
    [] by = "account" -> e.account
    [] by = "department" -> e.department
    [] by = "cost_center" -> e.center

grouped_totals(q, by) ==
  LET rowset == _apply_filters(q)
  IN [g \in {_group_columns(by, ledger[i]) : i \in rowset} |->
        _amount_columns({i \in rowset : _group_columns(by, ledger[i]) = g})]

_breakdown_items(q, by) ==
  LET grouped == grouped_totals(q, by)
  IN {[group |-> g, metrics |-> build_variance_metrics(grouped[g])] : g \in DOMAIN grouped}

SortKey(item, sort) ==
  CASE sort = "budget_amount" -> item.metrics.budget
    [] sort = "actual_amount" -> item.metrics.actual
    [] sort = "absolute_variance" -> Magnitude(item.metrics.variance)
    [] sort = "variance_amount" -> item.metrics.variance

sort_breakdown_items(items, sort, direction) ==
  LET key(item) == IF direction = "desc" THEN -SortKey(item, sort) ELSE SortKey(item, sort)
  IN InOrder(items, {p \in items \X items :
                       \/ key(p[1]) < key(p[2])
                       \/ key(p[1]) = key(p[2]) /\ p[1].group < p[2].group})

top_unfavorable(q, by, limit) ==
  LET items == {x \in _breakdown_items(q, by) : x.metrics.favorability = "unfavorable"}
      sorted == sort_breakdown_items(items, "absolute_variance", "desc")
  IN SubSeq(sorted, 1, IF Len(sorted) > limit THEN limit ELSE Len(sorted))

(* The second range is asked for in the fiscal year of the first.          *)
compare_periods(q, from, to) ==
  [baseline |-> summary(q), comparison |-> summary([q EXCEPT !.from = from, !.to = to])]

-----------------------------------------------------------------------------
(* Scenarios: a rule applies to the months and dimensions of its scope.    *)
Rule ==
  {r \in [sequence: 1..MaxRules, operation: {"percentage_change", "absolute_change"},
          value: RuleValue, from: Month, to: Month, accounts: SUBSET Account,
          departments: SUBSET Department, centers: SUBSET CostCenter] : r.from <= r.to}

ASSUME RulesAssumption == Rules \subseteq Rule

rule_applies(rule, grain) ==
  /\ grain.period \in rule.from..rule.to
  /\ apply_dimensions(grain, rule)

apply_rule(amount, rule) ==
  IF rule.operation = "percentage_change"
  THEN apply_percentage(amount, parse_ratio(rule.value))
  ELSE amount + MoneyAmount(rule.value).value

(* In the order of their sequence; rules with the same one as they stand.  *)
InSequence(list) ==
  LET order == InOrder(DOMAIN list,
                       {p \in (DOMAIN list) \X (DOMAIN list) :
                          \/ list[p[1]].sequence < list[p[2]].sequence
                          \/ list[p[1]].sequence = list[p[2]].sequence /\ p[1] < p[2]})
  IN [k \in DOMAIN order |-> list[order[k]]]

(* As if the order of the request counted.                                 *)
apply_as_listed(baseline, list) ==
  LET order == InOrder(DOMAIN list, {p \in (DOMAIN list) \X (DOMAIN list) : p[1] < p[2]})
  IN FoldLeft(apply_rule, baseline, [k \in DOMAIN order |-> list[order[k]]])

apply_scenario_rules(baseline, list) == FoldLeft(apply_rule, baseline, InSequence(list))

(* The ledger by month and dimensions, the finest grain rules apply to.    *)
_baseline_grains(q, type) ==
  LET rowset == {i \in _apply_filters(q) : ledger[i].type = type}
      key(i) == [period |-> ledger[i].period, account |-> ledger[i].account,
                 department |-> ledger[i].department, center |-> ledger[i].center]
  IN {[period |-> k.period, account |-> k.account, department |-> k.department,
       center |-> k.center,
       amount |-> SumOf({i \in rowset : key(i) = k}, type)] : k \in {key(i) : i \in rowset}}

(* Those of a list, each at its position.                                  *)
_matching_rules(list, grain) ==
  RestrictDomain(list, LAMBDA i : rule_applies(list[i], grain))

(* The amount of a grain with the rules that match it.                     *)
Result(grain, list) == apply_scenario_rules(grain.amount, _matching_rules(list, grain))

preview(q, type, list) ==
  LET grains == _baseline_grains(q, type)
      before(G) == SumFunction([g \in G |-> g.amount])
      result(G) == SumFunction([g \in G |-> Result(g, list)])
      in(m) == {g \in grains : g.period = m}
  IN [baseline |-> before(grains), result |-> result(grains),
      metrics |-> compute_variance(result(grains), before(grains),
                                   {TypeOf[g.account] : g \in grains}),
      monthly |-> [m \in {g.period : g \in grains} |-> <<before(in(m)), result(in(m))>>]]

(* What reading a saved scenario returns: in the order of the sequence,    *)
(* each value as its column NUMERIC(19, 6) keeps it.                       *)
saved(list) ==
  [k \in DOMAIN list |->
     [InSequence(list)[k] EXCEPT
        !.value = [n |-> RoundHalfUp(@.n * RatioUnit, @.d), d |-> RatioUnit]]]

compare(q, type, list) == preview(q, type, saved(list))

-----------------------------------------------------------------------------
LedgerInit == ledger = <<>> /\ rules = <<>>

ApplyImport ==
  /\ Len(ledger) < MaxEntries
  /\ \E e \in Entries : add_many(e)
  /\ UNCHANGED rules

AddRule ==
  /\ Len(rules) < MaxRules
  /\ \E r \in Rules : rules' = Append(rules, r)
  /\ UNCHANGED ledger

LedgerNext == ApplyImport \/ AddRule

LedgerSpec == LedgerInit /\ [][LedgerNext]_ledgerVars

-----------------------------------------------------------------------------
Groupings == {"period", "account", "department", "cost_center"}
Sorts == {"budget_amount", "actual_amount", "absolute_variance", "variance_amount"}

(* A grouping loses no money: its groups add up to the summary.            *)
GroupsAddUp(q) ==
  \A by \in Groupings :
    LET items == _breakdown_items(q, by)
    IN /\ SumFunction([x \in items |-> x.metrics.budget]) = summary(q).budget
       /\ SumFunction([x \in items |-> x.metrics.variance]) = summary(q).variance

(* So do the two halves of a range, whatever the fiscal year asked for.    *)
RangesAddUp(q) ==
  \A m \in Month :
    q.from <= m /\ m < q.to =>
      LET halves == compare_periods([q EXCEPT !.to = m], m + 1, q.to)
      IN /\ halves.baseline.budget + halves.comparison.budget = summary(q).budget
         /\ halves.baseline.actual + halves.comparison.actual = summary(q).actual

(* A month outside the fiscal year asked for counts as nothing, although   *)
(* it has entries: a comparison across the year's end is one with zero.    *)
OtherYearIsEmpty(q) ==
  (\A m \in q.from..q.to : ~period_in_fiscal_year(m, q.fiscal_year, StartMonth))
    => summary(q).state = "no_activity"

(* The order of a breakdown is total: no two requests disagree about it.   *)
SortedAsAsked(q) ==
  \A by \in Groupings, sort \in Sorts, direction \in {"asc", "desc"} :
    LET items == sort_breakdown_items(_breakdown_items(q, by), sort, direction)
        k(i) == SortKey(items[i], sort)
    IN \A i, j \in DOMAIN items :
         i < j => IF k(i) = k(j) THEN items[i].group < items[j].group
                  ELSE (k(i) < k(j)) <=> (direction = "asc")

(* More profit is favorable and less is not, where it can be told; the     *)
(* worst groups are those that hide no better one.                         *)
FavorabilityFollowsProfit(q, by) ==
  LET items == _breakdown_items(q, by)
      worst == top_unfavorable(q, by, 1)
      profit(i) == IF TypeOf[ledger[i].account] = "revenue" THEN 1 ELSE -1
      rowset(g) == {i \in _apply_filters(q) : _group_columns(by, ledger[i]) = g}
      effect(g) == SumFunction([i \in rowset(g) |->
                     profit(i) * (IF ledger[i].type = "actual" THEN 1 ELSE -1) * ledger[i].amount])
  IN /\ \A x \in items :
          (\E t \in {"revenue", "expense"} :
             {TypeOf[ledger[i].account] : i \in rowset(x.group)} = {t}) =>
            x.metrics.favorability = IF effect(x.group) = 0 THEN "neutral"
                                     ELSE IF effect(x.group) > 0 THEN "favorable"
                                     ELSE "unfavorable"
     /\ \A x \in items : x.metrics.favorability = "unfavorable" =>
          Magnitude(x.metrics.variance) <= Magnitude(worst[1].metrics.variance)

AllOf(months, fy, v) ==
  [fiscal_year |-> fy, from |-> months[1], to |-> months[2], version |-> v,
   accounts |-> {}, departments |-> {}, centers |-> {}]

Asked ==
  {AllOf(months, fy, v) : months \in {p \in Month \X Month : p[1] <= p[2]},
                          fy \in {fiscal_year_for_date(m, StartMonth) : m \in Month},
                          v \in Version}

(* Every report agrees with every other about the same rows, in whatever   *)
(* order and number imports have added them.                               *)
(* (SqlAnalyticsRepository, AnalyticsService, sort_breakdown_items.)        *)
ReportsAddUp ==
  \A q \in Asked :
    /\ GroupsAddUp(q) /\ RangesAddUp(q) /\ OtherYearIsEmpty(q) /\ SortedAsAsked(q)
    /\ FavorabilityFollowsProfit(q, "account") /\ FavorabilityFollowsProfit(q, "department")

(* A value the column keeps as it is.                                      *)
Kept(x) == (x.n * RatioUnit) % x.d = 0

(* What the user was shown before saving a scenario is what comparing the  *)
(* saved one shows, if its rules have different sequences (else it cannot  *)
(* be saved) and no value is finer than the column: such a value is        *)
(* rounded twice.  A preview adds up by month to what it says in total,    *)
(* starts from what the summary reports, and changes no month outside the  *)
(* rules' scopes.  (ScenarioService.preview and compare; AC-010.)          *)
PreviewMatchesSave ==
  \A q \in Asked, type \in {"budget", "actual"} :
    LET shown == preview(q, type, rules)
        months == DOMAIN shown.monthly
    IN /\ (\A i, j \in DOMAIN rules : rules[i].sequence = rules[j].sequence => i = j)
            /\ (\A i \in DOMAIN rules : Kept(rules[i].value))
          => compare(q, type, rules) = shown
       /\ shown.baseline = SumFunction([m \in months |-> shown.monthly[m][1]])
       /\ shown.result = SumFunction([m \in months |-> shown.monthly[m][2]])
       /\ shown.baseline = totals(q)[type]
       /\ \A m \in months :
            (\A i \in DOMAIN rules : m \notin rules[i].from..rules[i].to)
              => shown.monthly[m][1] = shown.monthly[m][2]
=============================================================================

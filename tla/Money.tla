--------------------------------- MODULE Money ---------------------------------
(***************************************************************************)
(* The arithmetic of the product: amounts, ratios, variances and fiscal    *)
(* months (domain/money.py, variance.py, fiscal.py, period.py).            *)
(*                                                                         *)
(* An amount is an integer number of quanta, MoneyUnit of which make one   *)
(* unit of the currency (the code: 10^4); a ratio is an integer number of  *)
(* 1/RatioUnit (the code: 10^-6).  A decimal as written is a fraction      *)
(* [n, d].  A month is 12 * year + month - 1.                              *)
(***************************************************************************)
EXTENDS Integers, FiniteSets

CONSTANTS
  MoneyUnit,    \* quanta of an amount in one unit of the currency
  RatioUnit,    \* quanta of a ratio in one
  MoneyMax,     \* quanta of the largest amount
  DecimalMax,   \* quanta of the largest number the decimal context can quantize
  None

ASSUME MoneyAssumption ==
  /\ MoneyUnit \in Nat \ {0}
  /\ RatioUnit \in Nat \ {0}
  /\ MoneyMax \in Nat
  /\ DecimalMax \in Nat

Magnitude(x) == IF x < 0 THEN -x ELSE x

(* Decimal.quantize(..., ROUND_HALF_EVEN): n / d to the nearest integer, a *)
(* tie to the even one.                                                    *)
RoundHalfEven(n, d) ==
  LET q == n \div d
      r == n % d
  IN IF 2 * r < d THEN q
     ELSE IF 2 * r > d THEN q + 1
     ELSE IF q % 2 = 0 THEN q ELSE q + 1

(* A column NUMERIC(p, s) rounds a tie away from zero.                     *)
RoundHalfUp(n, d) ==
  IF n >= 0 THEN (2 * n + d) \div (2 * d) ELSE -((2 * (-n) + d) \div (2 * d))

-----------------------------------------------------------------------------
(* What a constructor returns, or the code of the error it raises.         *)
Value(v) == [error |-> "no", value |-> v]
Error(code) == [error |-> code, value |-> 0]

(* MoneyAmount(value): quantize, then look at the range.  quantize itself  *)
(* fails when the result does not fit into the digits of the context.      *)
MoneyAmount(x) ==
  LET quantized == RoundHalfEven(x.n * MoneyUnit, x.d)
  IN CASE Magnitude(quantized) > DecimalMax -> Error("decimal.InvalidOperation")
       [] /\ Magnitude(quantized) <= DecimalMax
          /\ Magnitude(quantized) > MoneyMax -> Error("AMOUNT_OUT_OF_RANGE")
       [] OTHER -> Value(quantized)

apply_percentage(amount, ratio) ==
  RoundHalfEven(amount * (RatioUnit + ratio), RatioUnit)

parse_ratio(x) == RoundHalfEven(x.n * RatioUnit, x.d)

(* A cell of a column of amounts: its digits, how many of them come after  *)
(* the last comma and after the last point (None: it has none), and which  *)
(* of the two it has several of.                                           *)
Ten(k) == IF k = None THEN 1 ELSE 10 ^ k

(* A comma of an English amount that may be the decimal separator.         *)
Ambiguous(cell) ==
  cell.comma # None /\ (IF cell.point = None THEN TRUE ELSE cell.comma < cell.point)

(* The separator of thousands is dropped; two of the other are no number.  *)
parse_mapped_amount(cell, locale) ==
  LET decimal == IF locale = "es" THEN "comma" ELSE "point"
  IN IF decimal \in cell.repeated \/ (locale # "es" /\ Ambiguous(cell))
     THEN Error("INVALID_AMOUNT")
     ELSE MoneyAmount([n |-> cell.digits, d |-> Ten(cell[decimal])])

-----------------------------------------------------------------------------
(* Variances.                                                              *)
AccountType == {"revenue", "expense", "asset", "liability", "equity", "other"}

classify_favorability(variance, type) ==
  CASE variance = 0 -> "neutral"
    [] variance # 0 /\ type = "revenue" ->
         IF variance > 0 THEN "favorable" ELSE "unfavorable"
    [] variance # 0 /\ type = "expense" ->
         IF variance > 0 THEN "unfavorable" ELSE "favorable"
    [] OTHER -> "unknown"

favorability_for_account_types(variance, types) ==
  IF variance = 0 THEN "neutral"
  ELSE IF Cardinality(types) = 1
  THEN classify_favorability(variance, CHOOSE t \in types : TRUE)
  ELSE "unknown"

VarianceState(actual, budget) ==
  IF budget # 0 THEN "defined" ELSE IF actual = 0 THEN "no_activity" ELSE "unbounded"

variance_percent(actual, budget) ==
  IF budget = 0 THEN None
  ELSE RoundHalfEven((actual - budget) * RatioUnit, Magnitude(budget))

(* build_variance_metrics over compute_variance.                           *)
compute_variance(actual, budget, types) ==
  [budget |-> budget, actual |-> actual, variance |-> actual - budget,
   percent |-> variance_percent(actual, budget),
   state |-> VarianceState(actual, budget),
   favorability |-> favorability_for_account_types(actual - budget, types)]

-----------------------------------------------------------------------------
(* The fiscal calendar.                                                    *)
Year(month) == month \div 12
MonthOfYear(month) == (month % 12) + 1
MonthAt(year, month) == 12 * year + month - 1

fiscal_year_for_date(month, start) ==
  IF start = 1 THEN Year(month)
  ELSE IF MonthOfYear(month) >= start THEN Year(month) + 1
  ELSE Year(month)

fiscal_year_period_bounds(year, start) ==
  IF start = 1 THEN <<MonthAt(year, 1), MonthAt(year, 12)>>
  ELSE <<MonthAt(year - 1, start), MonthAt(year, start - 1)>>

IsLeap(year) == year % 4 = 0 /\ (year % 100 = 0 => year % 400 = 0)

DaysIn(month) ==
  CASE MonthOfYear(month) = 2 -> IF IsLeap(Year(month)) THEN 29 ELSE 28
    [] MonthOfYear(month) \in {4, 6, 9, 11} -> 30
    [] OTHER -> 31

IsDate(year, month, day) ==
  /\ month \in 1..12
  /\ day \in 1..DaysIn(MonthAt(year, month))

(* A date is written [form, year, first, second]: year-first-second,       *)
(* year-first, or first/second/year.  %d/%m/%Y is tried before %m/%d/%Y.   *)
parse_period_start(text) ==
  CASE text.form = "iso" /\ IsDate(text.year, text.first, text.second) ->
         Value(MonthAt(text.year, text.first))
    [] text.form = "month" /\ text.first \in 1..12 -> Value(MonthAt(text.year, text.first))
    [] text.form = "slash" /\ IsDate(text.year, text.second, text.first) ->
         Value(MonthAt(text.year, text.second))
    [] /\ text.form = "slash"
       /\ ~IsDate(text.year, text.second, text.first)
       /\ IsDate(text.year, text.first, text.second) -> Value(MonthAt(text.year, text.first))
    [] OTHER -> Error("INVALID_PERIOD")

period_in_fiscal_year(month, year, start) == fiscal_year_for_date(month, start) = year
=============================================================================

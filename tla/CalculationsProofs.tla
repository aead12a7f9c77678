--------------------------- MODULE CalculationsProofs ---------------------------
(***************************************************************************)
(* Facts about the calculations for inputs of any size: the arithmetic of  *)
(* Money, the tables of a file (Workbook), the manual gates (Gates), the   *)
(* rows of a file and what is applied of them (ImportRows), lists read     *)
(* page by page (Pages), the reports of the ledger and the previews of     *)
(* scenarios (Analytics), the copilot's tools (Tools).                     *)
(*                                                                         *)
(* Sums and folds come from the library.  What they compute for inputs of  *)
(* any size is proved here with the least counterexample: induction whose  *)
(* statement is a set of numbers or of sets, and no operator parameter.    *)
(***************************************************************************)
EXTENDS Workbook, ImportRows, Tools, Gates, Pages, WellFoundedInduction, FiniteSetTheorems,
        SequenceTheorems, TLAPS

(* Every set of naturals has a least one: the principle all inductions     *)
(* below go back to.                                                       *)
LEMMA LeastNatural ==
  ASSUME NEW S, S \subseteq Nat, S # {}
  PROVE  \E m \in S : \A k \in S : m <= k
<1> DEFINE R == OpToRel(<, Nat)
<1>1. R = {p \in Nat \X Nat : p[1] < p[2]}
  BY Zenon DEF OpToRel
<1>2. PICK m \in S : \A k \in S : <<k, m>> \notin R
  <2>1. IsWellFoundedOn(R, Nat)
    BY NatLessThanWellFounded, Zenon
  <2> HIDE DEF R
  <2> QED
    BY <2>1, WFMin
<1> HIDE DEF R
<1>3. \A k \in S : ~(k < m)
  BY <1>1, <1>2
<1> QED
  BY <1>3

(* Min and Max of numbers.                                                 *)
LEMMA MinIsLeast ==
  ASSUME NEW S, S \subseteq Nat, S # {}
  PROVE  Min(S) \in S /\ \A k \in S : Min(S) <= k
BY LeastNatural DEF Min

LEMMA MaxIsGreatest ==
  ASSUME NEW n \in Nat, NEW S, S \subseteq 0..n, S # {}
  PROVE  Max(S) \in S /\ \A k \in S : k <= Max(S)
<1> DEFINE T == {n - k : k \in S}
<1>1. T \subseteq Nat /\ T # {}
  <2>1. \A k \in S : k \in 0..n
    OBVIOUS
  <2>2. \A k \in S : n - k \in Nat
    BY <2>1
  <2> QED
    BY <2>2
<1>2. PICK m \in T : \A k \in T : m <= k
  BY <1>1, LeastNatural
<1>3. PICK x \in S : m = n - x
  BY <1>2
<1>4. \A k \in S : x >= k
  <2>1. TAKE k \in S
  <2>2. n - x <= n - k
    BY <1>2, <1>3
  <2> QED
    BY <2>2
<1>5. \E y \in S : \A k \in S : y >= k
  BY <1>4
<1>6. Max(S) \in S /\ \A k \in S : Max(S) >= k
  BY <1>5 DEF Max
<1> QED
  BY <1>6

(* A sequence made by a function.                                          *)
LEMMA MadeSequence ==
  ASSUME NEW n \in Nat, NEW f, f = [i \in 1..n |-> f[i]]
  PROVE  f \in Seq({f[i] : i \in 1..n}) /\ Len(f) = n
<1> DEFINE S == {f[i] : i \in 1..n}
<1>1. f \in [1..n -> S]
  OBVIOUS
<1> HIDE DEF S
<1>2. f \in Seq(S)
  BY <1>1
<1>3. Len(f) \in Nat /\ DOMAIN f = 1..Len(f)
  BY <1>2
<1>4. 1..n = 1..Len(f)
  BY <1>1, <1>3
<1>5. n = Len(f)
  BY <1>3, <1>4
<1> QED
  BY <1>2, <1>5 DEF S

(* Division as the program's integers do it.                               *)
LEMMA Division ==
  ASSUME NEW n \in Int, NEW d \in Nat \ {0}
  PROVE  /\ n \div d \in Int /\ n % d \in 0..(d - 1)
         /\ n = d * (n \div d) + (n % d)
BY Z3

(* Decimal.quantize(..., ROUND_HALF_EVEN) is off by half a quantum at most *)
(* and lands on an even number of quanta when it is off by exactly that    *)
(* (MoneyAmount, apply_percentage, variance_percent).                      *)
THEOREM RoundingIsFair ==
  ASSUME NEW n \in Int, NEW d \in Nat \ {0}
  PROVE  LET q == RoundHalfEven(n, d)
         IN /\ q \in Int
            /\ -d <= 2 * (n - d * q) /\ 2 * (n - d * q) <= d
            /\ 2 * (n - d * q) \in {d, -d} => q % 2 = 0
<1> DEFINE q == n \div d
           r == n % d
<1>1. q \in Int /\ r \in 0..(d - 1) /\ n = d * q + r
  BY Division
<1>2. d * (q + 1) = d * q + d
  BY <1>1, Z3
<1>3. n - d * q = r /\ n - d * (q + 1) = r - d
  <2>1. PICK p \in Int : p = d * q
    BY <1>1
  <2> QED
    BY <1>1, <1>2, <2>1
<1>4. q % 2 = 0 \/ (q + 1) % 2 = 0
  BY <1>1
<1> HIDE DEF q, r
<1>5. RoundHalfEven(n, d) = IF 2 * r < d THEN q
                            ELSE IF 2 * r > d THEN q + 1
                            ELSE IF q % 2 = 0 THEN q ELSE q + 1
  BY DEF RoundHalfEven, q, r
<1>6. CASE RoundHalfEven(n, d) = q /\ (2 * r < d \/ (2 * r = d /\ q % 2 = 0))
  <2>1. n - d * RoundHalfEven(n, d) = r
    BY <1>3, <1>6
  <2> QED
    BY <1>1, <1>6, <2>1
<1>7. CASE RoundHalfEven(n, d) = q + 1 /\ (2 * r > d \/ (2 * r = d /\ (q + 1) % 2 = 0))
  <2>1. n - d * RoundHalfEven(n, d) = r - d
    BY <1>3, <1>7
  <2> QED
    BY <1>1, <1>7, <2>1
<1> QED
  BY <1>1, <1>4, <1>5, <1>6, <1>7

(* The bounds of a fiscal year hold exactly the months that are assigned   *)
(* to it, whatever month the year starts in: a date is never counted in a  *)
(* year whose reports leave it out (fiscal_year_for_date,                  *)
(* fiscal_year_period_bounds).                                             *)
THEOREM FiscalYearsPartitionMonths ==
  ASSUME NEW month \in Int, NEW year \in Int, NEW start \in 1..12
  PROVE  period_in_fiscal_year(month, year, start) <=>
           /\ fiscal_year_period_bounds(year, start)[1] <= month
           /\ month <= fiscal_year_period_bounds(year, start)[2]
<1>1. CASE start = 1
  BY <1>1 DEF period_in_fiscal_year, fiscal_year_for_date, fiscal_year_period_bounds,
              Year, MonthOfYear, MonthAt
<1>2. CASE start # 1
  BY <1>2 DEF period_in_fiscal_year, fiscal_year_for_date, fiscal_year_period_bounds,
              Year, MonthOfYear, MonthAt
<1> QED
  BY <1>1, <1>2

(* Exchanging budget and actual turns favorable into unfavorable and back, *)
(* for any account type (compute_variance, classify_favorability).         *)
THEOREM FavorabilityIsAntisymmetric ==
  ASSUME NEW variance \in Int, NEW type \in AccountType
  PROVE  /\ classify_favorability(variance, type) = "favorable" <=>
              classify_favorability(-variance, type) = "unfavorable"
         /\ classify_favorability(variance, type) \in {"neutral", "unknown"} =>
              classify_favorability(-variance, type) = classify_favorability(variance, type)
BY DEF classify_favorability, AccountType

-----------------------------------------------------------------------------
(* Rules of a scenario                                                     *)

LEMMA MulPos ==
  ASSUME NEW k \in Nat \ {0}, NEW z \in Nat \ {0}
  PROVE  k * z >= k /\ k * z \in Int
BY Z3

LEMMA Distr ==
  ASSUME NEW k \in Int, NEW x \in Int, NEW y \in Int
  PROVE  k * (x - y) = k * x - k * y /\ k * (x + y) = k * x + k * y
BY Z3

(* A factor above zero keeps the order.                                    *)
LEMMA MulLess ==
  ASSUME NEW k \in Nat \ {0}, NEW x \in Int, NEW y \in Int
  PROVE  x < y <=> k * x < k * y
<1>1. CASE x < y
  <2>1. k * (y - x) >= k /\ k * (y - x) = k * y - k * x
    BY <1>1, MulPos, Distr
  <2> QED BY <1>1, <2>1, Z3
<1>2. CASE y < x
  <2>1. k * (x - y) >= k /\ k * (x - y) = k * x - k * y
    BY <1>2, MulPos, Distr
  <2> QED BY <1>2, <2>1, Z3
<1> QED BY <1>1, <1>2

(* A quotient and a remainder that fit are the ones.                      *)
LEMMA DivUnique ==
  ASSUME NEW n \in Int, NEW d \in Nat \ {0}, NEW q \in Int, NEW r \in 0..(d - 1),
         n = d * q + r
  PROVE  n \div d = q /\ n % d = r
<1> DEFINE q2 == n \div d
           r2 == n % d
<1>1. q2 \in Int /\ r2 \in 0..(d - 1) /\ n = d * q2 + r2
  BY Division
<1> HIDE DEF q2, r2
<1>2. CASE q < q2
  <2>1. d * (q2 - q) >= d /\ d * (q2 - q) = d * q2 - d * q
    BY <1>1, <1>2, MulPos, Distr
  <2> QED BY <1>1, <2>1, Z3
<1>3. CASE q2 < q
  <2>1. d * (q - q2) >= d /\ d * (q - q2) = d * q - d * q2
    BY <1>1, <1>3, MulPos, Distr
  <2> QED BY <1>1, <2>1, Z3
<1>4. q = q2
  BY <1>1, <1>2, <1>3
<1> QED BY <1>1, <1>4 DEF q2, r2

LEMMA Cancel ==
  ASSUME NEW w \in Int, NEW y \in Int, NEW z \in Int, w + y = w + z
  PROVE  y = z
OBVIOUS

(* Rounding depends on the ratio, not on the fraction that writes it.      *)
LEMMA SameRatioRoundsTheSame ==
  ASSUME NEW a \in Int, NEW b \in Int, NEW d \in Nat \ {0}, NEW e \in Nat \ {0},
         a * e = b * d
  PROVE  RoundHalfEven(a, d) = RoundHalfEven(b, e)
<1> DEFINE q == a \div d
           r == a % d
           s == b - e * q
<1>1. q \in Int /\ r \in 0..(d - 1) /\ a = d * q + r
  BY Division
<1> HIDE DEF q, r
<1>2. e * q \in Int /\ d * (e * q) = e * (d * q)
  BY <1>1, Z3
<1>3. s \in Int /\ b = e * q + s
  BY <1>2
<1> HIDE DEF s
<1>4. d * s = e * r
  <2>1. d * b = d * (e * q) + d * s
    BY <1>2, <1>3, Distr
  <2>2. e * a = e * (d * q) + e * r
    <3>1. d * q \in Int
      BY <1>1, Z3
    <3> QED
      BY <1>1, <3>1, Distr
  <2>3. d * b = e * a
    BY Z3
  <2>4. /\ d * b \in Int /\ d * s \in Int /\ e * r \in Int /\ d * (e * q) \in Int
        /\ e * a \in Int
    BY <1>1, <1>2, <1>3, Z3
  <2> QED
    BY <1>2, <2>1, <2>2, <2>3, <2>4, Cancel
<1>5. 0 <= s /\ s < e
  <2>1. e * r >= 0 /\ e * r < e * d
    <3>1. e * r < e * d
      BY <1>1, MulLess
    <3>2. ~(r < 0)
      BY <1>1
    <3>3. ~(e * r < e * 0)
      BY <1>1, <3>2, MulLess
    <3>4. e * 0 = 0 /\ e * r \in Int
      BY <1>1, Z3
    <3> QED
      BY <3>1, <3>3, <3>4
  <2>2. d * 0 = 0 /\ d * e = e * d
    BY Z3
  <2>3. ~(d * s < d * 0)
    BY <1>1, <1>3, <1>4, <2>1, <2>2, Z3
  <2>4. d * s < d * e
    BY <1>4, <2>1, <2>2
  <2> QED
    BY <1>3, <2>3, <2>4, MulLess
<1>6. b \div e = q /\ b % e = s
  BY <1>1, <1>3, <1>5, DivUnique
<1>7. (2 * r < d <=> 2 * s < e) /\ (d < 2 * r <=> e < 2 * s)
  <2>1. e * (2 * r) = d * (2 * s)
    BY <1>1, <1>3, <1>4, Z3
  <2>2. e * d = d * e
    BY Z3
  <2>3. /\ 2 * r < d <=> e * (2 * r) < e * d
        /\ d < 2 * r <=> e * d < e * (2 * r)
    BY <1>1, MulLess
  <2>4. /\ 2 * s < e <=> d * (2 * s) < d * e
        /\ e < 2 * s <=> d * e < d * (2 * s)
    BY <1>3, MulLess
  <2> QED
    BY <2>1, <2>2, <2>3, <2>4
<1> QED
  BY <1>1, <1>3, <1>6, <1>7 DEF RoundHalfEven, q, r

(* What the column of a rule keeps of a value that is not finer than it    *)
(* parses to the same ratio and to the same amount.                        *)
LEMMA ColumnKeepsValue ==
  ASSUME NEW x, x.n \in Int, x.d \in Nat \ {0}, Kept(x)
  PROVE  LET column == [n |-> RoundHalfUp(x.n * RatioUnit, x.d), d |-> RatioUnit]
         IN parse_ratio(column) = parse_ratio(x) /\ MoneyAmount(column) = MoneyAmount(x)
<1> DEFINE n == x.n
           d == x.d
           m == n * RatioUnit
           q == m \div d
           column == [n |-> RoundHalfUp(x.n * RatioUnit, x.d), d |-> RatioUnit]
<1>1. n \in Int /\ d \in Nat \ {0} /\ RatioUnit \in Nat \ {0} /\ MoneyUnit \in Nat \ {0}
  BY MoneyAssumption
<1>2. m \in Int
  BY <1>1, Z3
<1>3. q \in Int /\ m = d * q
  <2>1. m % d = 0
    BY DEF Kept
  <2> HIDE DEF m, d, n
  <2>2. m \div d \in Int /\ m = d * (m \div d) + (m % d)
    BY <1>1, <1>2, Division
  <2>3. d * (m \div d) \in Int
    BY <1>1, <2>2, Z3
  <2> QED
    BY <2>1, <2>2, <2>3
<1>4. RoundHalfUp(m, d) = q
  <2> HIDE DEF m, q, d, n
  <2>1. d * (2 * q) = 2 * m /\ (2 * d) * q = 2 * m /\ (2 * d) * (-q) = 2 * (-m)
    BY <1>1, <1>2, <1>3, Z3
  <2>2. d \in 0..(2 * d - 1) /\ 2 * d \in Nat \ {0}
    BY <1>1
  <2>3. 2 * m + d = (2 * d) * q + d /\ 2 * (-m) + d = (2 * d) * (-q) + d
    BY <2>1
  <2>4. 2 * m + d \in Int /\ 2 * (-m) + d \in Int /\ -q \in Int
    BY <1>1, <1>2, <1>3
  <2>5. (2 * m + d) \div (2 * d) = q
    BY <1>3, <2>2, <2>3, <2>4, DivUnique
  <2>6. (2 * (-m) + d) \div (2 * d) = -q
    BY <2>2, <2>3, <2>4, DivUnique
  <2> QED
    BY <1>3, <2>5, <2>6 DEF RoundHalfUp
<1>5. column.n = q /\ column.d = RatioUnit
  BY <1>4
<1>6. \A k \in Int : (q * k) * d = (n * k) * RatioUnit /\ q * k \in Int /\ n * k \in Int
  <2> HIDE DEF q, d, n
  <2>1. d * q = n * RatioUnit
    BY <1>3
  <2> QED
    BY <1>1, <1>3, <2>1, Z3
<1> HIDE DEF n, d, q
<1>7. \A k \in Int : RoundHalfEven(q * k, RatioUnit) = RoundHalfEven(n * k, d)
  <2>1. TAKE k \in Int
  <2>2. (q * k) * d = (n * k) * RatioUnit /\ q * k \in Int /\ n * k \in Int
    BY <1>6
  <2> DEFINE y == q * k
             z == n * k
  <2>3. y \in Int /\ z \in Int /\ y * d = z * RatioUnit
    BY <2>2
  <2> HIDE DEF y, z
  <2>4. RoundHalfEven(y, RatioUnit) = RoundHalfEven(z, d)
    BY <1>1, <2>3, SameRatioRoundsTheSame
  <2> QED
    BY <2>4 DEF y, z
<1>8. parse_ratio(column) = parse_ratio(x)
  BY <1>1, <1>5, <1>7 DEF parse_ratio, n, d
<1>9. MoneyAmount(column) = MoneyAmount(x)
  BY <1>1, <1>5, <1>7 DEF MoneyAmount, n, d
<1> QED
  BY <1>8, <1>9

(* A rule whose value is not finer than its column changes every amount    *)
(* after it was saved and read again exactly as it did in the preview,     *)
(* whatever the units of amounts and ratios: the column rounds a tie away  *)
(* from zero, and the parsers to the even one, yet no value is rounded     *)
(* twice (SqlScenarioRepository, parse_ratio, MoneyAmount, apply_rule).    *)
THEOREM SavingKeepsRules ==
  ASSUME NEW rule \in Rule, NEW amount \in Int,
         rule.value.n \in Int, rule.value.d \in Nat \ {0}, Kept(rule.value)
  PROVE  LET read == [rule EXCEPT
                        !.value = [n |-> RoundHalfUp(@.n * RatioUnit, @.d), d |-> RatioUnit]]
         IN apply_rule(amount, read) = apply_rule(amount, rule)
<1> DEFINE x == rule.value
           column == [n |-> RoundHalfUp(x.n * RatioUnit, x.d), d |-> RatioUnit]
           read == [rule EXCEPT !.value = column]
<1>1. read.value = column /\ read.operation = rule.operation
  BY DEF Rule
<1>2. parse_ratio(column) = parse_ratio(x) /\ MoneyAmount(column) = MoneyAmount(x)
  <2> HIDE DEF x
  <2>1. x.n \in Int /\ x.d \in Nat \ {0} /\ Kept(x)
    BY DEF x
  <2> QED
    BY <2>1, ColumnKeepsValue
<1> HIDE DEF column
<1>3. apply_rule(amount, read) = apply_rule(amount, rule)
  <2> HIDE DEF read
  <2> QED
    BY <1>1, <1>2 DEF apply_rule
<1> QED
  BY <1>3 DEF column

-----------------------------------------------------------------------------
(* Files                                                                   *)
IsText(text) == text \in Seq(ToSet(text))

LEMMA PositionsCount ==
  ASSUME NEW text, IsText(text), NEW d
  PROVE  Cardinality(Positions(text, d)) \in Nat /\ Cardinality(Positions(text, d)) <= Len(text)
<1>1. Len(text) \in Nat /\ DOMAIN text = 1..Len(text)
  BY DEF IsText
<1>2. IsFiniteSet(1..Len(text)) /\ Cardinality(1..Len(text)) = Len(text)
  <2> DEFINE n == Len(text)
  <2>1. n \in Nat
    BY <1>1
  <2> HIDE DEF n
  <2>2. IsFiniteSet(1..n) /\ Cardinality(1..n) = IF 1 > n THEN 0 ELSE n - 1 + 1
    BY <2>1, FS_Interval
  <2> QED
    BY <2>1, <2>2 DEF n
<1>3. Positions(text, d) \subseteq 1..Len(text)
  BY <1>1 DEF Positions
<1> QED
  BY <1>2, <1>3, FS_Subset, FS_CardinalityType

(* However many cells, they are numbered from one.                         *)
LEMMA SplitDomain ==
  ASSUME NEW text, IsText(text), NEW d
  PROVE  \E n \in Nat : DOMAIN Split(text, d) = 1..n
<1>1. CASE text = <<>>
  <2>1. Split(text, d) = <<>>
    BY <1>1 DEF Split
  <2>2. DOMAIN Split(text, d) = 1..0
    BY <2>1
  <2> QED
    BY <2>2
<1>2. CASE text # <<>>
  <2>1. DOMAIN Split(text, d) = 1..(Cardinality(Positions(text, d)) + 1)
    BY <1>2 DEF Split
  <2>2. Cardinality(Positions(text, d)) + 1 \in Nat
    BY PositionsCount
  <2> QED
    BY <2>1, <2>2
<1> QED
  BY <1>1, <1>2

IsTexts(lines) ==
  /\ lines \in Seq(ToSet(lines))
  /\ \A i \in DOMAIN lines : IsText(lines[i])

LEMMA FirstIsText ==
  ASSUME NEW lines, IsTexts(lines)
  PROVE  IsText(FirstText(lines))
<1> DEFINE texts == {i \in DOMAIN lines : lines[i] # <<>>}
<1>1. texts \subseteq Nat
  BY DEF IsTexts
<1>2. texts # {} => Min(texts) \in texts
  <2> HIDE DEF texts
  <2> QED
    BY <1>1, MinIsLeast
<1>3. IsText(<<>>)
  BY DEF IsText, ToSet
<1> QED
  BY <1>2, <1>3 DEF FirstText, IsTexts

(* Of some delimiters there is a first in rank: the most frequent ones     *)
(* have a first.                                                           *)
LEMMA LeaderIsOne ==
  ASSUME NEW header, IsText(header), NEW K, K \subseteq DOMAIN CSV_DELIMITERS, K # {}
  PROVE  \E k \in K : \A j \in K \ {k} :
           \/ Count(header, j) < Count(header, k)
           \/ Count(header, j) = Count(header, k) /\ j > k
<1>1. \A k \in K : k \in Nat /\ Count(header, k) \in 0..Len(header)
  BY PositionsCount, WorkbookAssumption DEF Count
<1> DEFINE counts == {Count(header, k) : k \in K}
           most == {k \in K : Count(header, k) = Max(counts)}
<1>2. Max(counts) \in counts /\ \A c \in counts : c <= Max(counts)
  <2>1. counts \subseteq 0..Len(header) /\ counts # {}
    BY <1>1
  <2>2. Len(header) \in Nat
    BY DEF IsText
  <2> HIDE DEF counts
  <2> QED
    BY <2>1, <2>2, MaxIsGreatest
<1>3. most \subseteq Nat /\ most # {}
  BY <1>1, <1>2
<1>4. Min(most) \in most /\ \A k \in most : Min(most) <= k
  <2> HIDE DEF most
  <2> QED
    BY <1>3, MinIsLeast
<1>5. Min(most) \in K
  BY <1>4
<1>6. ASSUME NEW j \in K \ {Min(most)}
      PROVE  \/ Count(header, j) < Count(header, Min(most))
             \/ Count(header, j) = Count(header, Min(most)) /\ j > Min(most)
  <2>1. Count(header, j) \in counts
    OBVIOUS
  <2>2. Count(header, j) <= Max(counts)
    BY <1>2, <2>1
  <2>3. Count(header, Min(most)) = Max(counts)
    BY <1>4
  <2>4. CASE j \in most
    <3>1. Min(most) <= j /\ Min(most) # j /\ Min(most) \in Nat /\ j \in Nat
      BY <1>1, <1>4, <1>5, <2>4
    <3>2. Count(header, j) = Max(counts)
      BY <2>4
    <3> HIDE DEF most, counts
    <3> QED
      BY <2>3, <3>1, <3>2
  <2>5. CASE j \notin most
    <3>1. Count(header, j) # Max(counts)
      BY <2>5
    <3>2. Count(header, j) \in Nat /\ Count(header, Min(most)) \in Nat
      BY <1>1, <1>5
    <3> HIDE DEF most, counts
    <3> QED
      BY <2>2, <2>3, <3>1, <3>2
  <2> QED
    BY <2>4, <2>5
<1> HIDE DEF most
<1> QED
  BY <1>5, <1>6

(* A delimiter is always found, and one that is given is taken.            *)
LEMMA DelimiterIsFound ==
  ASSUME NEW lines, IsTexts(lines), NEW confirmed, NEW sniffed \in Sniffed
  PROVE  LET chosen == detect_csv_delimiter(lines, confirmed, sniffed)
         IN /\ chosen.delimiter # Unset
            /\ chosen = [delimiter |-> chosen.delimiter, ambiguous |-> chosen.ambiguous]
            /\ confirmed # Unset => chosen = [delimiter |-> confirmed, ambiguous |-> FALSE]
<1> DEFINE header == FirstText(lines)
           plausible == {k \in DOMAIN CSV_DELIMITERS : Count(header, k) >= 1}
           leader(K) == CHOOSE k \in K : \A j \in K \ {k} :
                          \/ Count(header, j) < Count(header, k)
                          \/ Count(header, j) = Count(header, k) /\ j > k
           first == leader(plausible)
           rest == plausible \ {first}
           delimiters == {CSV_DELIMITERS[k] : k \in plausible}
           Chosen(d, ambiguous) == [delimiter |-> d, ambiguous |-> ambiguous]
           chosen == detect_csv_delimiter(lines, confirmed, sniffed)
<1>1. IsText(header)
  BY FirstIsText
<1>2. plausible # {} => first \in plausible
  <2>1. plausible \subseteq DOMAIN CSV_DELIMITERS
    OBVIOUS
  <2> HIDE DEF plausible, header
  <2> QED
    BY <1>1, <2>1, LeaderIsOne
<1>3. sniffed # Unset /\ (plausible # {} => CSV_DELIMITERS[first] # Unset)
  BY <1>2, WorkbookAssumption DEF ToSet
<1>4. \/ confirmed # Unset /\ chosen = Chosen(confirmed, FALSE)
      \/ /\ confirmed = Unset
         /\ \E ambiguous \in BOOLEAN :
              \/ chosen = Chosen(sniffed, ambiguous)
              \/ plausible # {} /\ chosen = Chosen(CSV_DELIMITERS[first], ambiguous)
  BY Zenon DEF detect_csv_delimiter
<1> HIDE DEF chosen, first, plausible
<1> QED
  BY <1>3, <1>4 DEF chosen

LEMMA UnderHeaders ==
  ASSUME NEW n \in Nat, NEW headers, DOMAIN headers = 1..n, NEW cells
  PROVE  /\ \A c \in 1..n : Carried(headers, c) =>
              Under(headers, cells)[headers[c]] = CellAt(cells, c)
         /\ \A h \in DOMAIN Under(headers, cells) : \E c \in 1..n :
              headers[c] = h /\ Under(headers, cells)[h] = CellAt(cells, c)
<1> DEFINE columns(h) == {i \in DOMAIN headers : headers[i] = h}
<1>1. /\ DOMAIN Under(headers, cells) = ToSet(headers)
      /\ \A h \in ToSet(headers) : Under(headers, cells)[h] = CellAt(cells, Max(columns(h)))
  BY DEF Under
<1>2. \A h \in ToSet(headers) : Max(columns(h)) \in columns(h)
                                /\ \A k \in columns(h) : k <= Max(columns(h))
  <2>1. TAKE h \in ToSet(headers)
  <2>2. columns(h) \subseteq 0..n /\ columns(h) # {}
    BY DEF ToSet
  <2> HIDE DEF columns
  <2> QED
    BY <2>2, MaxIsGreatest
<1>3. ASSUME NEW c \in 1..n, Carried(headers, c)
      PROVE  Under(headers, cells)[headers[c]] = CellAt(cells, c)
  <2>1. headers[c] \in ToSet(headers) /\ c \in columns(headers[c])
    BY DEF ToSet
  <2>2. Max(columns(headers[c])) \in 1..n /\ c <= Max(columns(headers[c]))
        /\ headers[Max(columns(headers[c]))] = headers[c]
    BY <1>2, <2>1
  <2>3. Max(columns(headers[c])) = c
    BY <1>3, <2>2 DEF Carried
  <2> QED
    BY <1>1, <2>1, <2>3
<1>4. ASSUME NEW h \in DOMAIN Under(headers, cells)
      PROVE  \E c \in 1..n : headers[c] = h /\ Under(headers, cells)[h] = CellAt(cells, c)
  BY <1>1, <1>2
<1> QED
  BY <1>3, <1>4

-----------------------------------------------------------------------------
(* What _parse_csv returns, by the delimiter it has chosen.                *)
CsvTable(u, d, ambiguous) ==
  LET lines == u.lines["csv"]
      headers == Split(lines[1], d)
  IN [error |-> "no", sheet |-> "csv", headers |-> headers,
      delimiter |-> d, ambiguous |-> ambiguous,
      rows |-> [i \in 1..(Len(lines) - 1) |->
                  [number |-> i + 1, values |-> Under(headers, Split(lines[i + 1], d)),
                   formulas |-> {}]]]

CsvRefused(u, d) ==
  LET lines == u.lines["csv"]
      cells(i) == Split(lines[i], d)
      headers == cells(1)
      examined == 2..(IF Len(lines) > Limits.max_rows THEN Limits.max_rows + 1 ELSE Len(lines))
  IN \/ u.content = "not utf-8" \/ lines = <<>> \/ HasLong(headers, Len(headers))
     \/ \A i \in DOMAIN headers : headers[i] = <<>>
     \/ Len(headers) > Limits.max_columns
     \/ \E i \in examined : HasLong(cells(i), Len(headers))
     \/ Len(lines) > Limits.max_rows + 1

LEMMA CsvIsTable ==
  ASSUME NEW u, NEW confirmed, NEW sniffed
  PROVE  LET chosen == detect_csv_delimiter(u.lines["csv"], confirmed, sniffed)
             t == _parse_csv(u, confirmed, sniffed)
         IN /\ t.error = "no" <=> ~CsvRefused(u, chosen.delimiter)
            /\ t.error = "no" => t = CsvTable(u, chosen.delimiter, chosen.ambiguous)
<1> DEFINE chosen == detect_csv_delimiter(u.lines["csv"], confirmed, sniffed)
           t == _parse_csv(u, confirmed, sniffed)
           d == chosen.delimiter
<1>1. CASE CsvRefused(u, d)
  <2>1. \E code \in {"UnicodeDecodeError", "MISSING_COLUMN", "UNSUPPORTED_FILE",
                    "PAYLOAD_TOO_LARGE"} :
          t = Refused(code)
    BY <1>1, Zenon DEF CsvRefused, _parse_csv
  <2>2. t.error # "no"
    <3> HIDE DEF t
    <3> QED
      BY <2>1 DEF Refused
  <2> QED
    BY <1>1, <2>2
<1>2. CASE ~CsvRefused(u, d)
  <2>1. t = CsvTable(u, d, chosen.ambiguous)
    BY <1>2, Zenon DEF CsvRefused, CsvTable, _parse_csv
  <2>2. t.error = "no"
    <3> HIDE DEF t, d, chosen
    <3> QED
      BY <2>1 DEF CsvTable
  <2> QED
    BY <1>2, <2>1, <2>2
<1> QED
  BY <1>1, <1>2

(* What _sheet_table returns, by the row of its header.                    *)
SheetTable(title, lines, header) ==
  LET grid == [i \in DOMAIN lines |-> iter_rows(lines[i])]
      headers == grid[header]
  IN [error |-> "no", sheet |-> title, headers |-> headers,
      delimiter |-> Unset, ambiguous |-> FALSE,
      rows |-> [i \in 1..(Len(grid) - header) |->
                  [number |-> header + i, values |-> Under(headers, grid[header + i]),
                   formulas |-> {headers[c] : c \in {k \in 1..Limits.max_columns :
                                                      _is_formula(grid[header + i][k])}}]]]

Filled(lines) ==
  {i \in DOMAIN lines : \E c \in 1..Limits.max_columns : CellAt(lines[i], c) # <<>>}

LEMMA FilledRows ==
  ASSUME NEW lines
  PROVE  LET grid == [i \in DOMAIN lines |-> iter_rows(lines[i])]
         IN {i \in DOMAIN grid : \E c \in DOMAIN grid[i] : grid[i][c] # <<>>} = Filled(lines)
BY DEF Filled, iter_rows

LEMMA SheetIsTable ==
  ASSUME NEW title, NEW lines, DOMAIN lines \subseteq Nat \ {0},
         _sheet_table(title, lines).error = "no"
  PROVE  \E header \in Filled(lines) :
           /\ \A i \in Filled(lines) : header <= i
           /\ _sheet_table(title, lines) = SheetTable(title, lines, header)
<1> DEFINE grid == [i \in DOMAIN lines |-> iter_rows(lines[i])]
           filled == {i \in DOMAIN grid : \E c \in DOMAIN grid[i] : grid[i][c] # <<>>}
           header == IF filled = {} THEN 0 ELSE Min(filled)
           row_error(i) ==
             IF i * Limits.max_columns > Limits.max_cells THEN "PAYLOAD_TOO_LARGE"
             ELSE IF HasLong(grid[i], Limits.max_columns) THEN "UNSUPPORTED_FILE"
             ELSE IF header # 0 /\ i - header > Limits.max_rows THEN "PAYLOAD_TOO_LARGE"
             ELSE "no"
           wrong == {i \in DOMAIN grid : row_error(i) # "no"}
           t == _sheet_table(title, lines)
<1>1. filled = Filled(lines)
  BY FilledRows
<1>2. wrong # {} => Min(wrong) \in wrong
  <2>1. wrong \subseteq Nat
    OBVIOUS
  <2> HIDE DEF wrong
  <2> QED
    BY <2>1, MinIsLeast
<1>3. filled # {} => Min(filled) \in filled /\ \A i \in filled : Min(filled) <= i
  <2>1. filled \subseteq Nat
    OBVIOUS
  <2> HIDE DEF filled
  <2> QED
    BY <2>1, MinIsLeast
<1>4. \/ wrong # {} /\ t = Refused(row_error(Min(wrong)))
      \/ header = 0 /\ t = Refused("MISSING_COLUMN")
      \/ header # 0 /\ t = SheetTable(title, lines, header)
  BY Zenon DEF _sheet_table, SheetTable
<1>5. wrong # {} => row_error(Min(wrong)) # "no"
  BY <1>2
<1> HIDE DEF wrong, row_error, t
<1>6. header # 0 /\ t = SheetTable(title, lines, header)
  <2> HIDE DEF header
  <2> QED
    BY <1>4, <1>5 DEF Refused, t
<1>7. header \in filled /\ \A i \in filled : header <= i
  <2> HIDE DEF filled
  <2> QED
    BY <1>3, <1>6
<1> HIDE DEF header, filled
<1> QED
  BY <1>1, <1>6, <1>7 DEF t

-----------------------------------------------------------------------------
(* What the object in storage is, however many lines it has.               *)
Uploaded(u) ==
  /\ u.sheets \in Seq(ToSet(u.sheets))
  /\ \A i \in DOMAIN u.sheets : u.sheets[i].title \in DOMAIN u.lines \ {Unset}
  /\ u.extension = "csv" => "csv" \in DOMAIN u.lines
  /\ \A s \in DOMAIN u.lines : IsTexts(u.lines[s])

Title(u, sheet_name) ==
  u.sheets[Min({i \in DOMAIN u.sheets : /\ u.sheets[i].visible
                                        /\ sheet_name \in {Unset, u.sheets[i].title}})].title

XlsxRefused(u) ==
  \/ _reject_dangerous_xlsx(u) # "no"
  \/ {i \in DOMAIN u.sheets : u.sheets[i].visible} = {}
  \/ Len(u.sheets) > Limits.max_sheets

LEMMA XlsxIsTable ==
  ASSUME NEW u, Uploaded(u), NEW sheet_name, _parse_xlsx(u, sheet_name).error = "no"
  PROVE  LET title == Title(u, sheet_name)
         IN /\ ~XlsxRefused(u)
            /\ \E i \in DOMAIN u.sheets : u.sheets[i].visible /\ u.sheets[i].title = title
            /\ _parse_xlsx(u, sheet_name) = _sheet_table(title, u.lines[title])
<1> DEFINE visible == {i \in DOMAIN u.sheets : u.sheets[i].visible}
           selected == {i \in visible : sheet_name \in {Unset, u.sheets[i].title}}
           title == u.sheets[Min(selected)].title
           t == _parse_xlsx(u, sheet_name)
<1>1. selected = {i \in DOMAIN u.sheets : /\ u.sheets[i].visible
                                          /\ sheet_name \in {Unset, u.sheets[i].title}}
  OBVIOUS
<1>2. selected # {} => Min(selected) \in selected
  <2>1. selected \subseteq Nat
    BY DEF Uploaded
  <2> HIDE DEF selected
  <2> QED
    BY <2>1, MinIsLeast
<1>3. \/ _reject_dangerous_xlsx(u) # "no" /\ t = Refused(_reject_dangerous_xlsx(u))
      \/ t = Refused("UNSUPPORTED_FILE")
      \/ /\ ~XlsxRefused(u) /\ selected # {}
         /\ t = _sheet_table(title, u.lines[title])
  BY Zenon DEF _parse_xlsx, XlsxRefused
<1> HIDE DEF t
<1>4. ~XlsxRefused(u) /\ selected # {} /\ t = _sheet_table(title, u.lines[title])
  <2> HIDE DEF title, selected
  <2> QED
    BY <1>3 DEF Refused, t
<1>5. \E i \in DOMAIN u.sheets : u.sheets[i].visible /\ u.sheets[i].title = title
  BY <1>2, <1>4
<1>6. Title(u, sheet_name) = title
  <2> HIDE DEF selected
  <2> QED
    BY <1>1 DEF Title
<1> HIDE DEF title, selected
<1> QED
  BY <1>4, <1>5, <1>6 DEF t

(* The sheet that was read is found again by its name.                     *)
LEMMA SheetIsFoundAgain ==
  ASSUME NEW u, Uploaded(u), NEW sheet_name, _parse_xlsx(u, sheet_name).error = "no"
  PROVE  _parse_xlsx(u, Title(u, sheet_name)) = _parse_xlsx(u, sheet_name)
<1> DEFINE title == Title(u, sheet_name)
           again == {i \in DOMAIN u.sheets : /\ u.sheets[i].visible
                                             /\ title \in {Unset, u.sheets[i].title}}
<1>1. /\ ~XlsxRefused(u)
      /\ \E i \in DOMAIN u.sheets : u.sheets[i].visible /\ u.sheets[i].title = title
      /\ _parse_xlsx(u, sheet_name) = _sheet_table(title, u.lines[title])
  BY XlsxIsTable
<1>2. title # Unset
  BY <1>1 DEF Uploaded
<1> HIDE DEF title
<1>3. again # {} /\ \A i \in again : u.sheets[i].title = title
  BY <1>1, <1>2
<1>4. u.sheets[Min(again)].title = title
  <2>1. again \subseteq Nat
    BY DEF Uploaded
  <2> HIDE DEF again
  <2> QED
    BY <1>3, <2>1, MinIsLeast
<1>5. again = {i \in {j \in DOMAIN u.sheets : u.sheets[j].visible} :
                 title \in {Unset, u.sheets[i].title}}
  OBVIOUS
<1>6. _parse_xlsx(u, title) = _sheet_table(title, u.lines[title])
  <2> HIDE DEF again
  <2> QED
    BY <1>1, <1>3, <1>4, <1>5 DEF _parse_xlsx, XlsxRefused
<1> QED
  BY <1>1, <1>6 DEF title

IsTable(t, sheet, headers, delimiter, ambiguous, grid) ==
  t = [error |-> "no", sheet |-> sheet, headers |-> headers,
       delimiter |-> delimiter, ambiguous |-> ambiguous, rows |-> grid]

LEMMA OtherwiseEqual ==
  ASSUME NEW sheet, NEW headers, NEW delimiter, NEW a, NEW b, NEW grid, NEW r, NEW s,
         IsTable(r, sheet, headers, delimiter, a, grid),
         IsTable(s, sheet, headers, delimiter, b, grid)
  PROVE  s = [r EXCEPT !.ambiguous = b] /\ r.sheet = sheet
<1> USE DEF IsTable
<1>1. DOMAIN r = {"error", "sheet", "headers", "delimiter", "ambiguous", "rows"}
  OBVIOUS
<1>2. \A x \in DOMAIN r : s[x] = IF x = "ambiguous" THEN b ELSE r[x]
  BY <1>1
<1>3. s = [x \in DOMAIN r |-> s[x]]
  BY <1>1
<1>4. s = [x \in DOMAIN r |-> IF x = "ambiguous" THEN b ELSE r[x]]
  BY <1>2, <1>3
<1>5. [r EXCEPT !.ambiguous = b] = [x \in DOMAIN r |-> IF x = "ambiguous" THEN b ELSE r[x]]
  BY Zenon
<1>6. r.sheet = sheet
  OBVIOUS
<1> QED
  BY <1>4, <1>5, <1>6, Zenon

LEMMA CsvFields ==
  ASSUME NEW u, NEW d
  PROVE  \E headers, grid : \A ambiguous :
           IsTable(CsvTable(u, d, ambiguous), "csv", headers, d, ambiguous, grid)
BY Zenon DEF CsvTable, IsTable

LEMMA SheetFields ==
  ASSUME NEW title, NEW lines, NEW header
  PROVE  \E headers, grid :
           IsTable(SheetTable(title, lines, header), title, headers, Unset, FALSE, grid)
BY Zenon DEF SheetTable, IsTable

LEMMA AcceptedTable ==
  ASSUME NEW u, NEW sheet_name, NEW delimiter, NEW sniffed, NEW t,
         t = _validate_body(u, sheet_name, delimiter, sniffed), t.error = "no"
  PROVE  /\ detect_kind(u) = "no" /\ validate_declared_media(u) = "no"
         /\ u.extension = "csv" => t = _parse_csv(u, delimiter, sniffed)
         /\ u.extension # "csv" => t = _parse_xlsx(u, sheet_name)
<1> DEFINE table == parse_workbook(u, sheet_name, delimiter, sniffed)
<1>1. t = table
  <2>1. t = Refused("UNSUPPORTED_FILE") \/ t = table
    BY Zenon DEF _validate_body
  <2> HIDE DEF table
  <2> QED
    BY <2>1 DEF Refused
<1>2. \/ detect_kind(u) # "no" /\ table = Refused(detect_kind(u))
      \/ validate_declared_media(u) # "no" /\ table = Refused(validate_declared_media(u))
      \/ /\ detect_kind(u) = "no" /\ validate_declared_media(u) = "no"
         /\ u.extension = "csv" => table = _parse_csv(u, delimiter, sniffed)
         /\ u.extension # "csv" => table = _parse_xlsx(u, sheet_name)
  BY Zenon DEF parse_workbook
<1> HIDE DEF table
<1> QED
  BY <1>1, <1>2 DEF Refused

LEMMA AcceptedCsv ==
  ASSUME NEW u, Uploaded(u), u.extension = "csv",
         NEW sheet_name, NEW delimiter, NEW sniffed \in Sniffed, NEW t,
         t = _validate_body(u, sheet_name, delimiter, sniffed), t.error = "no"
  PROVE  /\ t.delimiter # Unset /\ ~CsvRefused(u, t.delimiter)
         /\ t = CsvTable(u, t.delimiter, t.ambiguous)
<1> DEFINE lines == u.lines["csv"]
           chosen == detect_csv_delimiter(lines, delimiter, sniffed)
<1>1. t = _parse_csv(u, delimiter, sniffed)
  BY AcceptedTable
<1>2. ~CsvRefused(u, chosen.delimiter) /\ t = CsvTable(u, chosen.delimiter, chosen.ambiguous)
  BY <1>1, CsvIsTable
<1>3. IsTexts(lines)
  BY DEF Uploaded
<1>4. chosen.delimiter # Unset
  <2> HIDE DEF lines
  <2> QED
    BY <1>3, DelimiterIsFound
<1>5. t.delimiter = chosen.delimiter /\ t.ambiguous = chosen.ambiguous
  <2> HIDE DEF chosen
  <2> QED
    BY <1>2 DEF CsvTable
<1> QED
  BY <1>2, <1>4, <1>5

LEMMA AcceptedSheet ==
  ASSUME NEW u, Uploaded(u), u.extension # "csv",
         NEW sheet_name, NEW delimiter, NEW sniffed, NEW t,
         t = _validate_body(u, sheet_name, delimiter, sniffed), t.error = "no"
  PROVE  /\ t.sheet \in DOMAIN u.lines /\ t.sheet = Title(u, sheet_name)
         /\ t = _sheet_table(t.sheet, u.lines[t.sheet])
         /\ t = [t EXCEPT !.ambiguous = FALSE]
<1> DEFINE title == Title(u, sheet_name)
<1>1. t = _parse_xlsx(u, sheet_name)
  BY AcceptedTable
<1>2. t = _sheet_table(title, u.lines[title]) /\ title \in DOMAIN u.lines
  <2>1. \A i \in DOMAIN u.sheets : u.sheets[i].title \in DOMAIN u.lines
    BY DEF Uploaded
  <2> QED
    BY <1>1, <2>1, XlsxIsTable
<1>3. DOMAIN u.lines[title] \subseteq Nat \ {0}
  <2>1. u.lines[title] \in Seq(ToSet(u.lines[title]))
    BY <1>2 DEF Uploaded, IsTexts
  <2> QED
    BY <2>1
<1> HIDE DEF title
<1>4. PICK header : t = SheetTable(title, u.lines[title], header)
  BY <1>2, <1>3, SheetIsTable
<1>5. t.sheet = title /\ t = [t EXCEPT !.ambiguous = FALSE]
  <2> DEFINE no == FALSE
  <2>1. PICK headers, grid : IsTable(t, title, headers, Unset, no, grid)
    BY <1>4, SheetFields
  <2> HIDE DEF no
  <2>2. t.sheet = title /\ t = [t EXCEPT !.ambiguous = no]
    BY <2>1, OtherwiseEqual
  <2> QED
    BY <2>2 DEF no
<1> QED
  BY <1>2, <1>5 DEF title

(* The preview and the application read the table that was validated.      *)
ReadsTheSame(u, t, sniffed) ==
  _load_table(u, Stored(t), sniffed) = [t EXCEPT !.ambiguous = FALSE]

LEMMA ReadsAgain ==
  ASSUME NEW u, Uploaded(u), NEW sheet_name, NEW delimiter, NEW sniffed \in Sniffed, NEW t,
         t = _validate_body(u, sheet_name, delimiter, sniffed), t.error = "no"
  PROVE  ReadsTheSame(u, t, sniffed)
<1>1. detect_kind(u) = "no" /\ validate_declared_media(u) = "no"
  BY AcceptedTable
<1>2. Stored(t).sheet_name = t.sheet /\ Stored(t).delimiter = t.delimiter
  BY DEF Stored
<1>3. CASE u.extension = "csv"
  <2> DEFINE lines == u.lines["csv"]
             chosen == detect_csv_delimiter(lines, t.delimiter, sniffed)
             again == _parse_csv(u, t.delimiter, sniffed)
  <2>1. /\ t.delimiter # Unset /\ ~CsvRefused(u, t.delimiter)
        /\ t = CsvTable(u, t.delimiter, t.ambiguous)
    BY <1>3, AcceptedCsv
  <2>2. IsTexts(lines)
    BY <1>3 DEF Uploaded
  <2>3. chosen.delimiter = t.delimiter /\ chosen.ambiguous = FALSE
    <3>1. chosen = [delimiter |-> t.delimiter, ambiguous |-> FALSE]
      <4> HIDE DEF lines
      <4> QED
        BY <2>1, <2>2, DelimiterIsFound
    <3> HIDE DEF chosen
    <3> QED
      BY <3>1
  <2>4. again = CsvTable(u, t.delimiter, FALSE)
    BY <2>1, <2>3, CsvIsTable
  <2>5. CsvTable(u, t.delimiter, FALSE)
          = [CsvTable(u, t.delimiter, t.ambiguous) EXCEPT !.ambiguous = FALSE]
    <3> DEFINE no == FALSE
               r == CsvTable(u, t.delimiter, t.ambiguous)
               s == CsvTable(u, t.delimiter, no)
    <3> HIDE DEF no
    <3>1. PICK headers, grid : \A a :
            IsTable(CsvTable(u, t.delimiter, a), "csv", headers, t.delimiter, a, grid)
      BY CsvFields
    <3>2. /\ IsTable(r, "csv", headers, t.delimiter, t.ambiguous, grid)
          /\ IsTable(s, "csv", headers, t.delimiter, no, grid)
      BY <3>1
    <3>3. s = [r EXCEPT !.ambiguous = no]
      <4> HIDE DEF r, s
      <4> QED
        BY <3>2, OtherwiseEqual
    <3> QED
      BY <3>3 DEF no
  <2>6. _load_table(u, Stored(t), sniffed) = again
    <3> HIDE DEF again
    <3> QED
      BY <1>1, <1>2, <1>3 DEF _load_table, parse_workbook, again
  <2> HIDE DEF again, chosen
  <2> QED
    BY <2>1, <2>4, <2>5, <2>6 DEF ReadsTheSame
<1>4. CASE u.extension # "csv"
  <2>1. t = _parse_xlsx(u, sheet_name) /\ t.sheet = Title(u, sheet_name)
        /\ t = [t EXCEPT !.ambiguous = FALSE]
    BY <1>4, AcceptedTable, AcceptedSheet
  <2>2. _parse_xlsx(u, t.sheet) = t
    BY <2>1, SheetIsFoundAgain
  <2>3. _load_table(u, Stored(t), sniffed) = _parse_xlsx(u, t.sheet)
    BY <1>1, <1>2, <1>4 DEF _load_table, parse_workbook
  <2> QED
    BY <2>1, <2>2, <2>3 DEF ReadsTheSame
<1> QED
  BY <1>3, <1>4

(* Two tables of one import are one.                                       *)
LEMMA TablesToldApart ==
  ASSUME NEW u, Uploaded(u), NEW sniffed \in Sniffed,
         NEW sheet1, NEW delimiter1, NEW s, NEW sheet2, NEW delimiter2, NEW t,
         s = _validate_body(u, sheet1, delimiter1, sniffed), s.error = "no",
         t = _validate_body(u, sheet2, delimiter2, sniffed), t.error = "no",
         s.sheet = t.sheet, fingerprint(u, Stored(s)) = fingerprint(u, Stored(t))
  PROVE  s.rows = t.rows
<1>1. s.delimiter = t.delimiter
  BY DEF fingerprint, Stored
<1>2. CASE u.extension = "csv"
  <2>1. s = CsvTable(u, t.delimiter, s.ambiguous) /\ t = CsvTable(u, t.delimiter, t.ambiguous)
    BY <1>1, <1>2, AcceptedCsv
  <2>2. CsvTable(u, t.delimiter, s.ambiguous).rows = CsvTable(u, t.delimiter, t.ambiguous).rows
    BY DEF CsvTable
  <2> QED
    BY <2>1, <2>2
<1>3. CASE u.extension # "csv"
  <2>1. s = _sheet_table(s.sheet, u.lines[s.sheet]) /\ t = _sheet_table(t.sheet, u.lines[t.sheet])
    BY <1>3, AcceptedSheet
  <2> QED
    BY <2>1
<1> QED
  BY <1>2, <1>3

-----------------------------------------------------------------------------
(* Every cell with a header of its own is found under it, and nothing else *)
(* is.                                                                     *)
Holds(values, headers, cells) ==
  /\ \A c \in DOMAIN cells : Carried(headers, c) => values[headers[c]] = cells[c]
  /\ \A h \in DOMAIN values :
       values[h] # <<>> => \E c \in DOMAIN cells : headers[c] = h /\ values[h] = cells[c]

LEMMA RowKept ==
  ASSUME NEW m \in Nat, NEW headers, DOMAIN headers = 1..m, NEW cells, NEW read,
         \A c \in 1..m : CellAt(read, c) = CellAt(cells, c)
  PROVE  Holds(Under(headers, read), headers, cells)
<1> DEFINE values == Under(headers, read)
<1>1. /\ \A c \in 1..m : Carried(headers, c) => values[headers[c]] = CellAt(read, c)
      /\ \A h \in DOMAIN values : \E c \in 1..m :
           headers[c] = h /\ values[h] = CellAt(read, c)
  BY UnderHeaders
<1> HIDE DEF values
<1>2. ASSUME NEW c \in DOMAIN cells, Carried(headers, c)
      PROVE  values[headers[c]] = cells[c]
  BY <1>1, <1>2 DEF Carried, CellAt
<1>3. ASSUME NEW h \in DOMAIN values, values[h] # <<>>
      PROVE  \E c \in DOMAIN cells : headers[c] = h /\ values[h] = cells[c]
  BY <1>1, <1>3 DEF CellAt
<1> QED
  BY <1>2, <1>3 DEF values, Holds

LEMMA CsvLinesKept ==
  ASSUME NEW u, Uploaded(u), u.extension = "csv", NEW t,
         t = CsvTable(u, t.delimiter, t.ambiguous), ~CsvRefused(u, t.delimiter)
  PROVE  LinesKept(u, t)
<1> DEFINE lines == u.lines["csv"]
           n == Len(lines)
           d == t.delimiter
           headers == Split(lines[1], d)
           Made(i) == [number |-> i + 1, values |-> Under(headers, Split(lines[i + 1], d)),
                       formulas |-> {}]
           made == [i \in 1..(n - 1) |-> Made(i)]
<1>1. /\ lines # <<>> /\ IsTexts(lines)
      /\ n \in Nat \ {0} /\ DOMAIN lines = 1..n
  <2>1. lines # <<>> /\ IsTexts(lines)
    BY DEF CsvRefused, Uploaded
  <2> HIDE DEF lines
  <2> QED
    BY <2>1, EmptySeq DEF IsTexts
<1>2. PICK m \in Nat : DOMAIN headers = 1..m
  <2>1. IsText(lines[1])
    BY <1>1 DEF IsTexts
  <2> HIDE DEF lines
  <2> QED
    BY <2>1, SplitDomain
<1>3. t.rows = made /\ t.headers = headers
  <2>1. CsvTable(u, d, t.ambiguous).rows = made /\ CsvTable(u, d, t.ambiguous).headers = headers
    BY DEF CsvTable
  <2> HIDE DEF made, headers, d
  <2> QED
    BY <2>1 DEF d
<1> HIDE DEF lines, n, headers, d
<1>4. Len(t.rows) = n - 1 /\ DOMAIN t.rows = 1..(n - 1)
  <2>1. n - 1 \in Nat /\ made = [i \in 1..(n - 1) |-> made[i]] /\ DOMAIN made = 1..(n - 1)
    BY <1>1
  <2> HIDE DEF made
  <2> QED
    BY <1>3, <2>1, MadeSequence
<1>5. n - Len(t.rows) = 1
  BY <1>1, <1>4
<1>6. ASSUME NEW k \in 1..(n - 1)
      PROVE  LineKept(u, t, t.rows[k], 1 + k)
  <2> DEFINE cells == Split(lines[1 + k], d)
             row == t.rows[k]
  <2>1. k + 1 = 1 + k
    BY <1>1
  <2>2. row.number = 1 + k /\ row.values = Under(headers, cells)
    BY <1>3, <2>1
  <2>3. CellsOf(u, t, 1 + k) = cells
    BY DEF CellsOf, lines, d
  <2> HIDE DEF cells, row
  <2>4. Holds(row.values, headers, cells)
    BY <1>2, <2>2, RowKept
  <2> QED
    BY <1>3, <2>2, <2>3, <2>4 DEF LineKept, Holds, row
<1> HIDE DEF made
<1>7. \A k \in DOMAIN t.rows : LineKept(u, t, t.rows[k], 1 + k)
  BY <1>4, <1>6
<1>8. 1..(1 - 1) = {}
  OBVIOUS
<1> QED
  BY <1>5, <1>7, <1>8 DEF LinesKept, lines, n

LEMMA FormulasKept ==
  ASSUME NEW line, IsText(line), NEW headers
  PROVE  {headers[c] : c \in {k \in 1..Limits.max_columns : _is_formula(iter_rows(line)[k])}}
           = FormulaColumns(headers, line)
<1> DEFINE max == Limits.max_columns
<1>1. max \in Nat
  BY WorkbookAssumption
<1>2. Len(line) \in Nat /\ DOMAIN line = 1..Len(line)
  BY DEF IsText
<1>3. \A k \in 1..max : iter_rows(line)[k] = IF k \in DOMAIN line THEN line[k] ELSE <<>>
  BY DEF iter_rows, CellAt
<1>4. ~_is_formula(<<>>)
  BY DEF _is_formula
<1> HIDE DEF max
<1>5. {k \in 1..max : _is_formula(iter_rows(line)[k])}
        = {k \in DOMAIN line : k <= max /\ _is_formula(line[k])}
  BY <1>1, <1>2, <1>3, <1>4
<1> QED
  BY <1>5 DEF max, FormulaColumns

LEMMA SheetLinesKept ==
  ASSUME NEW u, Uploaded(u), u.extension # "csv", NEW t, t.sheet \in DOMAIN u.lines,
         t = _sheet_table(t.sheet, u.lines[t.sheet]), t.error = "no"
  PROVE  LinesKept(u, t)
<1> DEFINE lines == u.lines[t.sheet]
           n == Len(lines)
           max == Limits.max_columns
<1>1. IsTexts(lines) /\ n \in Nat /\ DOMAIN lines = 1..n
  BY DEF Uploaded, IsTexts
<1>2. DOMAIN lines \subseteq Nat \ {0}
  BY <1>1
<1>3. PICK header \in Filled(lines) :
         /\ \A i \in Filled(lines) : header <= i
         /\ t = SheetTable(t.sheet, lines, header)
  BY <1>2, SheetIsTable
<1> DEFINE grid == [i \in DOMAIN lines |-> iter_rows(lines[i])]
           headers == grid[header]
           Made(i) == [number |-> header + i, values |-> Under(headers, grid[header + i]),
                       formulas |-> {headers[c] : c \in {k \in 1..Limits.max_columns :
                                                          _is_formula(grid[header + i][k])}}]
           made == [i \in 1..(Len(grid) - header) |-> Made(i)]
<1>4. header \in 1..n /\ max \in Nat
  BY <1>1, WorkbookAssumption DEF Filled
<1>5. DOMAIN headers = 1..max
  BY <1>1, <1>4 DEF iter_rows
<1>6. t.rows = made /\ t.headers = headers
  <2>1. /\ SheetTable(t.sheet, lines, header).rows = made
        /\ SheetTable(t.sheet, lines, header).headers = headers
    BY DEF SheetTable
  <2> HIDE DEF made, headers, lines
  <2> QED
    BY <1>3, <2>1
<1>7. Len(grid) = n
  <2>1. grid = [i \in 1..n |-> grid[i]]
    BY <1>1
  <2> HIDE DEF grid
  <2> QED
    BY <1>1, <2>1, MadeSequence
<1>8. Len(t.rows) = n - header /\ DOMAIN t.rows = 1..(n - header)
  <2>1. n - header \in Nat
    BY <1>1, <1>4
  <2>2. made = [i \in 1..(n - header) |-> made[i]] /\ DOMAIN made = 1..(n - header)
    BY <1>7
  <2> HIDE DEF made
  <2> QED
    BY <1>6, <2>1, <2>2, MadeSequence
<1>9. n - Len(t.rows) = header
  BY <1>1, <1>4, <1>8
<1>10. ASSUME NEW i \in 1..(header - 1), NEW c \in DOMAIN lines[i] \cap (1..max)
       PROVE  lines[i][c] = <<>>
  <2>1. i \in DOMAIN lines /\ ~(header <= i)
    BY <1>1, <1>4
  <2>2. CellAt(lines[i], c) = <<>>
    BY <1>3, <2>1 DEF Filled
  <2> QED
    BY <2>2 DEF CellAt
<1>11. ASSUME NEW k \in 1..(n - header)
       PROVE  LineKept(u, t, t.rows[k], header + k)
  <2> DEFINE cells == lines[header + k]
             row == t.rows[k]
  <2>1. header + k \in 1..n
    BY <1>1, <1>4
  <2>2. grid[header + k] = iter_rows(cells) /\ IsText(cells)
    BY <1>1, <2>1 DEF IsTexts
  <2>3. row = Made(k)
    BY <1>6, <1>7
  <2>4. /\ row.number = header + k /\ row.values = Under(headers, iter_rows(cells))
        /\ row.formulas = {headers[c] : c \in {j \in 1..Limits.max_columns :
                                               _is_formula(iter_rows(cells)[j])}}
    <3> HIDE DEF grid, headers, cells
    <3> QED
      BY <2>2, <2>3
  <2>5. \A c \in 1..max : CellAt(iter_rows(cells), c) = CellAt(cells, c)
    BY <1>4 DEF iter_rows, CellAt
  <2>6. CellsOf(u, t, header + k) = cells
    BY DEF CellsOf
  <2> HIDE DEF cells, row, headers, grid, max
  <2>7. Holds(row.values, headers, cells)
    <3>1. Holds(Under(headers, iter_rows(cells)), headers, cells)
      BY <1>4, <1>5, <2>5, RowKept
    <3> QED
      BY <2>4, <3>1
  <2>8. row.formulas = FormulaColumns(headers, cells)
    BY <2>2, <2>4, FormulasKept, Zenon
  <2> QED
    BY <1>6, <2>4, <2>6, <2>7, <2>8 DEF LineKept, Holds, row
<1> HIDE DEF made, headers, grid
<1>12. \A k \in DOMAIN t.rows : LineKept(u, t, t.rows[k], header + k)
  BY <1>8, <1>11
<1> QED
  BY <1>9, <1>10, <1>12 DEF LinesKept

-----------------------------------------------------------------------------
(* Whatever lines an import's file has.                                    *)
UploadInv ==
  /\ {"extension", "sheets", "lines"} \subseteq DOMAIN upload
  /\ \A line \in BookLines[upload.extension] : IsText(line)
  /\ upload.sheets \in Seq(ToSet(upload.sheets))
  /\ \A i \in DOMAIN upload.sheets : upload.sheets[i].title \in DOMAIN upload.lines \ {Unset}
  /\ upload.extension = "csv" => "csv" \in DOMAIN upload.lines
  /\ \A s \in DOMAIN upload.lines : upload.lines[s] \in Seq(BookLines[upload.extension])

LEMMA UploadInvIsInvariant == UploadSpec => []UploadInv
<1>1. UploadInit => UploadInv
  <2> SUFFICES ASSUME UploadInit
               PROVE  UploadInv
    OBVIOUS
  <2>1. \A s \in DOMAIN upload.lines : upload.lines[s] \in Seq(BookLines[upload.extension])
    <3>1. \A s \in DOMAIN upload.lines : upload.lines[s] = <<>>
      BY WorkbookAssumption DEF UploadInit
    <3> QED
      BY <3>1, EmptySeq
  <2> QED
    BY <2>1, WorkbookAssumption DEF UploadInit, UploadInv, IsText
<1>2. UploadInv /\ [AddLine]_upload => UploadInv'
  <2> SUFFICES ASSUME UploadInv, [AddLine]_upload
               PROVE  UploadInv'
    OBVIOUS
  <2>1. CASE AddLine
    <3>1. PICK s \in DOMAIN upload.lines, line \in BookLines[upload.extension] :
             upload' = [upload EXCEPT !.lines[s] = Append(@, line)]
      BY <2>1, Zenon DEF AddLine
    <3> DEFINE longer == [upload.lines EXCEPT ![s] = Append(@, line)]
    <3>2. /\ DOMAIN upload' = DOMAIN upload
          /\ upload'.extension = upload.extension /\ upload'.sheets = upload.sheets
          /\ upload'.lines = longer
      BY <3>1 DEF UploadInv
    <3>3. /\ DOMAIN longer = DOMAIN upload.lines
          /\ \A x \in DOMAIN longer : longer[x] \in Seq(BookLines[upload.extension])
      <4> DEFINE L == BookLines[upload.extension]
      <4>1. \A x \in DOMAIN upload.lines : upload.lines[x] \in Seq(L)
        BY DEF UploadInv
      <4>2. Append(upload.lines[s], line) \in Seq(L)
        BY <4>1, AppendProperties
      <4> HIDE DEF L
      <4> QED
        BY <4>1, <4>2 DEF L
    <3> HIDE DEF longer
    <3> QED
      BY <3>2, <3>3 DEF UploadInv
  <2>2. CASE UNCHANGED upload
    BY <2>2 DEF UploadInv
  <2> QED
    BY <2>1, <2>2
<1> QED
  BY <1>1, <1>2, PTL DEF UploadSpec

LEMMA UploadedFile == UploadInv => Uploaded(upload)
<1> SUFFICES ASSUME UploadInv
             PROVE  Uploaded(upload)
  OBVIOUS
<1>1. ASSUME NEW s \in DOMAIN upload.lines
      PROVE  IsTexts(upload.lines[s])
  <2> DEFINE L == BookLines[upload.extension]
             lines == upload.lines[s]
  <2>1. lines \in Seq(L) /\ \A line \in L : IsText(line)
    BY DEF UploadInv
  <2> HIDE DEF L, lines
  <2>2. \A i \in DOMAIN lines : lines[i] \in L
    BY <2>1
  <2>3. lines \in Seq(ToSet(lines))
    <3>1. Len(lines) \in Nat /\ lines \in [1..Len(lines) -> L]
      BY <2>1, LenProperties
    <3>2. lines \in [1..Len(lines) -> ToSet(lines)]
      BY <3>1 DEF ToSet
    <3> QED
      BY <3>1, <3>2, SeqDef
  <2>4. IsTexts(lines)
    BY <2>1, <2>2, <2>3 DEF IsTexts
  <2> QED
    BY <2>4 DEF lines
<1> QED
  BY <1>1 DEF UploadInv, Uploaded

(* Whatever the lines of a file, its sheets and their titles, the limits   *)
(* and the delimiters: the preview and the application read the table that *)
(* was validated, no line of it is lost or misnumbered, and tables of one  *)
(* fingerprint are two sheets or one table (parse_workbook,                *)
(* _validate_body, _load_table, fingerprint_for).                          *)
THEOREM ValidatedIsApplied == UploadSpec => []AppliesWhatWasValidated
<1>1. Uploaded(upload) => AppliesWhatWasValidated
  <2> SUFFICES ASSUME Uploaded(upload)
               PROVE  AppliesWhatWasValidated
    OBVIOUS
  <2> DEFINE Accepted(sniffed) ==
        {t \in {_validate_body(upload, c[1], c[2], sniffed) : c \in SheetsAndDelimiters} :
           t.error = "no"}
  <2>1. ASSUME NEW sniffed \in Sniffed, NEW t \in Accepted(sniffed)
        PROVE  ReadsTheSame(upload, t, sniffed) /\ LinesKept(upload, t)
    <3>1. PICK sheet, delimiter : t = _validate_body(upload, sheet, delimiter, sniffed)
      BY <2>1
    <3>2. t.error = "no"
      BY <2>1
    <3> HIDE DEF Accepted
    <3>3. ReadsTheSame(upload, t, sniffed)
      BY <3>1, <3>2, ReadsAgain
    <3>4. CASE upload.extension = "csv"
      BY <3>1, <3>2, <3>3, <3>4, AcceptedCsv, CsvLinesKept
    <3>5. CASE upload.extension # "csv"
      BY <3>1, <3>2, <3>3, <3>5, AcceptedSheet, SheetLinesKept
    <3> QED
      BY <3>4, <3>5
  <2>2. ASSUME NEW sniffed \in Sniffed, NEW t \in Accepted(sniffed), NEW s \in Accepted(sniffed),
               s.sheet = t.sheet, fingerprint(upload, Stored(s)) = fingerprint(upload, Stored(t))
        PROVE  s.rows = t.rows
    <3>1. PICK sheet, delimiter : t = _validate_body(upload, sheet, delimiter, sniffed)
      BY <2>2
    <3>2. PICK sheet2, delimiter2 : s = _validate_body(upload, sheet2, delimiter2, sniffed)
      BY <2>2
    <3>3. t.error = "no" /\ s.error = "no"
      BY <2>2
    <3> HIDE DEF Accepted
    <3> QED
      BY <2>2, <3>1, <3>2, <3>3, TablesToldApart
  <2> QED
    BY <2>1, <2>2, Zenon DEF AppliesWhatWasValidated, ReadsTheSame
<1> QED
  BY <1>1, UploadInvIsInvariant, UploadedFile, PTL

-----------------------------------------------------------------------------
(* Rows of a file                                                          *)

LEMMA IssueSeverity ==
  ASSUME NEW condition, NEW field, NEW code
  PROVE  /\ \A x \in IssueIf(condition, field, code) : x.severity = "error"
         /\ IssueIf(condition, field, code) = {} <=> ~condition
<1>1. CASE condition
  <2>1. IssueIf(condition, field, code) = {_issue(field, code)}
    BY <1>1, Zenon DEF IssueIf
  <2>2. _issue(field, code).severity = "error"
    BY DEF _issue
  <2> QED
    BY <1>1, <2>1, <2>2, Zenon
<1>2. CASE ~condition
  BY <1>2 DEF IssueIf
<1> QED
  BY <1>1, <1>2

(* A row becomes an item exactly if it is sound; a row that does not is    *)
(* reported with an error, unless nothing is in it (normalize_row).        *)
THEOREM RowsAreSoundOrReported ==
  ASSUME NEW row, NEW s, validate_mapping(s.fields)
  PROVE  LET result == normalize_row(row, s)
         IN /\ Sound(row, s) => /\ result.item = Item(row, s)
                                /\ ~HasError(result.issues)
            /\ ~Sound(row, s) =>
                 /\ result.item = None
                 /\ HasError(result.issues) <=> ~(row.formulas = {} /\ Blank(row, s))
<1> DEFINE result == normalize_row(row, s)
           errors == Missing(row, s) \cup period_issues(row, s) \cup amount_issues(row, s)
                     \cup currency_issues(row, s) \cup _bounded(row, s)
                     \cup account_type_issues(row, s)
<1>1. CASE row.formulas # {}
  <2>1. ~Sound(row, s)
    BY <1>1 DEF Sound
  <2>2. /\ result.item = None
        /\ result.issues = {_issue(h, "FORMULA_NOT_ALLOWED") : h \in row.formulas}
    BY <1>1 DEF normalize_row
  <2>3. HasError(result.issues)
    <3>1. PICK h \in row.formulas : TRUE
      BY <1>1
    <3>2. /\ _issue(h, "FORMULA_NOT_ALLOWED") \in result.issues
          /\ _issue(h, "FORMULA_NOT_ALLOWED").severity = "error"
      BY <2>2, <3>1 DEF _issue
    <3> QED
      BY <3>2 DEF HasError
  <2> QED
    BY <1>1, <2>1, <2>2, <2>3
<1>2. CASE row.formulas = {} /\ Blank(row, s)
  <2>1. mapped_value(row, s, "period") = None
    BY <1>2 DEF Blank, validate_mapping, REQUIRED_FIELDS
  <2>2. ~Sound(row, s)
    BY <2>1 DEF Sound, REQUIRED_FIELDS
  <2>3. result.item = None /\ result.issues = {Warning("row", "EMPTY_OPTIONAL_VALUE")}
    BY <1>2 DEF normalize_row
  <2>4. ~HasError(result.issues)
    BY <2>3 DEF HasError, Warning
  <2> QED
    BY <1>2, <2>2, <2>3, <2>4
<1>3. CASE row.formulas = {} /\ ~Blank(row, s)
  <2>1. /\ result.item = IF errors = {} THEN Item(row, s) ELSE None
        /\ result.issues = errors \cup center_warnings(row, s)
    BY <1>3 DEF normalize_row
  <2>2. \A x \in errors : x.severity = "error"
    <3>1. \A x \in Missing(row, s) \cup _bounded(row, s) : x.severity = "error"
      BY DEF Missing, _bounded, _issue
    <3>2. \A x \in period_issues(row, s) \cup amount_issues(row, s)
                   \cup currency_issues(row, s) \cup account_type_issues(row, s) :
            x.severity = "error"
      BY IssueSeverity DEF period_issues, amount_issues, currency_issues, account_type_issues
    <3> QED
      BY <3>1, <3>2
  <2>3. \A x \in center_warnings(row, s) : x.severity = "warning"
    BY DEF center_warnings, Warning
  <2>4. errors = {} <=> Sound(row, s)
    <3> DEFINE v(f) == mapped_value(row, s, f)
    <3>1. Missing(row, s) = {} <=> \A f \in REQUIRED_FIELDS : v(f) # None
      BY DEF Missing
    <3>2. \A f \in REQUIRED_FIELDS : v(f) # None => v(f) = row.cells[f]
      BY DEF mapped_value
    <3>3. _bounded(row, s) = {} <=> \A f \in BoundedFields(s) : v(f) \notin Overlong
      BY DEF _bounded
    <3>4. account_type_issues(row, s) = {} <=> v("account_type") \in AccountType \cup {None}
      BY IssueSeverity DEF account_type_issues
    <3>5. CASE \A f \in REQUIRED_FIELDS : v(f) # None
      <4>1. /\ v("period") # None /\ v("period") = row.cells["period"]
            /\ v("amount") # None
            /\ v("currency") # None /\ v("currency") = row.cells["currency"]
        BY <3>2, <3>5 DEF REQUIRED_FIELDS
      <4>2. period_issues(row, s) = {} <=>
              /\ parse_period_start(row.cells["period"]).error = "no"
              /\ InYear(parse_period_start(row.cells["period"]).value, s)
        BY <4>1, IssueSeverity DEF period_issues
      <4>3. amount_issues(row, s) = {} <=> AmountOf(row, s).error = "no"
        BY <4>1, IssueSeverity DEF amount_issues
      <4>4. currency_issues(row, s) = {} <=> row.cells["currency"] = Functional
        BY <4>1, IssueSeverity DEF currency_issues
      <4> HIDE DEF v
      <4>5. Sound(row, s) <=>
              /\ parse_period_start(row.cells["period"]).error = "no"
              /\ InYear(parse_period_start(row.cells["period"]).value, s)
              /\ AmountOf(row, s).error = "no"
              /\ row.cells["currency"] = Functional
              /\ \A f \in BoundedFields(s) : v(f) \notin Overlong
              /\ v("account_type") \in AccountType \cup {None}
        BY <1>3, <3>5 DEF Sound, v
      <4> QED
        BY <3>1, <3>3, <3>4, <3>5, <4>2, <4>3, <4>4, <4>5
    <3>6. CASE ~(\A f \in REQUIRED_FIELDS : v(f) # None)
      BY <3>1, <3>6 DEF Sound
    <3> QED
      BY <3>5, <3>6
  <2> HIDE DEF errors, result
  <2>5. HasError(result.issues) <=> errors # {}
    BY <2>1, <2>2, <2>3 DEF HasError
  <2> QED
    BY <1>3, <2>1, <2>4, <2>5 DEF result
<1> QED
  BY <1>1, <1>2, <1>3

(* Dimensions that are added between a validation and its application, by  *)
(* hand or by other imports, change no row and add no issue                *)
(* (_collect_rows, called again by preview and _apply).                    *)
THEOREM LaterDimensionsKeepRows ==
  ASSUME NEW row, NEW s, NEW later, NEW item,
         later.fields = s.fields, later.columns = s.columns, later.locale = s.locale,
         later.fiscal_year = s.fiscal_year, later.start_month = s.start_month,
         later.create_missing = s.create_missing,
         \A d \in Dimensions : s.known[d] \subseteq later.known[d]
  PROVE  /\ normalize_row(row, later) = normalize_row(row, s)
         /\ _dimension_issues(item, later) \subseteq _dimension_issues(item, s)
<1>1. \A f : mapped_value(row, later, f) = mapped_value(row, s, f)
  BY DEF mapped_value
<1>2. AmountOf(row, later) = AmountOf(row, s)
  BY DEF AmountOf
<1>3. Blank(row, later) <=> Blank(row, s)
  BY <1>1 DEF Blank
<1>4. /\ Missing(row, later) = Missing(row, s)
      /\ _bounded(row, later) = _bounded(row, s)
      /\ account_type_issues(row, later) = account_type_issues(row, s)
      /\ currency_issues(row, later) = currency_issues(row, s)
      /\ center_warnings(row, later) = center_warnings(row, s)
  BY <1>1 DEF Missing, _bounded, BoundedFields, account_type_issues, currency_issues,
              center_warnings
<1>5. /\ amount_issues(row, later) = amount_issues(row, s)
      /\ period_issues(row, later) = period_issues(row, s)
  BY <1>1, <1>2 DEF amount_issues, period_issues, InYear
<1>6. Item(row, later) = Item(row, s)
  BY <1>1, <1>2 DEF Item
<1>7. normalize_row(row, later) = normalize_row(row, s)
  BY <1>3, <1>4, <1>5, <1>6 DEF normalize_row
<1>8. \A d \in Dimensions : Absent(item, later, d) => Absent(item, s, d)
  BY DEF Absent
<1>9. _dimension_issues(item, later) \subseteq _dimension_issues(item, s)
  BY <1>8 DEF _dimension_issues
<1> QED
  BY <1>7, <1>9

-----------------------------------------------------------------------------
(* Gates                                                                   *)

(* A set of places of the list of gates has a last one.                    *)
LEMMA HasLast ==
  ASSUME NEW S \in SUBSET (1..11), S # {}
  PROVE  \E m \in S : \A x \in S : x <= m
<1>1. CASE \E m \in S : m >= 6
  <2>1. \/ 11 \in S \/ (11 \notin S /\ 10 \in S)
        \/ ({10, 11} \cap S = {} /\ 9 \in S)
        \/ ({9, 10, 11} \cap S = {} /\ 8 \in S)
        \/ ({8, 9, 10, 11} \cap S = {} /\ 7 \in S)
        \/ ({7, 8, 9, 10, 11} \cap S = {} /\ 6 \in S)
    BY <1>1
  <2> QED
    BY <2>1
<1>2. CASE \A m \in S : m < 6
  <2>1. \A m \in S : m \in {1, 2, 3, 4, 5}
    BY <1>2
  <2>2. \/ 5 \in S \/ (5 \notin S /\ 4 \in S)
        \/ ({4, 5} \cap S = {} /\ 3 \in S)
        \/ ({3, 4, 5} \cap S = {} /\ 2 \in S)
        \/ ({2, 3, 4, 5} \cap S = {} /\ 1 \in S)
    BY <2>1
  <2> QED
    BY <2>1, <2>2
<1> QED
  BY <1>1, <1>2

LEMMA IndexType ==
  ASSUME NEW gate \in GateId
  PROVE  Index(gate) \in 1..11
<1>1. DOMAIN GATE_IDS = 1..11
  BY DEF GATE_IDS
<1>2. \E i \in DOMAIN GATE_IDS : GATE_IDS[i] = gate
  BY DEF GateId
<1> QED
  BY <1>1, <1>2 DEF Index

(* What is read for a gate is one of the files that are about it.          *)
LEMMA ReadIsFile ==
  ASSUME NEW places \in SUBSET Place, NEW gate \in DOMAIN ReadFrom(places)
  PROVE  \E p \in places : folder[p].gate = gate /\ ReadFrom(places)[gate] = folder[p]
<1> DEFINE about == {p \in places : folder[p].gate = gate}
           S == {Index(p[2]) : p \in about}
<1>1. about # {}
  BY DEF ReadFrom
<1>2. \A p \in about : Index(p[2]) \in 1..11
  BY IndexType DEF Place
<1>3. S \in SUBSET (1..11) /\ S # {}
  BY <1>1, <1>2
<1>4. PICK m \in S : \A x \in S : x <= m
  BY <1>3, HasLast
<1>5. PICK p \in about : Index(p[2]) = m
  BY <1>4
<1>6. /\ p \in places /\ folder[p].gate = gate
      /\ \A q \in places : folder[q].gate = gate => Index(q[2]) <= Index(p[2])
  BY <1>4, <1>5
<1> HIDE DEF about, S
<1> QED
  BY <1>6 DEF ReadFrom

(* Whoever recorded a file on disk is one of those the checks tell apart.  *)
RecordersKnown ==
  /\ DOMAIN folder = Place
  /\ \A p \in Place :
       folder[p] \in {NoFile, Torn} \/ folder[p].recorded_by \in Recorder

LEMMA RecordersKnownInv == GatesSpec => []RecordersKnown
<1>1. GatesInit => RecordersKnown
  BY GatesAssumption DEF GatesInit, RecordersKnown
<1>2. ASSUME RecordersKnown, NEW record, NEW place, record.recorded_by \in Recorder,
             write_record(record, place)
      PROVE  RecordersKnown'
  BY <1>2 DEF write_record, RecordersKnown
<1>3. ASSUME RecordersKnown, Record PROVE RecordersKnown'
  <2>1. PICK input \in RecordInputs : \E place : write_record(build_record(input), place)
    BY <1>3 DEF Record
  <2>2. "recorded_by" \in DOMAIN input /\ input.recorded_by \in Recorder
    BY GatesAssumption
  <2>3. build_record(input).recorded_by \in Recorder
    BY <2>2 DEF build_record
  <2> QED
    BY <1>2, <1>3, <2>1, <2>3
<1>4. ASSUME RecordersKnown, ReviewApply PROVE RecordersKnown'
  <2>1. PICK input \in ReviewInputs :
          \E place : write_record(build_apply_review(input), place)
    BY <1>4 DEF ReviewApply
  <2>2. input.recorded_by \in Recorder
    BY GatesAssumption
  <2>3. build_apply_review(input).recorded_by \in Recorder
    BY <2>2 DEF build_apply_review, build_record
  <2> QED
    BY <1>2, <1>4, <2>1, <2>3
<1>5. RecordersKnown /\ [GatesNext]_gateVars => RecordersKnown'
  BY <1>3, <1>4 DEF GatesNext, gateVars, RecordersKnown
<1> QED
  BY <1>1, <1>5, PTL DEF GatesSpec

(* A check that passes has a decision for each gate of its scope, on file  *)
(* or, for the first two, in the variables of its process.                 *)
LEMMA PassedIsDecided ==
  ASSUME RecordersKnown, NEW scope, NEW environment, NEW environ, NEW provider,
         check_scope(scope, environment, environ, provider),
         NEW g \in SCOPE_REQUIREMENTS[scope]
  PROVE  Decided(environment, g) \/ (environ # NoFile /\ g \in {"M-01", "M-02"})
<1> DEFINE read == ReadFrom(Files(environment))
           extra == Extra(environment, environ)
           records == load_records(environment, environ)
<1>1. g \in DOMAIN records /\ validate_record(records[g]) /\ FilesValid(environment)
  BY DEF check_scope, missing_gates, required_gates, LoadFails
<1>2. /\ DOMAIN records = DOMAIN read \cup DOMAIN extra
      /\ g \in DOMAIN read => records[g] = read[g]
  BY <1>1 DEF load_records
<1>3. CASE g \in DOMAIN read
  <2>1. Files(environment) \in SUBSET Place
    BY DEF Files
  <2>2. PICK p \in Files(environment) : folder[p].gate = g /\ read[g] = folder[p]
    BY <1>3, <2>1, ReadIsFile
  <2> DEFINE r == folder[p]
  <2>3. /\ p[1] = environment /\ p \in Place /\ r # NoFile /\ r # Torn /\ r.gate = g
        /\ validate_record(r)
    BY <1>1, <1>2, <1>3, <2>2 DEF Files, FilesValid
  <2>4. r.recorded_by \in Recorder
    BY <2>3 DEF RecordersKnown
  <2>5. g \in PROTECTED_GATES => r.recorded_by = "human"
    BY <2>3, <2>4 DEF validate_record, Recorder
  <2>6. r.status = "complete" => DOMAIN GATE_SPECS[g].required \subseteq DOMAIN r.deliverables
    BY <2>3 DEF validate_record, validate_deliverables
  <2>7. r.status = "waived" =>
          GATE_SPECS[g].waivable /\ r.notes /\ (g = "M-06" => r.environment # "prod")
    BY <2>3 DEF validate_record, validate_deliverables
  <2>8. Decided(environment, g)
    BY <2>2, <2>3, <2>5, <2>6, <2>7, Zenon DEF Decided
  <2> QED
    BY <2>8
<1>4. CASE g \notin DOMAIN read
  <2>1. g \in DOMAIN extra
    BY <1>1, <1>2, <1>4
  <2>2. environ # NoFile
    BY <2>1 DEF Extra
  <2>3. DOMAIN extra = DOMAIN evidence_from_env(environ)
    BY <2>2 DEF Extra
  <2>4. DOMAIN evidence_from_env(environ) \subseteq {"M-01", "M-02"}
    BY DEF evidence_from_env
  <2> QED
    BY <2>1, <2>2, <2>3, <2>4
<1> QED
  BY <1>3, <1>4

(* Whatever goes ahead rests on decisions on file for that very            *)
(* environment, after any sequence of records, reviews and interrupted     *)
(* writes: a person's for the protected gates, anyone's for the others,    *)
(* and for the account and the region the variables of the process instead *)
(* (check_scope, evaluate_preflight, refuse_release_tag).                  *)
THEOREM DecisionsStandBehindGates == GatesSpec => []GatesStandForDecisions
<1>1. RecordersKnown => GatesStandForDecisions
  <2> SUFFICES ASSUME RecordersKnown PROVE GatesStandForDecisions
    OBVIOUS
  <2>1. ASSUME NEW scope, NEW environment, NEW environ,
               check_scope(scope, environment, environ, "stub"),
               NEW g \in SCOPE_REQUIREMENTS[scope]
        PROVE  Decided(environment, g) \/ (environ # NoFile /\ g \in {"M-01", "M-02"})
    BY <2>1, PassedIsDecided
  <2>2. "M-09" \in SCOPE_REQUIREMENTS["apply"] /\ "M-09" \in SCOPE_REQUIREMENTS["prod"]
        /\ "M-10" \in SCOPE_REQUIREMENTS["prod"]
    BY DEF SCOPE_REQUIREMENTS, GateId, GATE_IDS
  <2>3. ASSUME NEW p \in Preflights, evaluate_preflight(p), p.require_gates
        PROVE  Decided(p.environment, "M-09")
    <3>1. PICK scope \in {"prod", "apply"} :
            check_scope(scope, p.environment, NoFile, p.ai_provider)
      BY <2>3 DEF evaluate_preflight
    <3>2. "M-09" \in SCOPE_REQUIREMENTS[scope]
      BY <2>2, <3>1
    <3>3. "M-09" \notin {"M-01", "M-02"}
      OBVIOUS
    <3> QED
      BY <3>1, <3>2, <3>3, PassedIsDecided
  <2>4. ASSUME refuse_release_tag("1.0.0") PROVE Decided("prod", "M-10")
    <3>1. check_scope("prod", "prod", NoFile, "stub")
      BY <2>4 DEF refuse_release_tag
    <3> QED
      BY <2>1, <2>2, <3>1
  <2> QED
    BY <2>1, <2>3, <2>4 DEF GatesStandForDecisions
<1> QED
  BY <1>1, RecordersKnownInv, PTL

-----------------------------------------------------------------------------
(* Induction over the naturals and over a finite set, for properties given *)
(* as the set of what has them.                                            *)
LEMMA NaturalsOneByOne ==
  ASSUME NEW G, 0 \in G, \A k \in Nat : k \in G => k + 1 \in G
  PROVE  Nat \subseteq G
<1> DEFINE Bad == {k \in Nat : k \notin G}
<1> SUFFICES ASSUME Bad # {} PROVE FALSE
  OBVIOUS
<1>1. PICK m \in Bad : \A k \in Bad : m <= k
  BY LeastNatural
<1>2. m \in Nat /\ m # 0 /\ m \notin G
  BY <1>1
<1>3. m - 1 \in Nat /\ (m - 1) + 1 = m /\ ~(m <= m - 1)
  BY <1>2
<1>4. m - 1 \in G
  BY <1>1, <1>3
<1> QED
  BY <1>2, <1>3, <1>4

(* A set with one element more has one, and as many without it.            *)
LEMMA OneLess ==
  ASSUME NEW T, IsFiniteSet(T), NEW k \in Nat, Cardinality(T) = k + 1
  PROVE  T # {} /\ \A x \in T : IsFiniteSet(T \ {x}) /\ Cardinality(T \ {x}) = k
<1>1. k + 1 # 0 /\ (k + 1) - 1 = k
  OBVIOUS
<1>2. T # {}
  BY <1>1, FS_EmptySet
<1>3. ASSUME NEW x \in T PROVE IsFiniteSet(T \ {x}) /\ Cardinality(T \ {x}) = k
  <2>1. IsFiniteSet(T \ {x}) /\ Cardinality(T \ {x}) = Cardinality(T) - 1
    BY FS_RemoveElement
  <2> QED
    BY <1>1, <2>1
<1> QED
  BY <1>2, <1>3

(* What holds of the empty set and is kept by one more element holds of    *)
(* every subset of a finite set: induction without an operator parameter.  *)
LEMMA SetOneByOne ==
  ASSUME NEW S, IsFiniteSet(S), NEW G, {} \in G,
         \A T \in SUBSET S : \A x \in S \ T : T \in G => T \cup {x} \in G
  PROVE  SUBSET S \subseteq G
<1> DEFINE Good == {k \in Nat : \A T \in SUBSET S : Cardinality(T) = k => T \in G}
<1>1. 0 \in Good
  <2>1. ASSUME NEW T \in SUBSET S, Cardinality(T) = 0 PROVE T = {}
    BY <2>1, FS_Subset, FS_EmptySet
  <2> QED
    BY <2>1
<1>2. ASSUME NEW k \in Nat, k \in Good PROVE k + 1 \in Good
  <2> SUFFICES ASSUME NEW T \in SUBSET S, Cardinality(T) = k + 1 PROVE T \in G
    BY <1>2
  <2>1. IsFiniteSet(T)
    BY FS_Subset
  <2>2. T # {} /\ \A y \in T : Cardinality(T \ {y}) = k
    BY <1>2, <2>1, OneLess
  <2>3. PICK x \in T : TRUE
    BY <2>2
  <2>4. Cardinality(T \ {x}) = k
    BY <2>2
  <2>5. T \ {x} \in SUBSET S /\ x \in S \ (T \ {x}) /\ (T \ {x}) \cup {x} = T
    BY <2>3
  <2>6. T \ {x} \in G
    BY <1>2, <2>4, <2>5
  <2> QED
    BY <2>5, <2>6
<1>3. Nat \subseteq Good
  <2> HIDE DEF Good
  <2> QED
    BY <1>1, <1>2, NaturalsOneByOne
<1> SUFFICES ASSUME NEW T \in SUBSET S PROVE T \in G
  OBVIOUS
<1>4. Cardinality(T) \in Nat
  BY FS_Subset, FS_CardinalityType
<1> QED
  BY <1>3, <1>4

-----------------------------------------------------------------------------
(* Sets in order                                                           *)

(* R orders S strictly and totally.                                        *)
IsOrder(S, R) ==
  /\ \A x \in S : <<x, x>> \notin R
  /\ \A x, y, z \in S : <<x, y>> \in R /\ <<y, z>> \in R => <<x, z>> \in R
  /\ \A x, y \in S : x # y => <<x, y>> \in R \/ <<y, x>> \in R

Ascending(o, R) == \A i, j \in DOMAIN o : i < j => <<o[i], o[j]>> \in R

(* A set in order has a last element.                                      *)
LEMMA LastInOrder ==
  ASSUME NEW S, IsFiniteSet(S), NEW R, IsOrder(S, R), S # {}
  PROVE  \E m \in S : \A x \in S \ {m} : <<x, m>> \in R
<1> DEFINE P(U) == U # {} => \E m \in U : \A x \in U \ {m} : <<x, m>> \in R
           G == {U \in SUBSET S : P(U)}
<1>1. {} \in G
  OBVIOUS
<1>2. ASSUME NEW U \in SUBSET S, NEW x \in S \ U, U \in G
      PROVE  U \cup {x} \in G
  <2>1. CASE U = {}
    BY <2>1
  <2>2. CASE U # {}
    <3>1. PICK m \in U : \A y \in U \ {m} : <<y, m>> \in R
      BY <1>2, <2>2
    <3>2. x # m /\ x \in S /\ m \in S
      OBVIOUS
    <3>3. <<x, m>> \in R \/ <<m, x>> \in R
      BY <3>2 DEF IsOrder
    <3>4. CASE <<x, m>> \in R
      BY <3>1, <3>4
    <3>5. CASE <<m, x>> \in R
      <4>1. ASSUME NEW y \in U PROVE <<y, x>> \in R
        BY <3>1, <3>2, <3>5 DEF IsOrder
      <4> QED
        BY <4>1
    <3> QED
      BY <3>3, <3>4, <3>5
  <2> QED
    BY <2>1, <2>2
<1>3. S \in G
  <2> HIDE DEF G
  <2> QED
    BY <1>1, <1>2, SetOneByOne
<1> QED
  BY <1>3

(* A finite set can be put in order.                                       *)
LEMMA SetsCanBeOrdered ==
  ASSUME NEW S, IsFiniteSet(S), NEW R, IsOrder(S, R)
  PROVE  \E o \in [1..Cardinality(S) -> S] : Ascending(o, R)
<1> DEFINE G == {n \in Nat : \A U \in SUBSET S :
                   Cardinality(U) = n => \E o \in [1..n -> U] : Ascending(o, R)}
<1>1. 0 \in G
  <2> SUFFICES ASSUME NEW U \in SUBSET S
               PROVE  \E o \in [1..0 -> U] : Ascending(o, R)
    OBVIOUS
  <2> DEFINE o == [i \in 1..0 |-> 0]
  <2>1. 1..0 = {}
    OBVIOUS
  <2>2. o \in [1..0 -> U] /\ Ascending(o, R)
    BY <2>1 DEF Ascending
  <2> QED
    BY <2>2
<1>2. ASSUME NEW n \in Nat, n \in G PROVE n + 1 \in G
  <2> SUFFICES ASSUME NEW U \in SUBSET S, Cardinality(U) = n + 1
               PROVE  \E o \in [1..(n + 1) -> U] : Ascending(o, R)
    OBVIOUS
  <2>1. IsFiniteSet(U) /\ n + 1 # 0 /\ (n + 1) - 1 = n
    BY FS_Subset
  <2>2. U # {}
    BY <2>1, FS_EmptySet
  <2>3. IsOrder(U, R)
    BY DEF IsOrder
  <2>4. PICK m \in U : \A x \in U \ {m} : <<x, m>> \in R
    BY <2>1, <2>2, <2>3, LastInOrder
  <2>5. U \ {m} \in SUBSET S /\ Cardinality(U \ {m}) = n
    BY <2>1, FS_RemoveElement
  <2>6. PICK o \in [1..n -> U \ {m}] : Ascending(o, R)
    BY <1>2, <2>5
  <2> DEFINE p == [i \in 1..(n + 1) |-> IF i = n + 1 THEN m ELSE o[i]]
  <2>7. \A i \in 1..(n + 1) : i = n + 1 \/ i \in 1..n
    OBVIOUS
  <2>8. p \in [1..(n + 1) -> U]
    BY <2>6, <2>7
  <2>9. \A i, j \in 1..(n + 1) : i < j => i \in 1..n /\ (j \in 1..n \/ j = n + 1)
    OBVIOUS
  <2>10. \A i \in 1..n : p[i] = o[i] /\ o[i] \in U \ {m}
    BY <2>6
  <2>11. p[n + 1] = m /\ DOMAIN p = 1..(n + 1) /\ DOMAIN o = 1..n
    BY <2>6
  <2> HIDE DEF p
  <2>12. Ascending(p, R)
    BY <2>4, <2>6, <2>9, <2>10, <2>11 DEF Ascending
  <2> QED
    BY <2>8, <2>12
<1>3. Cardinality(S) \in Nat
  BY FS_CardinalityType
<1>4. Cardinality(S) \in G
  <2> HIDE DEF G
  <2> QED
    BY <1>1, <1>2, <1>3, NaturalsOneByOne
<1> QED
  BY <1>4

(* What is in order has each element once.                                 *)
Enumerates(o, S, R) ==
  /\ o \in [1..Cardinality(S) -> S]
  /\ Ascending(o, R)
  /\ \A i, j \in DOMAIN o : o[i] = o[j] => i = j
  /\ \A x \in S : \E i \in DOMAIN o : o[i] = x

LEMMA AscendingEnumerates ==
  ASSUME NEW S, IsFiniteSet(S), NEW R, IsOrder(S, R),
         NEW o \in [1..Cardinality(S) -> S], Ascending(o, R)
  PROVE  Enumerates(o, S, R)
<1> DEFINE n == Cardinality(S)
<1>1. n \in Nat
  BY FS_CardinalityType
<1>2. ASSUME NEW i \in 1..n, NEW j \in 1..n, o[i] = o[j] PROVE i = j
  <2>1. o[i] \in S /\ <<o[i], o[i]>> \notin R
    BY DEF IsOrder
  <2>2. i < j \/ j < i \/ i = j
    BY <1>1
  <2> QED
    BY <1>2, <2>1, <2>2 DEF Ascending
<1>3. IsFiniteSet(1..n) /\ Cardinality(1..n) = n
  <2> HIDE DEF n
  <2>1. Cardinality(1..n) = IF 1 > n THEN 0 ELSE n - 1 + 1
    BY <1>1, FS_Interval
  <2> QED
    BY <1>1, <2>1, FS_Interval
<1>4. o \in Injection(1..n, S)
  BY <1>2 DEF Injection, IsInjective
<1>5. o \in Surjection(1..n, S)
  BY <1>1, <1>3, <1>4, FS_Injection
<1>6. \A x \in S : \E i \in DOMAIN o : o[i] = x
  BY <1>5 DEF Surjection
<1> QED
  BY <1>2, <1>6 DEF Enumerates

LEMMA ListInOrder ==
  ASSUME NEW S, IsFiniteSet(S), NEW R, IsOrder(S, R)
  PROVE  Enumerates(InOrder(S, R), S, R) /\ InOrder(S, R) \in Seq(S)
<1> DEFINE o == InOrder(S, R)
<1>1. o \in [1..Cardinality(S) -> S] /\ Ascending(o, R)
  <2>1. \E p \in [1..Cardinality(S) -> S] :
          \A i, j \in DOMAIN p : i < j => <<p[i], p[j]>> \in R
    BY SetsCanBeOrdered DEF Ascending
  <2> QED
    BY <2>1 DEF InOrder, Ascending
<1>2. Cardinality(S) \in Nat
  BY FS_CardinalityType
<1> HIDE DEF o
<1>3. o \in Seq(S)
  BY <1>1, <1>2
<1>4. Enumerates(o, S, R)
  BY <1>1, AscendingEnumerates
<1> QED
  BY <1>3, <1>4 DEF o

(* There is one way to put a set in order.                                 *)
LEMMA OneOrder ==
  ASSUME NEW S, IsFiniteSet(S), NEW R, IsOrder(S, R),
         NEW o, Enumerates(o, S, R), NEW p, Enumerates(p, S, R)
  PROVE  o = p
<1> DEFINE n == Cardinality(S)
           Differ == {i \in 1..n : o[i] # p[i]}
<1>1. n \in Nat /\ o \in [1..n -> S] /\ p \in [1..n -> S]
  BY FS_CardinalityType DEF Enumerates
<1>2. Differ = {}
  <2> SUFFICES ASSUME Differ # {} PROVE FALSE
    OBVIOUS
  <2>1. Differ \subseteq Nat
    BY <1>1
  <2>2. PICK i \in Differ : \A k \in Differ : i <= k
    BY <2>1, LeastNatural
  <2>3. i \in 1..n /\ o[i] \in S /\ p[i] \in S /\ o[i] # p[i]
    BY <1>1
  <2>4. \A k \in 1..n : k < i => o[k] = p[k]
    BY <1>1, <2>2, <2>3
  <2>5. PICK j \in 1..n : o[j] = p[i]
    BY <1>1, <2>3 DEF Enumerates
  <2>6. PICK h \in 1..n : p[h] = o[i]
    BY <1>1, <2>3 DEF Enumerates
  <2>7. i < j
    <3>1. j # i
      BY <2>3, <2>5
    <3>2. ~(j < i)
      <4> SUFFICES ASSUME j < i PROVE FALSE
        OBVIOUS
      <4>1. p[j] = p[i]
        BY <2>4, <2>5
      <4> QED
        BY <1>1, <2>3, <3>1, <4>1 DEF Enumerates
    <3> QED
      BY <1>1, <2>3, <3>1, <3>2
  <2>8. i < h
    <3>1. h # i
      BY <2>3, <2>6
    <3>2. ~(h < i)
      <4> SUFFICES ASSUME h < i PROVE FALSE
        OBVIOUS
      <4>1. o[h] = o[i]
        BY <2>4, <2>6
      <4> QED
        BY <1>1, <2>3, <3>1, <4>1 DEF Enumerates
    <3> QED
      BY <1>1, <2>3, <3>1, <3>2
  <2>9. <<o[i], p[i]>> \in R
    BY <1>1, <2>3, <2>5, <2>7 DEF Enumerates, Ascending
  <2>10. <<p[i], o[i]>> \in R
    BY <1>1, <2>3, <2>6, <2>8 DEF Enumerates, Ascending
  <2> QED
    BY <2>3, <2>9, <2>10 DEF IsOrder
<1>3. \A i \in 1..n : o[i] = p[i]
  BY <1>2
<1> HIDE DEF n
<1> QED
  BY <1>1, <1>3

-----------------------------------------------------------------------------
(* Sums over finite sets                                                   *)

(* The sum of the values of f over S.                                      *)
Total(f, S) == MapThenSumSet(LAMBDA x : f[x], S)

Pick(T) == CHOOSE x \in T : TRUE

(* What the library's definition of a sum recurs on.                       *)
SumsSubsets(sum, f, S) ==
  sum = [T \in SUBSET S |-> IF T = {} THEN 0 ELSE f[Pick(T)] + sum[T \ {Pick(T)}]]

LEMMA Picked ==
  ASSUME NEW T, T # {}
  PROVE  Pick(T) \in T
BY DEF Pick

LEMMA SubsetsSummed ==
  ASSUME NEW f, NEW S, IsFiniteSet(S)
  PROVE  \E sum : SumsSubsets(sum, f, S)
<1> DEFINE Small(k) == {T \in SUBSET S : Cardinality(T) <= k}
           Sums(sum, k) ==
             sum = [T \in Small(k) |-> IF T = {} THEN 0 ELSE f[Pick(T)] + sum[T \ {Pick(T)}]]
           Good == {k \in Nat : \E sum : Sums(sum, k)}
<1>1. \A T \in SUBSET S : /\ IsFiniteSet(T) /\ Cardinality(T) \in Nat
                          /\ Cardinality(T) <= Cardinality(S)
  BY FS_Subset, FS_CardinalityType
<1>2. ASSUME NEW k \in Nat, NEW T \in Small(k), T # {}
      PROVE  /\ T \ {Pick(T)} \in Small(k)
             /\ \A j \in Nat : k = j + 1 => T \ {Pick(T)} \in Small(j)
  <2>1. Pick(T) \in T
    BY <1>2, Picked
  <2>2. IsFiniteSet(T) /\ Cardinality(T) \in Nat /\ Cardinality(T) <= k
    BY <1>1
  <2>3. Cardinality(T \ {Pick(T)}) = Cardinality(T) - 1
    BY <2>1, <2>2, FS_RemoveElement
  <2> QED
    BY <2>2, <2>3
<1>3. 0 \in Good
  <2> DEFINE sum == [T \in Small(0) |-> 0]
             other == [T \in Small(0) |->
                        IF T = {} THEN 0 ELSE f[Pick(T)] + sum[T \ {Pick(T)}]]
  <2>1. ASSUME NEW T \in Small(0) PROVE T = {}
    BY <1>1, <2>1, FS_EmptySet
  <2> HIDE DEF Small
  <2>2. sum = other
    BY <2>1, Zenon
  <2>3. Sums(sum, 0)
    BY <2>2, Zenon
  <2> HIDE DEF Sums
  <2> QED
    BY <2>3
<1>4. ASSUME NEW k \in Nat, k \in Good PROVE k + 1 \in Good
  <2>1. PICK old : Sums(old, k)
    BY <1>4
  <2> DEFINE sum == [T \in Small(k + 1) |->
                      IF T = {} THEN 0 ELSE f[Pick(T)] + old[T \ {Pick(T)}]]
             other == [T \in Small(k + 1) |->
                        IF T = {} THEN 0 ELSE f[Pick(T)] + sum[T \ {Pick(T)}]]
  <2>2. Small(k) \subseteq Small(k + 1) /\ k + 1 \in Nat
    BY <1>1
  <2> HIDE DEF Small
  <2>3. ASSUME NEW T \in Small(k) PROVE sum[T] = old[T]
    <3>1. old[T] = IF T = {} THEN 0 ELSE f[Pick(T)] + old[T \ {Pick(T)}]
      BY <2>1, Zenon
    <3> QED
      BY <2>2, <3>1, Zenon
  <2>4. ASSUME NEW T \in Small(k + 1), T # {}
        PROVE  sum[T \ {Pick(T)}] = old[T \ {Pick(T)}]
    BY <1>2, <2>2, <2>3, <2>4
  <2>5. sum = other
    <3>1. \A T \in Small(k + 1) :
            (IF T = {} THEN 0 ELSE f[Pick(T)] + old[T \ {Pick(T)}])
              = IF T = {} THEN 0 ELSE f[Pick(T)] + sum[T \ {Pick(T)}]
      BY <2>4, Zenon
    <3> QED
      BY <3>1, Zenon
  <2>6. Sums(sum, k + 1)
    BY <2>5, Zenon
  <2> HIDE DEF Sums
  <2> QED
    BY <2>2, <2>6
<1>5. Cardinality(S) \in Good
  <2> HIDE DEF Good
  <2> QED
    BY <1>1, <1>3, <1>4, NaturalsOneByOne
<1>6. PICK sum : Sums(sum, Cardinality(S))
  BY <1>5
<1>7. Small(Cardinality(S)) = SUBSET S
  BY <1>1
<1> HIDE DEF Small
<1>8. SumsSubsets(sum, f, S)
  BY <1>6, <1>7, Zenon DEF SumsSubsets
<1> QED
  BY <1>8

(* Two such functions agree where both are defined and their values do.    *)
LEMMA SumsAgree ==
  ASSUME NEW f, NEW S, IsFiniteSet(S), NEW sum, SumsSubsets(sum, f, S),
         NEW g, NEW R, NEW sum2, SumsSubsets(sum2, g, R), S \subseteq R,
         \A x \in S : f[x] = g[x]
  PROVE  \A T \in SUBSET S : sum[T] = sum2[T]
<1> DEFINE Good == {k \in Nat : \A T \in SUBSET S : Cardinality(T) = k => sum[T] = sum2[T]}
<1>1. ASSUME NEW T \in SUBSET S
      PROVE  /\ sum[T] = IF T = {} THEN 0 ELSE f[Pick(T)] + sum[T \ {Pick(T)}]
             /\ sum2[T] = IF T = {} THEN 0 ELSE g[Pick(T)] + sum2[T \ {Pick(T)}]
  <2>1. T \in SUBSET R
    OBVIOUS
  <2> QED
    BY <2>1, Zenon DEF SumsSubsets
<1>2. 0 \in Good
  <2>1. ASSUME NEW T \in SUBSET S, Cardinality(T) = 0 PROVE T = {}
    BY <2>1, FS_Subset, FS_EmptySet
  <2> QED
    BY <1>1, <2>1
<1>3. ASSUME NEW k \in Nat, k \in Good PROVE k + 1 \in Good
  <2> SUFFICES ASSUME NEW T \in SUBSET S, Cardinality(T) = k + 1 PROVE sum[T] = sum2[T]
    BY <1>3
  <2>1. IsFiniteSet(T)
    BY FS_Subset
  <2>2. T # {} /\ \A x \in T : Cardinality(T \ {x}) = k
    BY <1>3, <2>1, OneLess
  <2>3. Pick(T) \in T
    BY <2>2, Picked
  <2>4. sum[T \ {Pick(T)}] = sum2[T \ {Pick(T)}]
    BY <1>3, <2>2, <2>3
  <2>5. f[Pick(T)] = g[Pick(T)]
    BY <2>3
  <2> QED
    BY <1>1, <2>2, <2>4, <2>5
<1>4. Nat \subseteq Good
  <2> HIDE DEF Good
  <2> QED
    BY <1>2, <1>3, NaturalsOneByOne
<1> TAKE T \in SUBSET S
<1>5. Cardinality(T) \in Nat
  BY FS_Subset, FS_CardinalityType
<1> QED
  BY <1>4, <1>5

(* Total is the value at S of any function that sums the subsets of a set  *)
(* S is in.                                                                *)
LEMMA TotalIsSum ==
  ASSUME NEW f, NEW R, NEW sum, SumsSubsets(sum, f, R), NEW S \in SUBSET R, IsFiniteSet(S)
  PROVE  Total(f, S) = sum[S]
<1> DEFINE Sums(h) == h = [T \in SUBSET S |-> IF T = {} THEN 0
                            ELSE f[CHOOSE x \in T : TRUE] + h[T \ {CHOOSE x \in T : TRUE}]]
           g == CHOOSE h : Sums(h)
<1>1. \A h : Sums(h) <=> SumsSubsets(h, f, S)
  BY Zenon DEF SumsSubsets, Pick
<1>2. Sums(g)
  <2>1. PICK h : SumsSubsets(h, f, S)
    BY SubsetsSummed
  <2>2. Sums(h)
    BY <1>1, <2>1, Zenon
  <2> QED
    BY <2>2, Zenon
<1>3. Total(f, S) = g[S]
  BY Zenon DEF Total, MapThenSumSet, MapThenFoldSet
<1>4. SumsSubsets(g, f, S)
  BY <1>1, <1>2, Zenon
<1> HIDE DEF g
<1> QED
  BY <1>3, <1>4, SumsAgree

LEMMA TotalEmpty ==
  ASSUME NEW f
  PROVE  Total(f, {}) = 0
<1>1. IsFiniteSet({}) /\ {} \in SUBSET {}
  BY FS_EmptySet
<1>2. PICK sum : SumsSubsets(sum, f, {})
  BY <1>1, SubsetsSummed
<1>3. sum[{}] = 0
  BY <1>1, <1>2, Zenon DEF SumsSubsets
<1> QED
  BY <1>1, <1>2, <1>3, TotalIsSum

LEMMA TotalSame ==
  ASSUME NEW S, IsFiniteSet(S), NEW f, NEW g, \A x \in S : f[x] = g[x]
  PROVE  Total(f, S) = Total(g, S)
<1>1. PICK sum : SumsSubsets(sum, f, S)
  BY SubsetsSummed
<1>2. PICK sum2 : SumsSubsets(sum2, g, S)
  BY SubsetsSummed
<1>3. sum[S] = sum2[S]
  BY <1>1, <1>2, SumsAgree
<1> QED
  BY <1>1, <1>2, <1>3, TotalIsSum

LEMMA SumIsNumber ==
  ASSUME NEW S, IsFiniteSet(S), NEW f, \A x \in S : f[x] \in Int,
         NEW sum, SumsSubsets(sum, f, S)
  PROVE  \A T \in SUBSET S : sum[T] \in Int
<1> DEFINE Good == {k \in Nat : \A T \in SUBSET S : Cardinality(T) = k => sum[T] \in Int}
<1>1. ASSUME NEW T \in SUBSET S
      PROVE  sum[T] = IF T = {} THEN 0 ELSE f[Pick(T)] + sum[T \ {Pick(T)}]
  BY Zenon DEF SumsSubsets
<1>2. 0 \in Good
  <2>1. ASSUME NEW T \in SUBSET S, Cardinality(T) = 0 PROVE T = {}
    BY <2>1, FS_Subset, FS_EmptySet
  <2>2. sum[{}] = 0
    BY <1>1
  <2> QED
    BY <2>1, <2>2
<1>3. ASSUME NEW k \in Nat, k \in Good PROVE k + 1 \in Good
  <2> SUFFICES ASSUME NEW T \in SUBSET S, Cardinality(T) = k + 1 PROVE sum[T] \in Int
    BY <1>3
  <2>1. IsFiniteSet(T)
    BY FS_Subset
  <2>2. T # {} /\ \A x \in T : Cardinality(T \ {x}) = k /\ T \ {x} \in SUBSET S
    BY <1>3, <2>1, OneLess
  <2>3. Pick(T) \in T
    BY <2>2, Picked
  <2>4. f[Pick(T)] \in Int /\ sum[T \ {Pick(T)}] \in Int
    BY <1>3, <2>2, <2>3
  <2> QED
    BY <1>1, <2>2, <2>4
<1>4. Nat \subseteq Good
  <2> HIDE DEF Good
  <2> QED
    BY <1>2, <1>3, NaturalsOneByOne
<1> TAKE T \in SUBSET S
<1>5. Cardinality(T) \in Nat
  BY FS_Subset, FS_CardinalityType
<1> QED
  BY <1>4, <1>5

(* The element the library picks first does not matter.                    *)
LEMMA SumTakesAny ==
  ASSUME NEW S, IsFiniteSet(S), NEW f, \A x \in S : f[x] \in Int,
         NEW sum, SumsSubsets(sum, f, S)
  PROVE  \A T \in SUBSET S : \A x \in T : sum[T] = f[x] + sum[T \ {x}]
<1> DEFINE SumsOf(T) == \A x \in T : sum[T] = f[x] + sum[T \ {x}]
           Good == {k \in Nat : \A T \in SUBSET S : Cardinality(T) = k => SumsOf(T)}
<1>1. ASSUME NEW T \in SUBSET S
      PROVE  sum[T] = IF T = {} THEN 0 ELSE f[Pick(T)] + sum[T \ {Pick(T)}]
  BY Zenon DEF SumsSubsets
<1>2. 0 \in Good
  <2>1. ASSUME NEW T \in SUBSET S, Cardinality(T) = 0 PROVE T = {}
    BY <2>1, FS_Subset, FS_EmptySet
  <2> QED
    BY <2>1
<1>3. ASSUME NEW k \in Nat, k \in Good PROVE k + 1 \in Good
  <2> SUFFICES ASSUME NEW T \in SUBSET S, Cardinality(T) = k + 1, NEW x \in T
               PROVE  sum[T] = f[x] + sum[T \ {x}]
    BY <1>3
  <2> DEFINE p == Pick(T)
  <2>1. IsFiniteSet(T)
    BY FS_Subset
  <2>2. T # {} /\ \A z \in T : Cardinality(T \ {z}) = k /\ T \ {z} \in SUBSET S
    BY <1>3, <2>1, OneLess
  <2>3. p \in T /\ sum[T] = f[p] + sum[T \ {p}]
    BY <1>1, <2>2, Picked
  <2>4. \A z \in T : SumsOf(T \ {z})
    BY <1>3, <2>2
  <2> HIDE DEF p
  <2>5. CASE x # p
    <3>1. x \in T \ {p} /\ p \in T \ {x} /\ (T \ {p}) \ {x} = (T \ {x}) \ {p}
      BY <2>3, <2>5
    <3>2. sum[T \ {p}] = f[x] + sum[(T \ {p}) \ {x}]
      BY <2>3, <2>4, <3>1
    <3>3. sum[T \ {x}] = f[p] + sum[(T \ {p}) \ {x}]
      BY <2>4, <3>1
    <3>4. f[x] \in Int /\ f[p] \in Int /\ sum[(T \ {p}) \ {x}] \in Int
      <4>1. (T \ {p}) \ {x} \in SUBSET S
        OBVIOUS
      <4> QED
        BY <2>3, <4>1, SumIsNumber
    <3> QED
      BY <2>3, <3>2, <3>3, <3>4
  <2> QED
    BY <2>3, <2>5
<1>4. Nat \subseteq Good
  <2> HIDE DEF Good
  <2> QED
    BY <1>2, <1>3, NaturalsOneByOne
<1> TAKE T \in SUBSET S
<1>5. Cardinality(T) \in Nat
  BY FS_Subset, FS_CardinalityType
<1> QED
  BY <1>4, <1>5

LEMMA TotalAdds ==
  ASSUME NEW S, IsFiniteSet(S), NEW x, x \notin S,
         NEW f, \A y \in S \cup {x} : f[y] \in Int
  PROVE  /\ Total(f, S) \in Int /\ Total(f, S \cup {x}) \in Int
         /\ Total(f, S \cup {x}) = f[x] + Total(f, S)
<1> DEFINE U == S \cup {x}
<1>1. IsFiniteSet(U) /\ U \ {x} = S /\ S \in SUBSET U /\ U \in SUBSET U /\ x \in U
  BY FS_AddElement
<1>2. PICK sum : SumsSubsets(sum, f, U)
  BY <1>1, SubsetsSummed
<1>3. Total(f, S) = sum[S] /\ Total(f, U) = sum[U]
  BY <1>1, <1>2, TotalIsSum
<1>4. \A y \in U : f[y] \in Int
  OBVIOUS
<1> HIDE DEF U
<1>5. sum[S] \in Int /\ sum[U] \in Int
  BY <1>1, <1>2, <1>4, SumIsNumber
<1>6. sum[U] = f[x] + sum[U \ {x}]
  BY <1>1, <1>2, <1>4, SumTakesAny
<1> QED
  BY <1>1, <1>3, <1>5, <1>6 DEF U

LEMMA TotalIsNumber ==
  ASSUME NEW S, IsFiniteSet(S), NEW f, \A y \in S : f[y] \in Int
  PROVE  Total(f, S) \in Int
<1>1. PICK sum : SumsSubsets(sum, f, S)
  BY SubsetsSummed
<1> QED
  BY <1>1, TotalIsSum, SumIsNumber

(* Ones add up to the number of elements.                                  *)
LEMMA TotalOfOnes ==
  ASSUME NEW S, IsFiniteSet(S), NEW f, \A x \in S : f[x] = 1
  PROVE  Total(f, S) = Cardinality(S)
<1> DEFINE G == {T \in SUBSET S : Total(f, T) = Cardinality(T)}
<1>1. {} \in G
  BY TotalEmpty, FS_EmptySet
<1>2. ASSUME NEW T \in SUBSET S, NEW x \in S \ T, T \in G
      PROVE  T \cup {x} \in G
  <2>1. IsFiniteSet(T) /\ \A y \in T \cup {x} : f[y] \in Int
    BY FS_Subset
  <2>2. Total(f, T \cup {x}) = 1 + Total(f, T)
    BY <2>1, TotalAdds
  <2>3. Cardinality(T \cup {x}) = Cardinality(T) + 1
    BY <2>1, FS_AddElement
  <2>4. Cardinality(T) \in Nat
    BY <2>1, FS_CardinalityType
  <2> QED
    BY <1>2, <2>2, <2>3, <2>4
<1>3. S \in G
  <2> HIDE DEF G
  <2> QED
    BY <1>1, <1>2, SetOneByOne
<1> QED
  BY <1>3

(* Sums of sums.                                                           *)
LEMMA TotalOfTwo ==
  ASSUME NEW S, IsFiniteSet(S), NEW f, NEW g, NEW h,
         \A x \in S : f[x] \in Int /\ g[x] \in Int /\ h[x] = f[x] + g[x]
  PROVE  Total(h, S) = Total(f, S) + Total(g, S)
<1> DEFINE G == {T \in SUBSET S : Total(h, T) = Total(f, T) + Total(g, T)}
<1>1. {} \in G
  BY TotalEmpty
<1>2. ASSUME NEW T \in SUBSET S, NEW x \in S \ T, T \in G
      PROVE  T \cup {x} \in G
  <2>1. IsFiniteSet(T)
    BY FS_Subset
  <2>2. \A y \in T \cup {x} : f[y] \in Int /\ g[y] \in Int /\ h[y] \in Int
    OBVIOUS
  <2>3. Total(h, T \cup {x}) = h[x] + Total(h, T)
    BY <2>1, <2>2, TotalAdds
  <2>4. /\ Total(f, T \cup {x}) = f[x] + Total(f, T)
        /\ Total(g, T \cup {x}) = g[x] + Total(g, T)
        /\ Total(f, T) \in Int /\ Total(g, T) \in Int
    BY <2>1, <2>2, TotalAdds
  <2>5. h[x] = f[x] + g[x] /\ f[x] \in Int /\ g[x] \in Int
    OBVIOUS
  <2>6. Total(h, T) = Total(f, T) + Total(g, T)
    BY <1>2
  <2>7. Total(h, T \cup {x}) = Total(f, T \cup {x}) + Total(g, T \cup {x})
    BY <2>3, <2>4, <2>5, <2>6
  <2> QED
    BY <2>7
<1>3. S \in G
  <2> HIDE DEF G
  <2> QED
    BY <1>1, <1>2, SetOneByOne
<1> QED
  BY <1>3

(* Changing one value of a sum.                                            *)
LEMMA TotalChanged ==
  ASSUME NEW S, IsFiniteSet(S), NEW f, NEW g, NEW k \in S, NEW c \in Int,
         \A x \in S : f[x] \in Int, g[k] = c + f[k], \A x \in S \ {k} : g[x] = f[x]
  PROVE  Total(g, S) = c + Total(f, S)
<1> DEFINE R == S \ {k}
<1>1. IsFiniteSet(R) /\ k \notin R /\ R \cup {k} = S
  BY FS_RemoveElement
<1>2. /\ \A x \in R \cup {k} : f[x] \in Int /\ g[x] \in Int
      /\ \A x \in R : f[x] = g[x]
  OBVIOUS
<1> HIDE DEF R
<1>3. Total(f, R) = Total(g, R)
  BY <1>1, <1>2, TotalSame
<1>4. /\ Total(f, R \cup {k}) = f[k] + Total(f, R)
      /\ Total(g, R \cup {k}) = g[k] + Total(g, R)
      /\ Total(f, R) \in Int
  BY <1>1, <1>2, TotalAdds
<1>5. f[k] \in Int /\ g[k] = c + f[k]
  OBVIOUS
<1>6. Total(g, R \cup {k}) = c + Total(f, R \cup {k})
  BY <1>3, <1>4, <1>5
<1> QED
  BY <1>1, <1>6

(* A set adds up to what its parts add up to.                              *)
LEMMA TotalOfParts ==
  ASSUME NEW S, IsFiniteSet(S), NEW f, \A x \in S : f[x] \in Int,
         NEW K, IsFiniteSet(K), NEW kind, \A x \in S : kind[x] \in K
  PROVE  Total(f, S) = Total([k \in K |-> Total(f, {x \in S : kind[x] = k})], K)
<1> DEFINE parts(T) == [k \in K |-> Total(f, {x \in T : kind[x] = k})]
           G == {T \in SUBSET S : Total(f, T) = Total(parts(T), K)}
<1>0. ASSUME NEW T \in SUBSET S, NEW k \in K
      PROVE  parts(T)[k] \in Int /\ IsFiniteSet({x \in T : kind[x] = k})
  <2>1. {x \in T : kind[x] = k} \in SUBSET S
    OBVIOUS
  <2>2. IsFiniteSet({x \in T : kind[x] = k}) /\ \A x \in {y \in T : kind[y] = k} : f[x] \in Int
    BY <2>1, FS_Subset
  <2>3. Total(f, {x \in T : kind[x] = k}) \in Int
    BY <2>2, TotalIsNumber
  <2> QED
    BY <2>2, <2>3
<1>1. {} \in G
  <2> DEFINE zeros == parts({})
  <2>1. ASSUME NEW k \in K PROVE zeros[k] = 0
    <3>1. {x \in {} : kind[x] = k} = {}
      OBVIOUS
    <3> QED
      BY <3>1, TotalEmpty
  <2> HIDE DEF zeros
  <2>2. ASSUME NEW L \in SUBSET K, NEW k \in K \ L, Total(zeros, L) = 0
        PROVE  Total(zeros, L \cup {k}) = 0
    <3>1. IsFiniteSet(L) /\ \A l \in L \cup {k} : zeros[l] \in Int
      BY <2>1, FS_Subset
    <3>2. Total(zeros, L \cup {k}) = zeros[k] + Total(zeros, L)
      BY <3>1, TotalAdds
    <3> QED
      BY <2>1, <2>2, <3>2
  <2> DEFINE Z == {L \in SUBSET K : Total(zeros, L) = 0}
  <2>3. {} \in Z
    BY TotalEmpty
  <2>4. \A L \in SUBSET K : \A k \in K \ L : L \in Z => L \cup {k} \in Z
    BY <2>2
  <2>5. K \in Z
    <3> HIDE DEF Z
    <3> QED
      BY <2>3, <2>4, SetOneByOne
  <2>6. Total(parts({}), K) = 0
    BY <2>5 DEF zeros
  <2> QED
    BY <2>6, TotalEmpty
<1>2. ASSUME NEW T \in SUBSET S, NEW x \in S \ T, T \in G
      PROVE  T \cup {x} \in G
  <2> DEFINE old == parts(T)
             new == parts(T \cup {x})
             k == kind[x]
  <2>1. k \in K /\ IsFiniteSet(T) /\ T \cup {x} \in SUBSET S
    BY FS_Subset
  <2>2. \A l \in K : old[l] \in Int
    BY <1>0
  <2>3. ASSUME NEW l \in K \ {k} PROVE new[l] = old[l]
    <3>1. {y \in T \cup {x} : kind[y] = l} = {y \in T : kind[y] = l}
      BY <2>3
    <3> QED
      BY <3>1
  <2>4. new[k] = f[x] + old[k]
    <3> DEFINE A == {y \in T : kind[y] = k}
    <3>1. {y \in T \cup {x} : kind[y] = k} = A \cup {x}
      OBVIOUS
    <3>2. IsFiniteSet(A) /\ x \notin A /\ \A y \in A \cup {x} : f[y] \in Int
      BY <1>0, <2>1
    <3> HIDE DEF A
    <3>3. Total(f, A \cup {x}) = f[x] + Total(f, A)
      BY <3>2, TotalAdds
    <3> QED
      BY <2>1, <3>1, <3>3 DEF A
  <2> HIDE DEF old, new, k
  <2>5. Total(new, K) = f[x] + Total(old, K)
    BY <2>1, <2>2, <2>3, <2>4, TotalChanged
  <2>6. Total(f, T \cup {x}) = f[x] + Total(f, T)
    <3>1. \A y \in T \cup {x} : f[y] \in Int
      OBVIOUS
    <3> QED
      BY <2>1, <3>1, TotalAdds
  <2>7. Total(f, T \cup {x}) = Total(parts(T \cup {x}), K)
    BY <1>2, <2>5, <2>6 DEF old, new
  <2> QED
    BY <2>1, <2>7
<1>3. S \in G
  <2> HIDE DEF G
  <2> QED
    BY <1>1, <1>2, SetOneByOne
<1> QED
  BY <1>3

(* One step of each of the folds over a list.                              *)
FoldStep(what, so_far, i, list, s) ==
  CASE what = "rows" -> CollectOne(so_far, i, list, s)
    [] what = "entries" -> _to_entry(so_far, list[i])
    [] what = "rules" -> apply_rule(so_far, list[i])

(* What the library's definition of a fold recurs on.                      *)
FoldsSubsets(f, what, base, list, s, n) ==
  f = [S \in SUBSET (1..n) |->
         IF S = {} THEN base ELSE FoldStep(what, f[S \ {Max(S)}], Max(S), list, s)]

(* The index the library takes last is the greatest.                       *)
LEMMA GreatestIndex ==
  ASSUME NEW n \in Nat, NEW S \in SUBSET (1..n), S # {}
  PROVE  Max(S) \in S /\ Max(S) \in 1..n /\ \A k \in S : k <= Max(S)
<1>1. S \subseteq 0..n
  OBVIOUS
<1>2. Max(S) \in S /\ \A k \in S : k <= Max(S)
  BY <1>1, MaxIsGreatest, Zenon
<1> QED
  BY <1>2

(* The function the library's definition chooses exists.                   *)
LEMMA SubsetsFolded ==
  ASSUME NEW what, NEW base, NEW list, NEW s, NEW n \in Nat
  PROVE  \E f : FoldsSubsets(f, what, base, list, s, n)
<1> DEFINE P(k) == \E f : FoldsSubsets(f, what, base, list, s, k)
           Bad == {k \in Nat : ~P(k)}
<1>1. P(0)
  <2> DEFINE f == [S \in SUBSET (1..0) |-> base]
  <2>1. \A S \in SUBSET (1..0) : S = {}
    OBVIOUS
  <2>2. f = [S \in SUBSET (1..0) |->
               IF S = {} THEN base ELSE FoldStep(what, f[S \ {Max(S)}], Max(S), list, s)]
    BY <2>1
  <2> QED
    BY <2>2, Zenon DEF FoldsSubsets
<1>2. ASSUME NEW k \in Nat \ {0}, P(k - 1) PROVE P(k)
  <2>1. PICK f : FoldsSubsets(f, what, base, list, s, k - 1)
    BY <1>2
  <2> DEFINE g == [S \in SUBSET (1..k) |->
                     IF k \in S THEN FoldStep(what, f[S \ {k}], k, list, s) ELSE f[S]]
             h == [S \in SUBSET (1..k) |->
                     IF S = {} THEN base ELSE FoldStep(what, g[S \ {Max(S)}], Max(S), list, s)]
  <2>2. ASSUME NEW S \in SUBSET (1..k) PROVE g[S] = h[S]
    <3>1. CASE k \in S
      <4>1. S # {}
        BY <3>1
      <4>2. Max(S) = k
        <5>1. Max(S) \in 1..k /\ k <= Max(S)
          BY <3>1, <4>1, GreatestIndex
        <5> QED
          BY <5>1
      <4>3. S \ {k} \in SUBSET (1..k) /\ k \notin S \ {k}
        OBVIOUS
      <4>4. g[S \ {k}] = f[S \ {k}]
        BY <4>3
      <4> QED
        BY <3>1, <4>1, <4>2, <4>4
    <3>2. CASE k \notin S /\ S # {}
      <4>1. S \in SUBSET (1..(k - 1))
        BY <3>2
      <4>2. Max(S) \in S
        BY <3>2, GreatestIndex
      <4>3. f[S] = FoldStep(what, f[S \ {Max(S)}], Max(S), list, s)
        BY <2>1, <3>2, <4>1, Zenon DEF FoldsSubsets
      <4>4. S \ {Max(S)} \in SUBSET (1..k) /\ k \notin S \ {Max(S)}
        BY <3>2
      <4>5. g[S \ {Max(S)}] = f[S \ {Max(S)}]
        BY <4>4, Zenon
      <4> QED
        BY <3>2, <4>3, <4>5, Zenon
    <3>3. CASE S = {}
      <4>1. S \in SUBSET (1..(k - 1)) /\ k \notin S
        BY <3>3
      <4>2. f[S] = base
        BY <2>1, <3>3, <4>1, Zenon DEF FoldsSubsets
      <4> QED
        BY <3>3, <4>1, <4>2
    <3> QED
      BY <3>1, <3>2, <3>3
  <2>3. g = h
    BY <2>2, Zenon
  <2>4. FoldsSubsets(g, what, base, list, s, k)
    BY <2>3, Zenon DEF FoldsSubsets
  <2> QED
    BY <2>4
<1> HIDE DEF P
<1>3. Bad = {}
  <2> SUFFICES ASSUME Bad # {} PROVE FALSE
    OBVIOUS
  <2>1. PICK m \in Bad : \A k \in Bad : m <= k
    BY LeastNatural
  <2>2. m \in Nat \ {0} /\ m - 1 \in Nat
    BY <1>1, <2>1
  <2>3. P(m - 1)
    BY <2>1, <2>2
  <2> QED
    BY <1>2, <2>1, <2>2, <2>3
<1> QED
  BY <1>3 DEF P

(* A fold over a list goes through it from the first element to the last.  *)
IsRun(run, what, base, list, s, n) ==
  /\ run[0] = base
  /\ \A k \in 1..n : run[k] = FoldStep(what, run[k - 1], k, list, s)

LEMMA FoldRuns ==
  ASSUME NEW what, NEW base, NEW list, NEW s, NEW n \in Nat,
         NEW f, FoldsSubsets(f, what, base, list, s, n)
  PROVE  IsRun([k \in 0..n |-> f[1..k]], what, base, list, s, n)
<1> DEFINE run == [k \in 0..n |-> f[1..k]]
<1>1. run[0] = base
  <2>1. 1..0 = {} /\ {} \in SUBSET (1..n) /\ 0 \in 0..n
    OBVIOUS
  <2>2. f[{}] = base
    BY <2>1, Zenon DEF FoldsSubsets
  <2>3. run[0] = f[1..0]
    BY <2>1
  <2> QED
    BY <2>1, <2>2, <2>3, Zenon
<1>2. ASSUME NEW k \in 1..n
      PROVE  run[k] = FoldStep(what, run[k - 1], k, list, s)
  <2>1. /\ 1..k \in SUBSET (1..n) /\ 1..k # {} /\ (1..k) \ {k} = 1..(k - 1)
        /\ k \in 0..n /\ k - 1 \in 0..n
    OBVIOUS
  <2>2. Max(1..k) = k
    <3>1. k \in Nat /\ 1..k \subseteq 0..k /\ k \in 1..k
      OBVIOUS
    <3>2. Max(1..k) \in 1..k /\ k <= Max(1..k)
      BY <2>1, <3>1, MaxIsGreatest
    <3> QED
      BY <3>2
  <2>3. f[1..k] = FoldStep(what, f[(1..k) \ {Max(1..k)}], Max(1..k), list, s)
    BY <2>1, Zenon DEF FoldsSubsets
  <2>4. run[k] = f[1..k] /\ run[k - 1] = f[1..(k - 1)]
    BY <2>1
  <2> QED
    BY <2>1, <2>2, <2>3, <2>4, Zenon
<1> HIDE DEF run
<1>3. IsRun(run, what, base, list, s, n)
  BY <1>1, <1>2 DEF IsRun
<1> QED
  BY <1>3 DEF run

Nothing == [normalized |-> <<>>, issues |-> {}, seen |-> {}]

(* Collecting the rows of a file reads them one after the other            *)
(* (_collect_rows).                                                        *)
LEMMA RowsCollected ==
  ASSUME NEW lines, NEW s, NEW n \in Nat, DOMAIN lines = 1..n
  PROVE  \E run : /\ run[0] = Nothing
                  /\ \A k \in 1..n : run[k] = CollectOne(run[k - 1], k, lines, s)
                  /\ _collect_rows(lines, s) = run[n]
<1> DEFINE index == [i \in DOMAIN lines |-> i]
           Folded(f) == f = [S \in SUBSET DOMAIN index |->
                               IF S = {} THEN Nothing
                               ELSE CollectOne(f[S \ {Max(S)}], index[Max(S)], lines, s)]
           g == CHOOSE f : Folded(f)
<1>1. PICK f : FoldsSubsets(f, "rows", Nothing, lines, s, n)
  BY SubsetsFolded
<1>2. DOMAIN index = 1..n /\ \A i \in 1..n : index[i] = i
  OBVIOUS
<1>3. ASSUME NEW h
      PROVE  FoldsSubsets(h, "rows", Nothing, lines, s, n) <=> Folded(h)
  <2> DEFINE one == [S \in SUBSET (1..n) |->
                       IF S = {} THEN Nothing
                       ELSE FoldStep("rows", h[S \ {Max(S)}], Max(S), lines, s)]
             other == [S \in SUBSET DOMAIN index |->
                         IF S = {} THEN Nothing
                         ELSE CollectOne(h[S \ {Max(S)}], index[Max(S)], lines, s)]
  <2>1. ASSUME NEW S \in SUBSET (1..n), S # {}
        PROVE  FoldStep("rows", h[S \ {Max(S)}], Max(S), lines, s)
                 = CollectOne(h[S \ {Max(S)}], index[Max(S)], lines, s)
    <3>1. index[Max(S)] = Max(S)
      BY <1>2, <2>1, GreatestIndex
    <3> QED
      BY <3>1, Zenon DEF FoldStep
  <2> HIDE DEF index
  <2>2. one = other
    BY <1>2, <2>1, Zenon
  <2> QED
    BY <2>2, Zenon DEF FoldsSubsets
<1>4. \A h : FoldsSubsets(h, "rows", Nothing, lines, s, n) <=> Folded(h)
  BY <1>3, Zenon
<1>5. _collect_rows(lines, s) = g[DOMAIN index]
  BY Zenon DEF _collect_rows, FoldLeft, MapThenFoldSet, Nothing
<1>6. FoldsSubsets(g, "rows", Nothing, lines, s, n) /\ DOMAIN index = 1..n
  <2>1. Folded(g)
    BY <1>1, <1>4, Zenon
  <2> QED
    BY <1>4, <2>1, Zenon
<1> HIDE DEF g
<1> DEFINE run == [k \in 0..n |-> g[1..k]]
<1>7. IsRun(run, "rows", Nothing, lines, s, n)
  BY <1>6, FoldRuns
<1>8. run[n] = g[1..n]
  OBVIOUS
<1> HIDE DEF run
<1> QED
  BY <1>5, <1>6, <1>7, <1>8, Zenon DEF IsRun, FoldStep

-----------------------------------------------------------------------------
(* The image of a finite set is finite.                                    *)
LEMMA FiniteImage ==
  ASSUME NEW S, IsFiniteSet(S), NEW f
  PROVE  IsFiniteSet({f[x] : x \in S})
<1> DEFINE g == [x \in S |-> f[x]]
           T == {f[x] : x \in S}
<1>1. g \in Surjection(S, T)
  BY DEF Surjection
<1> HIDE DEF g, T
<1>2. IsFiniteSet(T)
  BY <1>1, FS_Surjection
<1> QED
  BY <1>2 DEF T

(* The groups of issues count every issue (group_import_issues).           *)
LEMMA GroupsCountAll ==
  ASSUME NEW issues, IsFiniteSet(issues)
  PROVE  LET grouped == group_import_issues(issues)
         IN  MapThenSumSet(LAMBDA k : grouped[k], DOMAIN grouped) = Cardinality(issues)
<1> DEFINE kind == [x \in issues |-> [code |-> x.issue.code, severity |-> x.issue.severity]]
           K == {kind[x] : x \in issues}
           ones == [x \in issues |-> 1]
           parts == [k \in K |-> Total(ones, {x \in issues : kind[x] = k})]
           grouped == group_import_issues(issues)
<1>1. IsFiniteSet(K)
  BY FiniteImage
<1>2. Total(ones, issues) = Cardinality(issues)
  BY TotalOfOnes
<1>3. Total(ones, issues) = Total(parts, K)
  <2>1. \A x \in issues : kind[x] \in K /\ ones[x] \in Int
    OBVIOUS
  <2> HIDE DEF kind, ones, K
  <2> QED
    BY <1>1, <2>1, TotalOfParts
<1>4. /\ DOMAIN grouped = K
      /\ \A k \in K : grouped[k] = Cardinality({x \in issues : kind[x] = k})
  <2>1. \A x \in issues : kind[x] = [code |-> x.issue.code, severity |-> x.issue.severity]
    OBVIOUS
  <2>2. K = {[code |-> x.issue.code, severity |-> x.issue.severity] : x \in issues}
    BY <2>1, Zenon
  <2>3. DOMAIN grouped = K
    BY <2>2, Zenon DEF group_import_issues
  <2>4. ASSUME NEW k \in K PROVE grouped[k] = Cardinality({x \in issues : kind[x] = k})
    <3>1. {x \in issues : kind[x] = k}
            = {x \in issues : [code |-> x.issue.code, severity |-> x.issue.severity] = k}
      BY <2>1, Zenon
    <3>2. grouped[k] = Cardinality({x \in issues :
                                     [code |-> x.issue.code, severity |-> x.issue.severity] = k})
      BY <2>2, Zenon DEF group_import_issues
    <3> QED
      BY <3>1, <3>2, Zenon
  <2> QED
    BY <2>3, <2>4
<1>5. ASSUME NEW k \in K PROVE grouped[k] = parts[k]
  <2>1. {x \in issues : kind[x] = k} \in SUBSET issues
    OBVIOUS
  <2>2. IsFiniteSet({x \in issues : kind[x] = k})
    BY <2>1, FS_Subset
  <2>3. \A x \in {y \in issues : kind[y] = k} : ones[x] = 1
    OBVIOUS
  <2>4. parts[k] = Cardinality({x \in issues : kind[x] = k})
    <3> HIDE DEF ones, kind, K
    <3> QED
      BY <2>2, <2>3, TotalOfOnes
  <2> QED
    BY <1>4, <2>4
<1> HIDE DEF grouped, parts, K
<1>6. Total(grouped, K) = Total(parts, K)
  BY <1>1, <1>5, TotalSame
<1>7. MapThenSumSet(LAMBDA k : grouped[k], DOMAIN grouped) = Total(grouped, K)
  BY <1>4, Zenon DEF Total
<1> QED
  BY <1>2, <1>3, <1>6, <1>7 DEF grouped

-----------------------------------------------------------------------------
(* The rows of a file, one by one.                                         *)

(* The issues of a row are finitely many, errors or warnings.              *)
LEMMA RowIssues ==
  ASSUME NEW row, NEW s, validate_mapping(s.fields), IsFiniteSet(row.formulas)
  PROVE  /\ IsFiniteSet(normalize_row(row, s).issues)
         /\ \A x \in normalize_row(row, s).issues : x.severity \in {"error", "warning"}
<1>0. ASSUME NEW condition, NEW field, NEW code
      PROVE  /\ IsFiniteSet(IssueIf(condition, field, code))
             /\ \A x \in IssueIf(condition, field, code) : x.severity = "error"
  <2>1. IsFiniteSet({_issue(field, code)}) /\ IsFiniteSet({})
    BY FS_Singleton, FS_EmptySet
  <2>2. IssueIf(condition, field, code) \in {{_issue(field, code)}, {}}
    BY Zenon DEF IssueIf
  <2> QED
    BY <2>1, <2>2, IssueSeverity
<1>1. IsFiniteSet(REQUIRED_FIELDS) /\ IsFiniteSet(s.fields)
  <2> DEFINE field == <<"period", "account_code", "account_name", "account_type",
                        "department_code", "department_name", "cost_center_code",
                        "cost_center_name", "amount", "currency", "source_reference">>
  <2>1. CANONICAL_FIELDS \subseteq {field[i] : i \in 1..11}
    BY DEF CANONICAL_FIELDS
  <2>2. IsFiniteSet(1..11)
    <3>1. 1 \in Int /\ 11 \in Int
      OBVIOUS
    <3> QED
      BY <3>1, FS_Interval, Zenon
  <2> HIDE DEF field
  <2>3. IsFiniteSet({field[i] : i \in 1..11})
    BY <2>2, FiniteImage
  <2>4. IsFiniteSet(CANONICAL_FIELDS)
    BY <2>1, <2>3, FS_Subset
  <2>5. REQUIRED_FIELDS \subseteq CANONICAL_FIELDS
    BY DEF REQUIRED_FIELDS, CANONICAL_FIELDS
  <2> QED
    BY <2>4, <2>5, FS_Subset DEF validate_mapping
<1>2. ASSUME NEW S, IsFiniteSet(S), NEW code
      PROVE  /\ IsFiniteSet({_issue(f, code) : f \in S})
             /\ \A x \in {_issue(f, code) : f \in S} : x.severity = "error"
  <2> DEFINE g == [f \in S |-> _issue(f, code)]
  <2>1. \A f \in S : g[f] = _issue(f, code)
    OBVIOUS
  <2>2. {_issue(f, code) : f \in S} = {g[f] : f \in S}
    BY <2>1, Zenon
  <2>3. \A x \in {_issue(f, code) : f \in S} : x.severity = "error"
    BY DEF _issue
  <2> HIDE DEF g
  <2>4. IsFiniteSet({g[f] : f \in S})
    BY <1>2, FiniteImage
  <2> QED
    BY <2>2, <2>3, <2>4, Zenon
<1>3. /\ IsFiniteSet(Missing(row, s)) /\ \A x \in Missing(row, s) : x.severity = "error"
      /\ IsFiniteSet(_bounded(row, s)) /\ \A x \in _bounded(row, s) : x.severity = "error"
  <2> DEFINE S == {g \in REQUIRED_FIELDS : mapped_value(row, s, g) = None}
             B == {g \in BoundedFields(s) : mapped_value(row, s, g) \in Overlong}
  <2>1. S \in SUBSET REQUIRED_FIELDS /\ B \in SUBSET s.fields
    BY DEF BoundedFields
  <2>2. IsFiniteSet(S) /\ IsFiniteSet(B)
    BY <1>1, <2>1, FS_Subset
  <2>3. /\ Missing(row, s) = {_issue(f, "MISSING_COLUMN") : f \in S}
        /\ _bounded(row, s) = {_issue(f, "TEXT_TRUNCATION") : f \in B}
    BY Zenon DEF Missing, _bounded
  <2> HIDE DEF S, B
  <2> QED
    BY <1>2, <2>2, <2>3
<1>4. /\ IsFiniteSet(period_issues(row, s)) /\ IsFiniteSet(amount_issues(row, s))
      /\ IsFiniteSet(currency_issues(row, s)) /\ IsFiniteSet(account_type_issues(row, s))
      /\ \A x \in period_issues(row, s) \cup amount_issues(row, s) \cup currency_issues(row, s)
            \cup account_type_issues(row, s) : x.severity = "error"
  BY <1>0 DEF period_issues, amount_issues, currency_issues, account_type_issues
<1>5. /\ IsFiniteSet(center_warnings(row, s))
      /\ \A x \in center_warnings(row, s) : x.severity = "warning"
  <2> DEFINE warning == Warning("cost_center_code", "EMPTY_OPTIONAL_VALUE")
  <2>1. warning.severity = "warning"
    BY DEF Warning
  <2> HIDE DEF warning
  <2>2. IsFiniteSet({warning}) /\ IsFiniteSet({})
    BY FS_Singleton, FS_EmptySet
  <2>3. center_warnings(row, s) = {warning} \/ center_warnings(row, s) = {}
    BY DEF center_warnings, warning
  <2> QED
    BY <2>1, <2>2, <2>3
<1>6. CASE row.formulas # {}
  <2>1. normalize_row(row, s).issues = {_issue(h, "FORMULA_NOT_ALLOWED") : h \in row.formulas}
    BY <1>6 DEF normalize_row
  <2> DEFINE issues == {_issue(h, "FORMULA_NOT_ALLOWED") : h \in row.formulas}
  <2>2. IsFiniteSet(issues) /\ \A x \in issues : x.severity = "error"
    BY <1>2
  <2> HIDE DEF issues
  <2> QED
    BY <2>1, <2>2 DEF issues
<1>7. CASE row.formulas = {} /\ Blank(row, s)
  <2>1. normalize_row(row, s).issues = {Warning("row", "EMPTY_OPTIONAL_VALUE")}
    BY <1>7 DEF normalize_row
  <2> DEFINE warning == Warning("row", "EMPTY_OPTIONAL_VALUE")
  <2>2. warning.severity = "warning"
    BY DEF Warning
  <2> HIDE DEF warning
  <2>3. IsFiniteSet({warning})
    BY FS_Singleton
  <2>4. normalize_row(row, s).issues = {warning}
    BY <2>1 DEF warning
  <2> QED
    BY <2>2, <2>3, <2>4
<1>8. CASE row.formulas = {} /\ ~Blank(row, s)
  <2> DEFINE errors == Missing(row, s) \cup period_issues(row, s) \cup amount_issues(row, s)
                       \cup currency_issues(row, s) \cup _bounded(row, s)
                       \cup account_type_issues(row, s)
  <2>1. normalize_row(row, s).issues = errors \cup center_warnings(row, s)
    BY <1>8 DEF normalize_row
  <2>2. \A x \in errors : x.severity = "error"
    BY <1>3, <1>4
  <2>3. IsFiniteSet(errors)
    BY <1>3, <1>4, FS_Union
  <2> HIDE DEF errors
  <2>4. IsFiniteSet(errors \cup center_warnings(row, s))
    BY <1>5, <2>3, FS_Union
  <2> QED
    BY <1>5, <2>1, <2>2, <2>4
<1> QED
  BY <1>6, <1>7, <1>8

(* So are those of the dimensions of an item; they have an error unless    *)
(* every code is known or can be created.                                  *)
LEMMA DimensionIssues ==
  ASSUME NEW item, NEW s, s.create_missing \in BOOLEAN
  PROVE  /\ IsFiniteSet(_dimension_issues(item, s))
         /\ \A x \in _dimension_issues(item, s) : x.severity \in {"error", "warning"}
         /\ HasError(_dimension_issues(item, s)) <=> ~Resolvable(item, s)
<1> DEFINE D == {e \in Dimensions : Absent(item, s, e)}
           unnamed(d) == d \in DOMAIN NameField /\ item[NameField[d]] = None
           issue == [d \in Dimensions |->
                      IF s.create_missing /\ unnamed(d)
                      THEN _issue(NameField[d], "MISSING_COLUMN")
                      ELSE IF s.create_missing THEN Warning(CodeField[d], UnknownCode[d])
                      ELSE _issue(CodeField[d], UnknownCode[d])]
<1>1. _dimension_issues(item, s) = {issue[d] : d \in D}
  <2>1. \A d \in D :
          issue[d] = IF s.create_missing /\ d \in DOMAIN NameField /\ item[NameField[d]] = None
                     THEN _issue(NameField[d], "MISSING_COLUMN")
                     ELSE IF s.create_missing THEN Warning(CodeField[d], UnknownCode[d])
                     ELSE _issue(CodeField[d], UnknownCode[d])
    OBVIOUS
  <2> HIDE DEF issue
  <2> QED
    BY <2>1, Zenon DEF _dimension_issues
<1>2. IsFiniteSet(D)
  <2>1. {"account"} \cup {"department"} \cup {"cost_center"} = Dimensions
    BY DEF Dimensions
  <2>2. IsFiniteSet(Dimensions)
    BY <2>1, FS_Singleton, FS_AddElement
  <2> QED
    BY <2>2, FS_Subset
<1>3. \A d \in Dimensions :
        /\ issue[d].severity \in {"error", "warning"}
        /\ issue[d].severity = "error" <=> (s.create_missing => unnamed(d))
  BY DEF _issue, Warning
<1>4. Resolvable(item, s) <=> \A d \in D : s.create_missing /\ ~unnamed(d)
  BY DEF Resolvable
<1> HIDE DEF issue, unnamed
<1>5. HasError({issue[d] : d \in D}) <=> \E d \in D : issue[d].severity = "error"
  BY Zenon DEF HasError
<1>6. \A d \in D : d \in Dimensions
  OBVIOUS
<1>7. IsFiniteSet({issue[d] : d \in D})
  BY <1>2, FiniteImage
<1> HIDE DEF D
<1> QED
  BY <1>1, <1>3, <1>4, <1>5, <1>6, <1>7

(* Issues placed at a row.                                                 *)
LEMMA PlacedIssues ==
  ASSUME NEW i, NEW issues, IsFiniteSet(issues),
         \A x \in issues : x.severity \in {"error", "warning"}
  PROVE  /\ IsFiniteSet(Placed(i, issues))
         /\ \A p \in Placed(i, issues) : /\ p.row = i
                                         /\ p.issue.severity \in {"error", "warning"}
         /\ (\E p \in Placed(i, issues) : p.issue.severity = "error") <=> HasError(issues)
         /\ Placed(i, issues) = {} <=> issues = {}
<1> DEFINE place == [x \in issues |-> [row |-> i, issue |-> x]]
<1>1. \A x \in issues : place[x].row = i /\ place[x].issue = x
  OBVIOUS
<1>2. Placed(i, issues) = {place[x] : x \in issues}
  BY DEF Placed
<1> HIDE DEF place
<1>3. IsFiniteSet(Placed(i, issues))
  BY <1>2, FiniteImage
<1>4. \A p \in Placed(i, issues) : p.row = i /\ p.issue.severity \in {"error", "warning"}
  BY <1>1, <1>2
<1>5. (\E p \in Placed(i, issues) : p.issue.severity = "error") <=> HasError(issues)
  BY <1>1, <1>2 DEF HasError
<1>6. Placed(i, issues) = {} <=> issues = {}
  BY <1>2
<1> QED
  BY <1>3, <1>4, <1>5, <1>6

(* A file of n rows, as validation gets it.                                *)
FileGiven(lines, s, n) ==
  /\ n \in Nat /\ DOMAIN lines = 1..n
  /\ validate_mapping(s.fields) /\ s.create_missing \in BOOLEAN
  /\ \A i \in 1..n : /\ IsFiniteSet(lines[i].formulas)
                     /\ Sound(lines[i], s) => Item(lines[i], s) # None

KeyAt(lines, s, i) == duplicate_key(Item(lines[i], s))
NothingIn(row, s) == row.formulas = {} /\ Blank(row, s)

(* The rows with something in them end at LastData.                        *)
LEMMA LastDataIsLast ==
  ASSUME NEW lines, NEW s, NEW n, FileGiven(lines, s, n), NEW i \in 1..n
  PROVE  /\ LastData(lines, s) \in 0..n
         /\ ~NothingIn(lines[i], s) => i <= LastData(lines, s)
         /\ NothingIn(lines[i], s) => i # LastData(lines, s)
<1> DEFINE data == {j \in DOMAIN lines : lines[j].formulas # {} \/ ~Blank(lines[j], s)}
<1>1. n \in Nat /\ data \in SUBSET (1..n)
  BY DEF FileGiven
<1>2. LastData(lines, s) = IF data = {} THEN 0 ELSE Max(data)
  BY DEF LastData
<1>3. i \in data <=> ~NothingIn(lines[i], s)
  BY DEF FileGiven, NothingIn
<1> HIDE DEF data
<1>4. CASE data = {}
  BY <1>1, <1>2, <1>3, <1>4
<1>5. CASE data # {}
  <2>1. Max(data) \in data /\ Max(data) \in 1..n /\ \A k \in data : k <= Max(data)
    BY <1>1, <1>5, GreatestIndex
  <2> QED
    BY <1>1, <1>2, <1>3, <1>5, <2>1
<1> QED
  BY <1>4, <1>5

(* What normalize_row says of one row of the file.                         *)
LEMMA RowNormalized ==
  ASSUME NEW lines, NEW s, NEW n, FileGiven(lines, s, n), NEW i \in 1..n
  PROVE  LET result == normalize_row(lines[i], s)
         IN /\ result.item = None <=> ~Sound(lines[i], s)
            /\ Sound(lines[i], s) => result.item = Item(lines[i], s) /\ ~HasError(result.issues)
            /\ Sound(lines[i], s) => ~NothingIn(lines[i], s)
            /\ ~Sound(lines[i], s) => (HasError(result.issues) <=> ~NothingIn(lines[i], s))
            /\ NothingIn(lines[i], s) => result.issues # {}
            /\ IsFiniteSet(result.issues)
            /\ \A x \in result.issues : x.severity \in {"error", "warning"}
<1>1. /\ validate_mapping(s.fields) /\ IsFiniteSet(lines[i].formulas)
      /\ Sound(lines[i], s) => Item(lines[i], s) # None
  BY DEF FileGiven
<1> DEFINE row == lines[i]
           result == normalize_row(row, s)
<1>2. /\ Sound(row, s) => result.item = Item(row, s) /\ ~HasError(result.issues)
      /\ ~Sound(row, s) => /\ result.item = None
                           /\ HasError(result.issues) <=> ~(row.formulas = {} /\ Blank(row, s))
  BY <1>1, RowsAreSoundOrReported
<1>3. NothingIn(row, s) => result.item = None /\ result.issues # {}
  BY DEF NothingIn, normalize_row
<1>4. IsFiniteSet(result.issues) /\ \A x \in result.issues : x.severity \in {"error", "warning"}
  BY <1>1, RowIssues
<1> HIDE DEF row, result
<1> QED
  BY <1>1, <1>2, <1>3, <1>4 DEF NothingIn, row, result

(* The three parts one more row may add to.                                *)
RowTaken(lines, s, i, seen) ==
  /\ Sound(lines[i], s) /\ KeyAt(lines, s, i) \notin seen
  /\ Resolvable(Item(lines[i], s), s)

RowAdds(c, d, lines, s, i) ==
  \E N : /\ d = [normalized |-> IF RowTaken(lines, s, i, c.seen)
                                THEN Append(c.normalized, [row |-> i, item |-> Item(lines[i], s)])
                                ELSE c.normalized,
                 issues |-> c.issues \cup N,
                 seen |-> IF Sound(lines[i], s) THEN c.seen \cup {KeyAt(lines, s, i)} ELSE c.seen]
         /\ IsFiniteSet(N)
         /\ \A x \in N : x.row = i /\ x.issue.severity \in {"error", "warning"}
         /\ (\E x \in N : x.issue.severity = "error")
              <=> ~RowTaken(lines, s, i, c.seen) /\ ~NothingIn(lines[i], s)
         /\ NothingIn(lines[i], s) => (N # {} <=> i < LastData(lines, s))

LEMMA CollectedChanges ==
  ASSUME NEW a, NEW b, NEW k, NEW c, c = [normalized |-> a, issues |-> b, seen |-> k]
  PROVE  /\ \A p : [c EXCEPT !.issues = @ \cup p]
                     = [normalized |-> a, issues |-> b \cup p, seen |-> k]
         /\ \A p, q : [c EXCEPT !.issues = @ \cup p, !.seen = @ \cup q]
                        = [normalized |-> a, issues |-> b \cup p, seen |-> k \cup q]
<1>1. c.normalized = a /\ c.issues = b /\ c.seen = k
  OBVIOUS
<1>2. \A x : [c EXCEPT !.issues = x] = [normalized |-> a, issues |-> x, seen |-> k]
  BY Z3
<1>4. \A x, y : [c EXCEPT !.issues = x, !.seen = y] = [normalized |-> a, issues |-> x, seen |-> y]
  <2>1. ASSUME NEW x, NEW y
        PROVE  [[normalized |-> a, issues |-> x, seen |-> k] EXCEPT !.seen = y]
                 = [normalized |-> a, issues |-> x, seen |-> y]
    BY Z3
  <2>2. \A x, y : [c EXCEPT !.issues = x, !.seen = y] = [[c EXCEPT !.issues = x] EXCEPT !.seen = y]
    BY Zenon
  <2> QED
    BY <1>2, <2>1, <2>2, Zenon
<1> QED
  BY <1>1, <1>2, <1>4, Zenon

LEMMA CollectedGrows ==
  ASSUME NEW a, NEW b, NEW k, NEW r, NEW c, c = [normalized |-> a, issues |-> b, seen |-> k]
  PROVE  c.normalized = a /\ [c EXCEPT !.normalized = r]
                               = [normalized |-> r, issues |-> b, seen |-> k]
BY Z3

(* Reading one row adds what RowAdds says.                                 *)
LEMMA RowCollected ==
  ASSUME NEW lines, NEW s, NEW n, FileGiven(lines, s, n), NEW i \in 1..n,
         NEW a, NEW b, NEW k, NEW c, c = [normalized |-> a, issues |-> b, seen |-> k]
  PROVE  RowAdds(c, CollectOne(c, i, lines, s), lines, s, i)
<1> DEFINE result == normalize_row(lines[i], s)
           key == KeyAt(lines, s, i)
           unknown == _dimension_issues(Item(lines[i], s), s)
           duplicate == {_issue("row", "DUPLICATE_ROW")}
           sound == Sound(lines[i], s)
           empty == NothingIn(lines[i], s)
           last == LastData(lines, s)
           placed == [normalized |-> a, issues |-> b \cup Placed(i, result.issues), seen |-> k]
           checked == [normalized |-> a,
                       issues |-> (b \cup Placed(i, result.issues)) \cup Placed(i, unknown),
                       seen |-> k \cup {key}]
<1>1. CollectOne(c, i, lines, s) =
        IF i > last THEN c
        ELSE IF result.item = None THEN placed
        ELSE IF duplicate_key(result.item) \in k
        THEN [normalized |-> a,
              issues |-> (b \cup Placed(i, result.issues)) \cup Placed(i, duplicate), seen |-> k]
        ELSE IF HasError(_dimension_issues(result.item, s))
        THEN [normalized |-> a,
              issues |-> (b \cup Placed(i, result.issues))
                            \cup Placed(i, _dimension_issues(result.item, s)),
              seen |-> k \cup {duplicate_key(result.item)}]
        ELSE [normalized |-> Append(a, [row |-> i, item |-> result.item]),
              issues |-> (b \cup Placed(i, result.issues))
                            \cup Placed(i, _dimension_issues(result.item, s)),
              seen |-> k \cup {duplicate_key(result.item)}]
  <2> HIDE DEF last
  <2>1. /\ c.normalized = a /\ c.issues = b /\ c.seen = k
        /\ [c EXCEPT !.issues = @ \cup Placed(i, result.issues)] = placed
    OBVIOUS
  <2> DEFINE dims == _dimension_issues(result.item, s)
             dup == [placed EXCEPT !.issues = @ \cup Placed(i, duplicate)]
             seen2 == [placed EXCEPT !.issues = @ \cup Placed(i, dims),
                                     !.seen = @ \cup {duplicate_key(result.item)}]
  <2>2. CollectOne(c, i, lines, s) =
          IF i > last THEN c
          ELSE IF result.item = None THEN placed
          ELSE IF duplicate_key(result.item) \in k THEN dup
          ELSE IF HasError(dims) THEN seen2
          ELSE [seen2 EXCEPT !.normalized = Append(@, [row |-> i, item |-> result.item])]
    BY <2>1, Zenon DEF CollectOne, last
  <2> DEFINE known == b \cup Placed(i, result.issues)
             more == Placed(i, duplicate)
             others == Placed(i, dims)
             found == duplicate_key(result.item)
             line == [row |-> i, item |-> result.item]
  <2>3. placed = [normalized |-> a, issues |-> known, seen |-> k]
    OBVIOUS
  <2>4. /\ dup = [placed EXCEPT !.issues = @ \cup more]
        /\ seen2 = [placed EXCEPT !.issues = @ \cup others, !.seen = @ \cup {found}]
    OBVIOUS
  <2> HIDE DEF placed, dup, seen2, known, more, others, found, line
  <2>5. dup = [normalized |-> a, issues |-> known \cup more, seen |-> k]
    BY <2>3, <2>4, CollectedChanges, Zenon
  <2>6. seen2 = [normalized |-> a, issues |-> known \cup others, seen |-> k \cup {found}]
    BY <2>3, <2>4, CollectedChanges, Zenon
  <2>7. [seen2 EXCEPT !.normalized = Append(@, line)]
          = [normalized |-> Append(a, line), issues |-> known \cup others, seen |-> k \cup {found}]
    <3>1. seen2.normalized = a
      BY <2>6, CollectedGrows
    <3>2. \A r : [seen2 EXCEPT !.normalized = r]
                   = [normalized |-> r, issues |-> known \cup others, seen |-> k \cup {found}]
      <4> DEFINE b2 == known \cup others
                 k2 == k \cup {found}
      <4>1. seen2 = [normalized |-> a, issues |-> b2, seen |-> k2]
        BY <2>6
      <4> HIDE DEF b2, k2
      <4>2. \A r : [seen2 EXCEPT !.normalized = r]
                     = [normalized |-> r, issues |-> b2, seen |-> k2]
        BY <4>1, Z3
      <4> QED
        BY <4>2 DEF b2, k2
    <3> QED
      BY <3>1, <3>2
  <2> QED
    BY <2>2, <2>5, <2>6, <2>7, Zenon DEF known, more, others, found, line
<1>2. /\ result.item = None <=> ~sound
      /\ sound => result.item = Item(lines[i], s) /\ ~HasError(result.issues)
      /\ sound => ~empty
      /\ ~sound => (HasError(result.issues) <=> ~empty)
      /\ empty => result.issues # {}
      /\ IsFiniteSet(result.issues)
      /\ \A x \in result.issues : x.severity \in {"error", "warning"}
  BY RowNormalized
<1>3. /\ last \in Int /\ i \in Int
      /\ ~empty => i <= last
      /\ empty => i # last
  BY LastDataIsLast
<1>4. /\ IsFiniteSet(unknown) /\ \A x \in unknown : x.severity \in {"error", "warning"}
      /\ HasError(unknown) <=> ~Resolvable(Item(lines[i], s), s)
  BY DimensionIssues DEF FileGiven
<1>5. /\ IsFiniteSet(duplicate) /\ \A x \in duplicate : x.severity = "error"
      /\ HasError(duplicate)
  <2>1. _issue("row", "DUPLICATE_ROW").severity = "error"
    BY DEF _issue
  <2>2. HasError(duplicate)
    BY <2>1, Zenon DEF HasError
  <2>3. IsFiniteSet(duplicate)
    BY FS_Singleton
  <2> QED
    BY <2>1, <2>2, <2>3
<1> DEFINE P == Placed(i, result.issues)
           U == Placed(i, unknown)
           D == Placed(i, duplicate)
           Erring(N) == \E x \in N : x.issue.severity = "error"
           AtRow(N) == /\ IsFiniteSet(N)
                       /\ \A x \in N : x.row = i /\ x.issue.severity \in {"error", "warning"}
<1>6. /\ AtRow(P)
      /\ Erring(P) <=> HasError(result.issues)
      /\ P = {} <=> result.issues = {}
  BY <1>2, PlacedIssues
<1>7. /\ AtRow(U)
      /\ Erring(U) <=> HasError(unknown)
  BY <1>4, PlacedIssues
<1>8. AtRow(D) /\ Erring(D)
  <2> HIDE DEF duplicate
  <2>1. \A x \in duplicate : x.severity \in {"error", "warning"}
    BY <1>5
  <2> QED
    BY <1>5, <2>1, PlacedIssues
<1>9. AtRow({}) /\ ~Erring({})
  BY FS_EmptySet
<1>10. \A M, N : AtRow(M) /\ AtRow(N) =>
         AtRow(M \cup N) /\ (Erring(M \cup N) <=> Erring(M) \/ Erring(N))
  BY FS_Union
<1>11. sound => KeyAt(lines, s, i) = duplicate_key(result.item)
  BY <1>2 DEF KeyAt
<1>12. ASSUME NEW N, AtRow(N),
              Erring(N) <=> ~RowTaken(lines, s, i, k) /\ ~empty,
              empty => (N # {} <=> i < last),
              CollectOne(c, i, lines, s) =
                [normalized |-> IF RowTaken(lines, s, i, k)
                                THEN Append(a, [row |-> i, item |-> Item(lines[i], s)]) ELSE a,
                 issues |-> b \cup N,
                 seen |-> IF sound THEN k \cup {key} ELSE k]
       PROVE  RowAdds(c, CollectOne(c, i, lines, s), lines, s, i)
  <2>1. c.normalized = a /\ c.issues = b /\ c.seen = k
    OBVIOUS
  <2> QED
    BY <1>12, <2>1, Zenon DEF RowAdds
<1> HIDE DEF result, key, unknown, duplicate, sound, empty, last, P, U, D, Erring, AtRow
<1>13. CASE i > last
  <2>1. ~sound /\ ~RowTaken(lines, s, i, k) /\ empty /\ ~(i < last)
    BY <1>2, <1>3, <1>13 DEF RowTaken, sound
  <2>2. CollectOne(c, i, lines, s) = c /\ c = [normalized |-> a, issues |-> b \cup {}, seen |-> k]
    BY <1>1, <1>13
  <2> QED
    BY <1>9, <1>12, <2>1, <2>2
<1>14. CASE ~(i > last) /\ ~sound
  <2>1. ~RowTaken(lines, s, i, k) /\ (empty => i < last)
    BY <1>3, <1>14 DEF RowTaken, sound
  <2>2. CollectOne(c, i, lines, s) = [normalized |-> a, issues |-> b \cup P, seen |-> k]
    BY <1>1, <1>2, <1>14 DEF P
  <2>3. Erring(P) <=> ~RowTaken(lines, s, i, k) /\ ~empty
    BY <1>2, <1>6, <1>14, <2>1, Zenon
  <2>4. empty => (P # {} <=> i < last)
    BY <1>2, <1>6, <2>1
  <2>5. CollectOne(c, i, lines, s) =
          [normalized |-> IF RowTaken(lines, s, i, k)
                          THEN Append(a, [row |-> i, item |-> Item(lines[i], s)]) ELSE a,
           issues |-> b \cup P,
           seen |-> IF sound THEN k \cup {key} ELSE k]
    BY <1>14, <2>1, <2>2, Zenon
  <2> QED
    BY <1>6, <1>12, <2>3, <2>4, <2>5, Zenon
<1>15. CASE ~(i > last) /\ sound /\ key \in k
  <2>1. ~RowTaken(lines, s, i, k) /\ ~empty /\ k = k \cup {key}
    BY <1>2, <1>15 DEF RowTaken, key
  <2>2. CollectOne(c, i, lines, s) = [normalized |-> a, issues |-> b \cup (P \cup D), seen |-> k]
    <3>1. duplicate_key(result.item) \in k /\ result.item # None
      BY <1>2, <1>11, <1>15 DEF key
    <3>2. CollectOne(c, i, lines, s) = [normalized |-> a, issues |-> (b \cup P) \cup D, seen |-> k]
      BY <1>1, <1>15, <3>1 DEF P, D
    <3>3. (b \cup P) \cup D = b \cup (P \cup D)
      OBVIOUS
    <3> QED
      BY <3>2, <3>3
  <2>3. AtRow(P \cup D) /\ Erring(P \cup D)
    BY <1>6, <1>8, <1>10, Zenon
  <2> QED
    BY <1>12, <1>15, <2>1, <2>2, <2>3
<1>16. CASE ~(i > last) /\ sound /\ key \notin k
  <2>1. ~empty /\ RowTaken(lines, s, i, k) <=> ~HasError(unknown)
    BY <1>2, <1>4, <1>16 DEF RowTaken, key, sound
  <2>2. result.item = Item(lines[i], s) /\ result.item # None /\ duplicate_key(result.item) = key
    BY <1>2, <1>11, <1>16 DEF key
  <2>3. CollectOne(c, i, lines, s) =
          [normalized |-> IF HasError(unknown) THEN a
                          ELSE Append(a, [row |-> i, item |-> Item(lines[i], s)]),
           issues |-> (b \cup P) \cup U, seen |-> k \cup {key}]
    BY <1>1, <1>16, <2>2 DEF P, U, unknown
  <2>4. (b \cup P) \cup U = b \cup (P \cup U)
    OBVIOUS
  <2>5. AtRow(P \cup U) /\ (Erring(P \cup U) <=> HasError(unknown))
    <3>1. ~HasError(result.issues)
      BY <1>2, <1>16
    <3>2. AtRow(P \cup U) /\ (Erring(P \cup U) <=> Erring(P) \/ Erring(U))
      BY <1>6, <1>7, <1>10, Zenon
    <3> QED
      BY <1>6, <1>7, <3>1, <3>2, Zenon
  <2>6. ~empty
    BY <1>2, <1>16
  <2> QED
    BY <1>12, <1>16, <2>1, <2>3, <2>4, <2>5, <2>6
<1> QED
  BY <1>3, <1>13, <1>14, <1>15, <1>16

(* A row that is written, for any rows and settings.                       *)
FitRow(lines, s, i) ==
  /\ Sound(lines[i], s)
  /\ \A j \in 1..(i - 1) : Sound(lines[j], s) => KeyAt(lines, s, j) # KeyAt(lines, s, i)
  /\ Resolvable(Item(lines[i], s), s)

KeysUpto(lines, s, k) == {KeyAt(lines, s, j) : j \in {h \in 1..k : Sound(lines[h], s)}}

Line(lines, s, i) == [row |-> i, item |-> Item(lines[i], s)]

(* What has become of the first k rows: the rows kept, in order, and the   *)
(* issues.                                                                 *)
KeptUpto(list, lines, s, k) ==
  /\ list \in Seq({Line(lines, s, i) : i \in 1..k})
  /\ Len(list) <= k
  /\ \A j \in DOMAIN list : /\ list[j].row \in 1..k /\ FitRow(lines, s, list[j].row)
                            /\ list[j] = Line(lines, s, list[j].row)
  /\ \A j, l \in DOMAIN list : j < l => list[j].row < list[l].row
  /\ \A i \in 1..k : FitRow(lines, s, i) => \E j \in DOMAIN list : list[j].row = i

ErrorAt(issues, i) == \E x \in issues : x.row = i /\ x.issue.severity = "error"

ReportedUpto(issues, lines, s, k) ==
  /\ IsFiniteSet(issues)
  /\ \A x \in issues : x.row \in 1..k /\ x.issue.severity \in {"error", "warning"}
  /\ \A i \in 1..k :
       /\ ErrorAt(issues, i) <=> ~FitRow(lines, s, i) /\ ~NothingIn(lines[i], s)
       /\ NothingIn(lines[i], s) => ((\E x \in issues : x.row = i) <=> i < LastData(lines, s))

CollectedUpto(c, lines, s, k) ==
  /\ c = [normalized |-> c.normalized, issues |-> c.issues, seen |-> KeysUpto(lines, s, k)]
  /\ KeptUpto(c.normalized, lines, s, k)
  /\ ReportedUpto(c.issues, lines, s, k)

(* One more row to the rows kept, and to what is reported.                 *)
LEMMA KeptGrows ==
  ASSUME NEW lines, NEW s, NEW k \in Nat, NEW list, KeptUpto(list, lines, s, k)
  PROVE  /\ FitRow(lines, s, k + 1) =>
              KeptUpto(Append(list, Line(lines, s, k + 1)), lines, s, k + 1)
         /\ ~FitRow(lines, s, k + 1) => KeptUpto(list, lines, s, k + 1)
<1> DEFINE L == {Line(lines, s, i) : i \in 1..k}
           M == {Line(lines, s, i) : i \in 1..(k + 1)}
           n == k + 1
           new == Line(lines, s, n)
           longer == Append(list, new)
<1>1. /\ 1..k \subseteq 1..n /\ n \in 1..n /\ n \notin 1..k /\ n \in Nat
      /\ \A i \in 1..n : i \in 1..k \/ i = n
      /\ \A i \in 1..k : i < n
  OBVIOUS
<1>2. L \subseteq M /\ new \in M
  BY <1>1
<1>3. /\ list \in Seq(L) /\ Len(list) <= k
      /\ \A j \in DOMAIN list : /\ list[j].row \in 1..k /\ FitRow(lines, s, list[j].row)
                                /\ list[j] = Line(lines, s, list[j].row)
      /\ \A j, l \in DOMAIN list : j < l => list[j].row < list[l].row
      /\ \A i \in 1..k : FitRow(lines, s, i) => \E j \in DOMAIN list : list[j].row = i
  BY DEF KeptUpto
<1>4. new.row = n
  BY DEF Line
<1> HIDE DEF L, M, new
<1>5. /\ list \in Seq(M) /\ longer \in Seq(M)
      /\ Len(list) \in Nat /\ DOMAIN list = 1..Len(list)
  BY <1>2, <1>3
<1>6. /\ Len(longer) = Len(list) + 1
      /\ DOMAIN longer = 1..(Len(list) + 1)
      /\ \A j \in DOMAIN list : longer[j] = list[j]
      /\ longer[Len(list) + 1] = new
  BY <1>3, <1>5
<1> HIDE DEF n
<1>7. ASSUME ~FitRow(lines, s, n) PROVE KeptUpto(list, lines, s, n)
  <2>1. Len(list) <= n
    BY <1>1, <1>3, <1>5 DEF n
  <2>2. \A i \in 1..n : FitRow(lines, s, i) => \E j \in DOMAIN list : list[j].row = i
    BY <1>1, <1>3, <1>7
  <2>3. \A j \in DOMAIN list : list[j].row \in 1..n
    BY <1>1, <1>3
  <2> QED
    BY <1>3, <1>5, <2>1, <2>2, <2>3 DEF KeptUpto, M, n
<1>8. ASSUME FitRow(lines, s, n) PROVE KeptUpto(longer, lines, s, n)
  <2> HIDE DEF longer
  <2>1. Len(longer) <= n
    BY <1>1, <1>3, <1>5, <1>6 DEF n
  <2>2. \A j \in DOMAIN longer : j \in DOMAIN list \/ j = Len(list) + 1
    BY <1>5, <1>6
  <2>3. \A j \in DOMAIN longer : /\ longer[j].row \in 1..n /\ FitRow(lines, s, longer[j].row)
                                 /\ longer[j] = Line(lines, s, longer[j].row)
    BY <1>1, <1>3, <1>4, <1>6, <1>8, <2>2 DEF new
  <2>4. \A j, l \in DOMAIN longer : j < l => longer[j].row < longer[l].row
    <3> SUFFICES ASSUME NEW j \in DOMAIN longer, NEW l \in DOMAIN longer, j < l
                 PROVE  longer[j].row < longer[l].row
      OBVIOUS
    <3>1. j \in DOMAIN list
      BY <1>5, <1>6
    <3>2. CASE l \in DOMAIN list
      BY <1>3, <1>6, <3>1, <3>2
    <3>3. CASE l = Len(list) + 1
      BY <1>1, <1>3, <1>4, <1>6, <3>1, <3>3
    <3> QED
      BY <2>2, <3>2, <3>3
  <2>5. \A i \in 1..n : FitRow(lines, s, i) => \E j \in DOMAIN longer : longer[j].row = i
    <3>1. DOMAIN list \subseteq DOMAIN longer /\ Len(list) + 1 \in DOMAIN longer
      BY <1>5, <1>6
    <3> SUFFICES ASSUME NEW i \in 1..n, FitRow(lines, s, i)
                 PROVE  \E j \in DOMAIN longer : longer[j].row = i
      OBVIOUS
    <3>2. CASE i \in 1..k
      <4>1. PICK j \in DOMAIN list : list[j].row = i
        BY <1>3, <3>2
      <4> QED
        BY <1>6, <3>1, <4>1
    <3>3. CASE i = n
      BY <1>4, <1>6, <3>1, <3>3
    <3> QED
      BY <1>1, <3>2, <3>3
  <2> QED
    BY <1>5, <2>1, <2>3, <2>4, <2>5 DEF KeptUpto, M, n, longer
<1> QED
  BY <1>7, <1>8 DEF n, new, longer

LEMMA ReportGrows ==
  ASSUME NEW lines, NEW s, NEW k \in Nat, NEW issues, ReportedUpto(issues, lines, s, k),
         NEW N, IsFiniteSet(N),
         \A x \in N : x.row = k + 1 /\ x.issue.severity \in {"error", "warning"},
         (\E x \in N : x.issue.severity = "error")
            <=> ~FitRow(lines, s, k + 1) /\ ~NothingIn(lines[k + 1], s),
         NothingIn(lines[k + 1], s) => (N # {} <=> k + 1 < LastData(lines, s))
  PROVE  ReportedUpto(issues \cup N, lines, s, k + 1)
<1> DEFINE n == k + 1
<1>1. /\ 1..k \subseteq 1..n /\ n \in 1..n /\ n \notin 1..k
      /\ \A i \in 1..n : i \in 1..k \/ i = n
  OBVIOUS
<1>2. /\ IsFiniteSet(issues)
      /\ \A x \in issues : x.row \in 1..k /\ x.issue.severity \in {"error", "warning"}
      /\ \A i \in 1..k :
           /\ ErrorAt(issues, i) <=> ~FitRow(lines, s, i) /\ ~NothingIn(lines[i], s)
           /\ NothingIn(lines[i], s) => ((\E x \in issues : x.row = i) <=> i < LastData(lines, s))
  BY DEF ReportedUpto
<1>3. \A x \in N : x.row = n /\ x.issue.severity \in {"error", "warning"}
  OBVIOUS
<1> HIDE DEF n
<1>4. IsFiniteSet(issues \cup N)
  BY <1>2, FS_Union
<1>5. \A i \in 1..k : /\ ErrorAt(issues \cup N, i) <=> ErrorAt(issues, i)
                      /\ (\E x \in issues \cup N : x.row = i) <=> \E x \in issues : x.row = i
  BY <1>1, <1>3 DEF ErrorAt
<1>6. /\ ErrorAt(issues \cup N, n) <=> \E x \in N : x.issue.severity = "error"
      /\ (\E x \in issues \cup N : x.row = n) <=> N # {}
  BY <1>1, <1>2, <1>3 DEF ErrorAt
<1>7. \A i \in 1..n :
        /\ ErrorAt(issues \cup N, i) <=> ~FitRow(lines, s, i) /\ ~NothingIn(lines[i], s)
        /\ NothingIn(lines[i], s) =>
             ((\E x \in issues \cup N : x.row = i) <=> i < LastData(lines, s))
  <2>1. CASE \E i \in 1..k : TRUE
    <3> SUFFICES ASSUME NEW i \in 1..n
                 PROVE  /\ ErrorAt(issues \cup N, i)
                             <=> ~FitRow(lines, s, i) /\ ~NothingIn(lines[i], s)
                        /\ NothingIn(lines[i], s) =>
                             ((\E x \in issues \cup N : x.row = i) <=> i < LastData(lines, s))
      OBVIOUS
    <3>1. CASE i \in 1..k
      BY <1>2, <1>5, <3>1
    <3>2. CASE i = n
      BY <1>6, <3>2 DEF n
    <3> QED
      BY <1>1, <3>1, <3>2
  <2>2. CASE ~ \E i \in 1..k : TRUE
    BY <1>1, <1>6, <2>2 DEF n
  <2> QED
    BY <2>1, <2>2
<1> QED
  BY <1>1, <1>2, <1>3, <1>4, <1>7 DEF ReportedUpto, n

(* Reading one more row.                                                   *)
LEMMA OneMoreRow ==
  ASSUME NEW lines, NEW s, NEW n, FileGiven(lines, s, n), NEW i \in 1..n,
         NEW c, CollectedUpto(c, lines, s, i - 1)
  PROVE  /\ CollectedUpto(CollectOne(c, i, lines, s), lines, s, i)
         /\ CollectOne(c, i, lines, s).normalized =
              IF FitRow(lines, s, i) THEN Append(c.normalized, Line(lines, s, i))
              ELSE c.normalized
<1> DEFINE d == CollectOne(c, i, lines, s)
           k == i - 1
<1>1. n \in Nat /\ k \in Nat /\ k + 1 = i
  BY DEF FileGiven
<1>2. /\ c = [normalized |-> c.normalized, issues |-> c.issues, seen |-> KeysUpto(lines, s, k)]
      /\ KeptUpto(c.normalized, lines, s, k) /\ ReportedUpto(c.issues, lines, s, k)
  BY DEF CollectedUpto
<1>3. RowAdds(c, d, lines, s, i)
  BY <1>2, RowCollected
<1>4. c.seen = KeysUpto(lines, s, k)
  BY <1>2
<1>5. RowTaken(lines, s, i, c.seen) <=> FitRow(lines, s, i)
  BY <1>4 DEF RowTaken, FitRow, KeysUpto
<1>6. (IF Sound(lines[i], s) THEN c.seen \cup {KeyAt(lines, s, i)} ELSE c.seen)
        = KeysUpto(lines, s, i)
  <2>1. \A h : h \in 1..i <=> h \in 1..k \/ h = i
    BY <1>1
  <2> QED
    BY <1>4, <2>1 DEF KeysUpto
<1> HIDE DEF d, k
<1>7. PICK N :
        /\ d = [normalized |-> IF RowTaken(lines, s, i, c.seen)
                               THEN Append(c.normalized, [row |-> i, item |-> Item(lines[i], s)])
                               ELSE c.normalized,
                issues |-> c.issues \cup N,
                seen |-> IF Sound(lines[i], s) THEN c.seen \cup {KeyAt(lines, s, i)} ELSE c.seen]
        /\ IsFiniteSet(N)
        /\ \A x \in N : x.row = i /\ x.issue.severity \in {"error", "warning"}
        /\ (\E x \in N : x.issue.severity = "error")
             <=> ~RowTaken(lines, s, i, c.seen) /\ ~NothingIn(lines[i], s)
        /\ NothingIn(lines[i], s) => (N # {} <=> i < LastData(lines, s))
  BY <1>3 DEF RowAdds
<1>8. /\ d.issues = c.issues \cup N /\ d.seen = KeysUpto(lines, s, i)
      /\ d = [normalized |-> d.normalized, issues |-> d.issues, seen |-> d.seen]
      /\ d.normalized = IF FitRow(lines, s, i) THEN Append(c.normalized, Line(lines, s, i))
                        ELSE c.normalized
  BY <1>5, <1>6, <1>7 DEF Line
<1>9. ReportedUpto(d.issues, lines, s, i)
  BY <1>1, <1>2, <1>5, <1>7, <1>8, ReportGrows
<1>10. KeptUpto(d.normalized, lines, s, i)
  BY <1>1, <1>2, <1>8, KeptGrows
<1>11. CollectedUpto(d, lines, s, i)
  BY <1>8, <1>9, <1>10 DEF CollectedUpto
<1> QED
  BY <1>8, <1>11 DEF d

(* Reading a file row by row, and what has become of its rows each time.   *)
RunOf(run, lines, s, n) ==
  /\ run[0] = Nothing
  /\ \A k \in 1..n : run[k] = CollectOne(run[k - 1], k, lines, s)
  /\ \A k \in 0..n : CollectedUpto(run[k], lines, s, k)
  /\ _collect_rows(lines, s) = run[n]

(* All rows of a file (_collect_rows).                                     *)
LEMMA AllRows ==
  ASSUME NEW lines, NEW s, NEW n, FileGiven(lines, s, n)
  PROVE  \E run : RunOf(run, lines, s, n)
<1>1. n \in Nat /\ DOMAIN lines = 1..n
  BY DEF FileGiven
<1>2. PICK run : /\ run[0] = Nothing
                 /\ \A k \in 1..n : run[k] = CollectOne(run[k - 1], k, lines, s)
                 /\ _collect_rows(lines, s) = run[n]
  BY <1>1, RowsCollected
<1> DEFINE G == {k \in Nat : k <= n => CollectedUpto(run[k], lines, s, k)}
<1>3. 0 \in G
  <2>1. 1..0 = {}
    OBVIOUS
  <2>2. KeysUpto(lines, s, 0) = {}
    BY <2>1 DEF KeysUpto
  <2>3. /\ Nothing.normalized = <<>> /\ Nothing.issues = {}
        /\ Nothing = [normalized |-> <<>>, issues |-> {}, seen |-> {}]
    BY DEF Nothing
  <2>4. KeptUpto(<<>>, lines, s, 0)
    BY <2>1 DEF KeptUpto
  <2>5. ReportedUpto({}, lines, s, 0)
    BY <2>1, FS_EmptySet DEF ReportedUpto
  <2>6. CollectedUpto(Nothing, lines, s, 0)
    BY <2>2, <2>3, <2>4, <2>5 DEF CollectedUpto
  <2> QED
    BY <1>2, <2>6
<1>4. ASSUME NEW k \in Nat, k \in G PROVE k + 1 \in G
  <2> SUFFICES ASSUME k + 1 <= n PROVE CollectedUpto(run[k + 1], lines, s, k + 1)
    OBVIOUS
  <2>1. k <= n /\ k + 1 \in 1..n /\ (k + 1) - 1 = k
    BY <1>1
  <2>2. CollectedUpto(run[k], lines, s, k)
    BY <1>4, <2>1
  <2>3. run[k + 1] = CollectOne(run[k], k + 1, lines, s)
    BY <1>2, <2>1
  <2> QED
    BY <2>1, <2>2, <2>3, OneMoreRow
<1>5. \A k \in 0..n : k \in G
  <2> SUFFICES ASSUME NEW k \in 0..n PROVE k \in G
    OBVIOUS
  <2> HIDE DEF G
  <2>1. k \in Nat
    BY <1>1
  <2> QED
    BY <1>3, <1>4, <2>1, NaturalsOneByOne
<1>6. \A k \in 0..n : CollectedUpto(run[k], lines, s, k)
  BY <1>1, <1>5
<1> QED
  BY <1>2, <1>6 DEF RunOf

(* Settings that keep the same rows keep the same list of them.            *)
LEMMA SameRowsKept ==
  ASSUME NEW lines, NEW s, NEW t, NEW n, FileGiven(lines, s, n), FileGiven(lines, t, n),
         \A i \in 1..n : /\ FitRow(lines, s, i) <=> FitRow(lines, t, i)
                         /\ Line(lines, s, i) = Line(lines, t, i)
  PROVE  _collect_rows(lines, s).normalized = _collect_rows(lines, t).normalized
<1>1. n \in Nat
  BY DEF FileGiven
<1>2. PICK one : RunOf(one, lines, s, n)
  BY AllRows
<1>3. PICK other : RunOf(other, lines, t, n)
  BY AllRows
<1> DEFINE G == {k \in Nat : k <= n => one[k].normalized = other[k].normalized}
<1>4. 0 \in G
  BY <1>2, <1>3 DEF RunOf
<1>5. ASSUME NEW k \in Nat, k \in G PROVE k + 1 \in G
  <2> SUFFICES ASSUME k + 1 <= n PROVE one[k + 1].normalized = other[k + 1].normalized
    OBVIOUS
  <2>1. k \in 0..n /\ k + 1 \in 1..n /\ (k + 1) - 1 = k
    BY <1>1
  <2>2. one[k].normalized = other[k].normalized
    BY <1>5, <2>1
  <2>3. /\ CollectedUpto(one[k], lines, s, k) /\ one[k + 1] = CollectOne(one[k], k + 1, lines, s)
        /\ CollectedUpto(other[k], lines, t, k)
        /\ other[k + 1] = CollectOne(other[k], k + 1, lines, t)
    BY <1>2, <1>3, <2>1 DEF RunOf
  <2>4. one[k + 1].normalized = IF FitRow(lines, s, k + 1)
                                THEN Append(one[k].normalized, Line(lines, s, k + 1))
                                ELSE one[k].normalized
    BY <2>1, <2>3, OneMoreRow
  <2>5. other[k + 1].normalized = IF FitRow(lines, t, k + 1)
                                  THEN Append(other[k].normalized, Line(lines, t, k + 1))
                                  ELSE other[k].normalized
    BY <2>1, <2>3, OneMoreRow
  <2> QED
    BY <2>1, <2>2, <2>4, <2>5
<1>6. n \in G
  <2> HIDE DEF G
  <2> QED
    BY <1>1, <1>4, <1>5, NaturalsOneByOne
<1> QED
  BY <1>1, <1>2, <1>3, <1>6 DEF RunOf

(* What holds of the file while it is read.                                *)
FileInv ==
  /\ file \in Seq(FileRows)
  /\ Len(file) <= MaxRows
  /\ settings \in FileSettings

(* Its rows are then what validation may get.                              *)
LEMMA FileIsGiven ==
  ASSUME FileInv
  PROVE  FileGiven(file, settings, Len(file))
<1>1. /\ validate_mapping(settings.fields) /\ settings.create_missing \in BOOLEAN
      /\ Len(file) \in Nat /\ DOMAIN file = 1..Len(file)
  BY FileAssumption DEF FileInv
<1>2. \A i \in 1..Len(file) : file[i] \in FileRows
  BY DEF FileInv
<1> QED
  BY <1>1, <1>2, FileAssumption, RowAssumption DEF FileInv, FileGiven

LEMMA FitIsFitRow ==
  ASSUME FileInv, NEW i \in DOMAIN file
  PROVE  Fit(i) <=> FitRow(file, settings, i)
BY DEF Fit, FitRow, FirstOfItsKey, KeyAt

(* A page of one row and the rest of the preview show the whole list.      *)
LEMMA PagesShowAll ==
  ASSUME NEW list, NEW S, list \in Seq(S), NEW k \in Nat, Len(list) <= k
  PROVE  PreviewRows(list, 0, 1) \o PreviewRows(list, 1, k) = list
<1>1. Len(list) \in Nat
  OBVIOUS
<1> DEFINE n == Len(list)
           a == IF n > 0 + 1 THEN 0 + 1 ELSE n
           b == IF n > 1 + k THEN 1 + k ELSE n
<1>2. PreviewRows(list, 0, 1) = SubSeq(list, 1, a) /\ PreviewRows(list, 1, k) = SubSeq(list, 2, b)
  BY DEF PreviewRows
<1>3. b = n
  BY <1>1
<1>4. CASE n = 0
  <2>1. SubSeq(list, 1, 0) = <<>> /\ SubSeq(list, 2, 0) = <<>> /\ list = <<>>
    BY <1>4
  <2>2. a = 0
    BY <1>4
  <2> QED
    BY <1>2, <1>3, <1>4, <2>1, <2>2
<1>5. CASE n # 0
  <2>1. n \in Nat /\ n # 0
    BY <1>1, <1>5
  <2>2. n \in 1..n /\ 1 \in 1..(n + 1) /\ 1 \in (1 - 1)..n
    <3> HIDE DEF n
    <3> QED
      BY <2>1
  <2>3. a = 1
    <3> HIDE DEF n
    <3> QED
      BY <2>1
  <2>4. SubSeq(list, 1, 1) \o SubSeq(list, 1 + 1, n) = SubSeq(list, 1, n)
    BY <2>2, ConcatAdjacentSubSeq
  <2>5. SubSeq(list, 1, n) = list /\ 1 + 1 = 2
    BY SubSeqFull
  <2> HIDE DEF n, a, b
  <2> QED
    BY <1>2, <1>3, <2>3, <2>4, <2>5
<1> QED
  BY <1>4, <1>5

(* The rows written are those that are fit, in order; the others with      *)
(* something in them have an error.                                        *)
LEMMA RowsKept ==
  ASSUME FileInv, NEW c, CollectedUpto(c, file, settings, Len(file))
  PROVE  /\ EachRowOnce({c.normalized[k].row : k \in DOMAIN c.normalized}, c.issues)
         /\ InFileOrder(c.normalized)
<1> DEFINE n == Len(file)
           list == c.normalized
           written == {list[k].row : k \in DOMAIN list}
<1>1. n \in Nat /\ DOMAIN file = 1..n
  BY DEF FileInv
<1>2. KeptUpto(list, file, settings, n) /\ ReportedUpto(c.issues, file, settings, n)
  BY DEF CollectedUpto
<1>3. InFileOrder(list)
  BY <1>2 DEF KeptUpto, InFileOrder
<1>4. \A i \in 1..n : i \in written <=> FitRow(file, settings, i)
  BY <1>2 DEF KeptUpto
<1>5. written = {i \in DOMAIN file : Fit(i)}
  <2>1. written \subseteq 1..n
    BY <1>2 DEF KeptUpto
  <2> QED
    BY <1>1, <1>4, <2>1, FitIsFitRow
<1>6. ASSUME NEW i \in DOMAIN file
      PROVE  LET errors == {x \in c.issues : x.row = i /\ x.issue.severity = "error"}
             IN IF file[i].formulas = {} /\ Blank(file[i], settings)
                THEN /\ errors = {}
                     /\ (\E x \in c.issues : x.row = i) <=> LastData(file, settings) > i
                ELSE (i \in written) <=> (errors = {})
  <2> DEFINE errors == {x \in c.issues : x.row = i /\ x.issue.severity = "error"}
  <2>1. errors = {} <=> ~ErrorAt(c.issues, i)
    BY DEF ErrorAt
  <2>2. /\ ErrorAt(c.issues, i) <=> ~FitRow(file, settings, i) /\ ~NothingIn(file[i], settings)
        /\ NothingIn(file[i], settings)
             => ((\E x \in c.issues : x.row = i) <=> i < LastData(file, settings))
    BY <1>1, <1>2 DEF ReportedUpto
  <2>3. i \in 1..n /\ FileGiven(file, settings, n)
    BY <1>1, FileIsGiven
  <2>4. LastData(file, settings) \in 0..n
    BY <2>3, LastDataIsLast
  <2>5. LastData(file, settings) > i <=> i < LastData(file, settings)
    BY <1>1, <2>3, <2>4
  <2>6. i \in written <=> FitRow(file, settings, i)
    BY <1>4, <2>3
  <2> HIDE DEF written, list, n
  <2>7. CASE NothingIn(file[i], settings)
    <3>1. file[i].formulas = {} /\ Blank(file[i], settings)
      BY <2>7 DEF NothingIn
    <3> QED
      BY <2>1, <2>2, <2>5, <2>7, <3>1
  <2>8. CASE ~NothingIn(file[i], settings)
    <3>1. ~(file[i].formulas = {} /\ Blank(file[i], settings))
      BY <2>8 DEF NothingIn
    <3> QED
      BY <2>1, <2>2, <2>6, <2>8, <3>1
  <2> QED
    BY <2>7, <2>8
<1> HIDE DEF written
<1>7. EachRowOnce(written, c.issues)
  BY <1>5, <1>6 DEF EachRowOnce
<1> QED
  BY <1>3, <1>7 DEF written

LEMMA RowsShown ==
  ASSUME FileInv
  PROVE  RowsAccounted
<1> DEFINE n == Len(file)
           c == _collect_rows(file, settings)
<1>1. FileGiven(file, settings, n) /\ n \in Nat /\ MaxRows \in Nat /\ n <= MaxRows
  BY FileIsGiven, FileAssumption DEF FileInv
<1>2. CollectedUpto(c, file, settings, n)
  <2>1. n \in 0..n
    BY <1>1
  <2> QED
    BY <1>1, <2>1, AllRows DEF RunOf
<1> HIDE DEF n
<1>3. /\ EachRowOnce({c.normalized[k].row : k \in DOMAIN c.normalized}, c.issues)
      /\ InFileOrder(c.normalized)
  BY <1>2, RowsKept DEF n
<1>4. PreviewShowsAll(c.normalized, c.issues)
  <2> HIDE DEF c
  <2>1. PICK S : c.normalized \in Seq(S)
    BY <1>2 DEF CollectedUpto, KeptUpto
  <2>2. Len(c.normalized) \in Nat /\ Len(c.normalized) <= n /\ IsFiniteSet(c.issues)
    BY <1>2 DEF CollectedUpto, KeptUpto, ReportedUpto
  <2>3. Len(c.normalized) <= MaxRows
    BY <1>1, <2>2
  <2>4. PreviewRows(c.normalized, 0, 1) \o PreviewRows(c.normalized, 1, MaxRows) = c.normalized
    BY <1>1, <2>1, <2>3, PagesShowAll
  <2> QED
    BY <2>2, <2>4, GroupsCountAll DEF PreviewShowsAll
<1> QED
  BY <1>3, <1>4 DEF RowsAccounted, Collected

LEMMA FileInvariant == FileSpec => []FileInv
<1>1. FileInit => FileInv
  BY FileAssumption DEF FileInit, FileInv
<1>2. FileInv /\ [AddRow]_fileVars => FileInv'
  <2> SUFFICES ASSUME FileInv, [AddRow]_fileVars PROVE FileInv'
    OBVIOUS
  <2>1. CASE AddRow
    <3>1. PICK row \in FileRows : file' = Append(file, row) /\ settings' = settings
                                  /\ Len(file) < MaxRows
      BY <2>1 DEF AddRow
    <3> QED
      BY <3>1, FileAssumption DEF FileInv
  <2>2. CASE UNCHANGED fileVars
    BY <2>2 DEF fileVars, FileInv
  <2> QED
    BY <2>1, <2>2
<1> QED
  BY <1>1, <1>2, PTL DEF FileSpec

(* Every file of any length, with any settings: each row is written, or    *)
(* has an error, or has nothing in it; what is written is what is fit; the *)
(* preview counts every issue and shows every row (_collect_rows,          *)
(* normalize_row, group_import_issues, preview).                           *)
THEOREM EveryRowAccounted == FileSpec => []RowsAccounted
<1>1. FileInv => RowsAccounted
  BY RowsShown
<1> QED
  BY <1>1, FileInvariant, PTL

-----------------------------------------------------------------------------
(* Applying the rows, at once and later.                                   *)

AtStart(s) == [known |-> s.known, failed |-> FALSE, entries |-> 0]

EntriesRunOf(run, list, s, n) ==
  /\ run[0] = AtStart(s)
  /\ \A k \in 1..n : run[k] = _to_entry(run[k - 1], list[k])
  /\ Applied(list, s) = run[n]

(* Applying a list of rows turns one after the other into an entry         *)
(* (_apply, _to_entry).                                                    *)
LEMMA EntriesRun ==
  ASSUME NEW list, NEW s, NEW n \in Nat, DOMAIN list = 1..n
  PROVE  \E run : EntriesRunOf(run, list, s, n)
<1> DEFINE Folded(f) == f = [S \in SUBSET DOMAIN list |->
                               IF S = {} THEN AtStart(s)
                               ELSE _to_entry(f[S \ {Max(S)}], list[Max(S)])]
           g == CHOOSE f : Folded(f)
<1>1. PICK f : FoldsSubsets(f, "entries", AtStart(s), list, s, n)
  BY SubsetsFolded
<1>2. ASSUME NEW h
      PROVE  FoldsSubsets(h, "entries", AtStart(s), list, s, n) <=> Folded(h)
  <2>1. \A S \in SUBSET (1..n) : FoldStep("entries", h[S \ {Max(S)}], Max(S), list, s)
                                   = _to_entry(h[S \ {Max(S)}], list[Max(S)])
    BY Zenon DEF FoldStep
  <2>2. [S \in SUBSET (1..n) |-> IF S = {} THEN AtStart(s)
                                 ELSE FoldStep("entries", h[S \ {Max(S)}], Max(S), list, s)]
          = [S \in SUBSET DOMAIN list |-> IF S = {} THEN AtStart(s)
                                          ELSE _to_entry(h[S \ {Max(S)}], list[Max(S)])]
    BY <2>1, Zenon
  <2> QED
    BY <2>2, Zenon DEF FoldsSubsets
<1>3. \A h : FoldsSubsets(h, "entries", AtStart(s), list, s, n) <=> Folded(h)
  BY <1>2, Zenon
<1>4. Applied(list, s) = g[DOMAIN list]
  BY Zenon DEF Applied, FoldLeft, MapThenFoldSet, AtStart
<1>5. FoldsSubsets(g, "entries", AtStart(s), list, s, n)
  <2>1. Folded(g)
    BY <1>1, <1>3, Zenon
  <2> QED
    BY <1>3, <2>1, Zenon
<1> HIDE DEF g
<1> DEFINE run == [k \in 0..n |-> g[1..k]]
<1>6. IsRun(run, "entries", AtStart(s), list, s, n)
  BY <1>5, FoldRuns
<1>7. run[n] = g[1..n]
  OBVIOUS
<1> HIDE DEF run
<1> QED
  BY <1>4, <1>6, <1>7, Zenon DEF IsRun, FoldStep, EntriesRunOf

(* The state of the application after k of its rows.                       *)
WrittenUpto(c, list, s, k) ==
  /\ c = [known |-> c.known, failed |-> FALSE, entries |-> k]
  /\ \A d \in Dimensions : c.known[d] = s.known[d] \cup {list[j].item[d] : j \in 1..k}

Writable(list, s) ==
  \A j \in DOMAIN list :
    list[j].item.account \in s.known.account \/ list[j].item.account_name # None

(* A row whose account is there or has a name becomes an entry.            *)
LEMMA OneMoreEntry ==
  ASSUME NEW list, NEW s, NEW n \in Nat, DOMAIN list = 1..n, Writable(list, s),
         NEW k \in Nat, k + 1 \in 1..n, NEW c, WrittenUpto(c, list, s, k)
  PROVE  WrittenUpto(_to_entry(c, list[k + 1]), list, s, k + 1)
<1> DEFINE item == list[k + 1].item
           known == _resolve(c.known, item)
<1>1. /\ c = [known |-> c.known, failed |-> FALSE, entries |-> k]
      /\ \A d \in Dimensions : c.known[d] = s.known[d] \cup {list[j].item[d] : j \in 1..k}
  BY DEF WrittenUpto
<1>2. ~(item.account \notin c.known.account /\ item.account_name = None)
  <2>1. item.account \in s.known.account \/ item.account_name # None
    BY DEF Writable
  <2>2. "account" \in Dimensions
    BY DEF Dimensions
  <2> QED
    BY <1>1, <2>1, <2>2
<1>3. _to_entry(c, list[k + 1]) = [known |-> known, failed |-> FALSE, entries |-> k + 1]
  <2> HIDE DEF known
  <2>1. c.failed = FALSE /\ c.entries = k
    BY <1>1
  <2>2. _to_entry(c, list[k + 1]) = [c EXCEPT !.known = known, !.entries = @ + 1]
    BY <1>2, <2>1 DEF _to_entry, known
  <2> QED
    BY <1>1, <2>1, <2>2
<1>4. \A d \in Dimensions :
        known[d] = s.known[d] \cup {list[j].item[d] : j \in 1..(k + 1)}
  <2> SUFFICES ASSUME NEW d \in Dimensions
               PROVE  known[d] = s.known[d] \cup {list[j].item[d] : j \in 1..(k + 1)}
    OBVIOUS
  <2>1. known[d] = c.known[d] \cup {list[k + 1].item[d]}
    BY DEF _resolve
  <2>2. \A j : j \in 1..(k + 1) <=> j \in 1..k \/ j = k + 1
    OBVIOUS
  <2> HIDE DEF known, item
  <2> QED
    BY <1>1, <2>1, <2>2
<1> HIDE DEF known
<1> QED
  BY <1>3, <1>4 DEF WrittenUpto

(* Rows that are writable are all written, and their codes are there then. *)
LEMMA AllEntries ==
  ASSUME NEW list, NEW s, NEW n \in Nat, DOMAIN list = 1..n, Writable(list, s)
  PROVE  WrittenUpto(Applied(list, s), list, s, n)
<1>0. PICK r : EntriesRunOf(r, list, s, n)
  BY EntriesRun
<1>1. PICK run : /\ run[0] = AtStart(s)
                 /\ \A k \in 1..n : run[k] = _to_entry(run[k - 1], list[k])
                 /\ Applied(list, s) = run[n]
  BY <1>0, Zenon DEF EntriesRunOf
<1> DEFINE G == {k \in Nat : k <= n => WrittenUpto(run[k], list, s, k)}
<1>2. 0 \in G
  <2>1. 1..0 = {}
    OBVIOUS
  <2>2. WrittenUpto(AtStart(s), list, s, 0)
    BY <2>1 DEF WrittenUpto, AtStart
  <2> QED
    BY <1>1, <2>2
<1>3. ASSUME NEW k \in Nat, k \in G PROVE k + 1 \in G
  <2> SUFFICES ASSUME k + 1 <= n PROVE WrittenUpto(run[k + 1], list, s, k + 1)
    OBVIOUS
  <2>1. k <= n /\ k + 1 \in 1..n /\ (k + 1) - 1 = k
    OBVIOUS
  <2>2. WrittenUpto(run[k], list, s, k) /\ run[k + 1] = _to_entry(run[k], list[k + 1])
    BY <1>1, <1>3, <2>1
  <2> QED
    BY <2>1, <2>2, OneMoreEntry
<1>4. n \in G
  <2> HIDE DEF G
  <2> QED
    BY <1>2, <1>3, NaturalsOneByOne
<1> QED
  BY <1>1, <1>4

-----------------------------------------------------------------------------
(* Settings that differ in the codes the organization has got since.       *)
Later(t, s) ==
  /\ \A x \in {"fields", "columns", "locale", "fiscal_year", "start_month", "create_missing"} :
       t[x] = s[x]
  /\ \A d \in Dimensions : s.known[d] \subseteq t.known[d]

(* What was added since the preview leaves the other settings alone.       *)
LEMMA GrowthIsLater ==
  ASSUME NEW s \in FileSettings, NEW items, NEW t \in Growths(s, items)
  PROVE  Later(t, s)
<1>1. DOMAIN s = {"fields", "columns", "locale", "fiscal_year", "start_month",
                  "create_missing", "known"}
  BY FileAssumption
<1>2. PICK e, more :
        t = [s EXCEPT !.known =
               [d \in Dimensions |-> IF d = e THEN s.known[d] \cup more ELSE s.known[d]]]
  BY DEF Growths
<1> DEFINE k == [d \in Dimensions |-> IF d = e THEN s.known[d] \cup more ELSE s.known[d]]
<1>3. \A d \in Dimensions : s.known[d] \subseteq k[d]
  OBVIOUS
<1> HIDE DEF k
<1>4. t = [s EXCEPT !.known = k]
  BY <1>2 DEF k
<1>5. t.known = k
  BY <1>1, <1>4
<1>6. \A x \in {"fields", "columns", "locale", "fiscal_year", "start_month", "create_missing"} :
        t[x] = s[x]
  BY <1>1, <1>4
<1> QED
  BY <1>3, <1>5, <1>6 DEF Later

(* Validation asks nothing else of the codes than whether they are there.  *)
LEMMA LaterRows ==
  ASSUME NEW s, NEW t, Later(t, s), NEW row
  PROVE  /\ \A f : mapped_value(row, t, f) = mapped_value(row, s, f)
         /\ Blank(row, t) <=> Blank(row, s)
         /\ Sound(row, t) <=> Sound(row, s)
         /\ Item(row, t) = Item(row, s)
         /\ \A item : Resolvable(item, s) => Resolvable(item, t)
<1>1. /\ t.fields = s.fields /\ t.columns = s.columns /\ t.locale = s.locale
      /\ t.fiscal_year = s.fiscal_year /\ t.start_month = s.start_month
      /\ t.create_missing = s.create_missing
      /\ \A d \in Dimensions : s.known[d] \subseteq t.known[d]
  BY DEF Later
<1>2. \A f : mapped_value(row, t, f) = mapped_value(row, s, f)
  BY <1>1 DEF mapped_value
<1>3. /\ BoundedFields(t) = BoundedFields(s) /\ AmountOf(row, t) = AmountOf(row, s)
      /\ \A m : InYear(m, t) <=> InYear(m, s)
  BY <1>1 DEF BoundedFields, AmountOf, InYear
<1>4. Blank(row, t) <=> Blank(row, s)
  BY <1>1, <1>2 DEF Blank
<1>5. Sound(row, t) <=> Sound(row, s)
  BY <1>2, <1>3, Zenon DEF Sound
<1>6. Item(row, t) = Item(row, s)
  BY <1>2, <1>3, Zenon DEF Item
<1>7. \A item : Resolvable(item, s) => Resolvable(item, t)
  BY <1>1 DEF Resolvable, Absent
<1> QED
  BY <1>2, <1>4, <1>5, <1>6, <1>7

-----------------------------------------------------------------------------
(* A file whose every row is fit or has nothing in it.                     *)
Clean(lines, s, n) ==
  \A i \in 1..n : FitRow(lines, s, i) \/ NothingIn(lines[i], s)

(* A clean file is clean later too, with the same rows to be written.      *)
LEMMA LaterFile ==
  ASSUME NEW lines, NEW s, NEW t, NEW n, FileGiven(lines, s, n), Later(t, s), Clean(lines, s, n)
  PROVE  /\ FileGiven(lines, t, n) /\ Clean(lines, t, n)
         /\ \A i \in 1..n : /\ FitRow(lines, t, i) <=> FitRow(lines, s, i)
                            /\ Line(lines, t, i) = Line(lines, s, i)
<1>1. t.fields = s.fields /\ t.create_missing = s.create_missing
  BY DEF Later
<1>2. \A i : /\ Blank(lines[i], t) <=> Blank(lines[i], s)
             /\ Sound(lines[i], t) <=> Sound(lines[i], s)
             /\ Item(lines[i], t) = Item(lines[i], s)
             /\ \A item : Resolvable(item, s) => Resolvable(item, t)
  BY LaterRows
<1>3. FileGiven(lines, t, n)
  BY <1>1, <1>2 DEF FileGiven
<1>4. \A i : KeyAt(lines, t, i) = KeyAt(lines, s, i) /\ Line(lines, t, i) = Line(lines, s, i)
  BY <1>2 DEF KeyAt, Line
<1>5. \A i \in 1..n : FitRow(lines, s, i) => FitRow(lines, t, i)
  BY <1>2, <1>4 DEF FitRow
<1>6. \A i \in 1..n : NothingIn(lines[i], s) => NothingIn(lines[i], t) /\ ~Sound(lines[i], t)
  <2> SUFFICES ASSUME NEW i \in 1..n, NothingIn(lines[i], s)
               PROVE  NothingIn(lines[i], t) /\ ~Sound(lines[i], t)
    OBVIOUS
  <2>1. ~Sound(lines[i], s)
    BY RowNormalized
  <2> QED
    BY <1>2, <2>1 DEF NothingIn
<1>7. \A i \in 1..n : FitRow(lines, t, i) => FitRow(lines, s, i)
  BY <1>6 DEF Clean, FitRow
<1>8. Clean(lines, t, n)
  BY <1>5, <1>6 DEF Clean
<1> QED
  BY <1>3, <1>4, <1>5, <1>7, <1>8

NoErrors(issues) == \A x \in issues : x.issue.severity = "warning"

(* A file is clean exactly if validation reports no error.                 *)
LEMMA CleanHasNoErrors ==
  ASSUME NEW lines, NEW s, NEW n, FileGiven(lines, s, n)
  PROVE  NoErrors(_collect_rows(lines, s).issues) <=> Clean(lines, s, n)
<1> DEFINE issues == _collect_rows(lines, s).issues
<1>1. n \in Nat /\ n \in 0..n
  BY DEF FileGiven
<1>2. PICK run : RunOf(run, lines, s, n)
  BY AllRows
<1>3. ReportedUpto(issues, lines, s, n)
  BY <1>1, <1>2 DEF RunOf, CollectedUpto
<1> HIDE DEF issues
<1>4. /\ \A x \in issues : x.row \in 1..n /\ x.issue.severity \in {"error", "warning"}
      /\ \A i \in 1..n : ErrorAt(issues, i) <=> ~FitRow(lines, s, i) /\ ~NothingIn(lines[i], s)
  BY <1>3 DEF ReportedUpto
<1>5. NoErrors(issues) <=> \A i \in 1..n : ~ErrorAt(issues, i)
  BY <1>4 DEF NoErrors, ErrorAt
<1> QED
  BY <1>4, <1>5 DEF Clean, issues

(* What is kept can be written, now and later.                             *)
LEMMA KeptIsWritable ==
  ASSUME NEW list, NEW lines, NEW s, NEW t, NEW n, KeptUpto(list, lines, s, n), Later(t, s)
  PROVE  Writable(list, t)
<1> SUFFICES ASSUME NEW j \in DOMAIN list
             PROVE  list[j].item.account \in t.known.account \/ list[j].item.account_name # None
  BY DEF Writable
<1>1. FitRow(lines, s, list[j].row) /\ list[j] = Line(lines, s, list[j].row)
  BY DEF KeptUpto
<1> DEFINE item == Item(lines[list[j].row], s)
<1>2. list[j].item = item /\ Resolvable(item, s)
  BY <1>1 DEF FitRow, Line
<1> HIDE DEF item
<1>3. "account" \in Dimensions /\ "account" \in DOMAIN NameField
      /\ NameField["account"] = "account_name"
  BY DEF Dimensions, NameField
<1>4. s.known["account"] \subseteq t.known["account"]
  BY <1>3 DEF Later
<1>5. item["account"] \in s.known["account"] \/ item["account_name"] # None
  BY <1>2, <1>3 DEF Resolvable, Absent
<1> QED
  BY <1>2, <1>4, <1>5

(* A file without errors is applied in full, whenever that is.             *)
LEMMA CleanStaysApplicable ==
  ASSUME FileInv, NoErrors(Collected.issues), NEW items, NEW s \in Growths(settings, items)
  PROVE  LET later == _collect_rows(file, s)
             done == Applied(Collected.normalized, s)
         IN /\ later.normalized = Collected.normalized
            /\ NoErrors(later.issues)
            /\ ~done.failed /\ done.entries = Len(Collected.normalized)
<1> DEFINE n == Len(file)
           list == Collected.normalized
<1>1. FileGiven(file, settings, n) /\ n \in 0..n /\ n \in Nat
  BY FileIsGiven DEF FileInv
<1>2. Clean(file, settings, n)
  BY <1>1, CleanHasNoErrors DEF Collected
<1>3. Later(s, settings)
  BY GrowthIsLater DEF FileInv
<1>4. /\ FileGiven(file, s, n) /\ Clean(file, s, n)
      /\ \A i \in 1..n : /\ FitRow(file, s, i) <=> FitRow(file, settings, i)
                         /\ Line(file, s, i) = Line(file, settings, i)
  BY <1>1, <1>2, <1>3, LaterFile
<1> HIDE DEF n
<1>5. _collect_rows(file, s).normalized = list
  BY <1>1, <1>4, SameRowsKept DEF Collected
<1>6. NoErrors(_collect_rows(file, s).issues)
  BY <1>4, CleanHasNoErrors
<1>7. KeptUpto(list, file, settings, n)
  <2>1. PICK run : RunOf(run, file, settings, n)
    BY <1>1, AllRows
  <2> QED
    BY <1>1, <2>1 DEF RunOf, CollectedUpto, Collected
<1> HIDE DEF list
<1>8. Len(list) \in Nat /\ DOMAIN list = 1..Len(list)
  BY <1>7 DEF KeptUpto
<1>9. Writable(list, s)
  BY <1>3, <1>7, KeptIsWritable
<1>10. WrittenUpto(Applied(list, s), list, s, Len(list))
  BY <1>8, <1>9, AllEntries
<1>11. ~Applied(list, s).failed /\ Applied(list, s).entries = Len(list)
  BY <1>10 DEF WrittenUpto
<1> QED
  BY <1>5, <1>6, <1>11 DEF list

(* The preview of a whole file announces the codes applying it adds.       *)
LEMMA PreviewCountsNewCodes ==
  ASSUME FileInv, NEW d \in Dimensions
  PROVE  Cardinality(Applied(Collected.normalized, settings).known[d] \ settings.known[d])
           = NewCodes(Collected.normalized, d, 0, MaxRows, settings)
<1> DEFINE n == Len(file)
           list == Collected.normalized
           m == Len(list)
           codes == {list[j].item[d] : j \in 1..m}
<1>1. FileGiven(file, settings, n) /\ n \in 0..n /\ n \in Nat /\ n <= MaxRows /\ MaxRows \in Nat
  BY FileIsGiven, FileAssumption DEF FileInv
<1> HIDE DEF n
<1>2. KeptUpto(list, file, settings, n)
  <2>1. PICK run : RunOf(run, file, settings, n)
    BY <1>1, AllRows
  <2> QED
    BY <1>1, <2>1 DEF RunOf, CollectedUpto, Collected
<1> HIDE DEF list
<1>3. m \in Nat /\ DOMAIN list = 1..m /\ m <= n
  BY <1>2 DEF KeptUpto
<1>4. Later(settings, settings)
  BY DEF Later
<1>5. WrittenUpto(Applied(list, settings), list, settings, m)
  BY <1>2, <1>3, <1>4, KeptIsWritable, AllEntries
<1>6. Applied(list, settings).known[d] = settings.known[d] \cup codes
  BY <1>5 DEF WrittenUpto
<1>7. {i \in DOMAIN list : i <= 0 + MaxRows + 1} = 1..m
  <2> HIDE DEF m
  <2> QED
    BY <1>1, <1>3
<1>8. NewCodes(list, d, 0, MaxRows, settings) = Cardinality(codes \ settings.known[d])
  BY <1>7, Zenon DEF NewCodes
<1>9. Applied(list, settings).known[d] \ settings.known[d] = codes \ settings.known[d]
  <2> HIDE DEF codes
  <2> QED
    BY <1>6
<1> QED
  BY <1>8, <1>9 DEF list

(* Every file of any length that validates without an error validates the  *)
(* same later, when codes have been added, and is then applied in full; it *)
(* adds the codes its preview announced (_collect_rows, preview, _apply,   *)
(* _to_entry).                                                             *)
THEOREM ValidFilesStayApplicable == FileSpec => []StaysApplicable
<1>1. FileInv => StaysApplicable
  <2> SUFFICES ASSUME FileInv PROVE StaysApplicable
    OBVIOUS
  <2> DEFINE items == {placed.item : placed \in Range(Collected.normalized)}
  <2>1. ASSUME NoErrors(Collected.issues), NEW s \in Growths(settings, items)
        PROVE  LET later == _collect_rows(file, s)
                   done == Applied(Collected.normalized, s)
               IN /\ later.normalized = Collected.normalized
                  /\ \A x \in later.issues : x.issue.severity = "warning"
                  /\ ~done.failed /\ done.entries = Len(Collected.normalized)
    <3> HIDE DEF items
    <3>1. LET later == _collect_rows(file, s)
              done == Applied(Collected.normalized, s)
          IN /\ later.normalized = Collected.normalized
             /\ NoErrors(later.issues)
             /\ ~done.failed /\ done.entries = Len(Collected.normalized)
      BY <2>1, CleanStaysApplicable
    <3> QED
      BY <3>1, Zenon DEF NoErrors
  <2>2. \A d \in Dimensions :
          Cardinality(Applied(Collected.normalized, settings).known[d] \ settings.known[d])
            = NewCodes(Collected.normalized, d, 0, MaxRows, settings)
    BY PreviewCountsNewCodes
  <2> QED
    BY <2>1, <2>2, Zenon DEF StaysApplicable, NoErrors
<1> QED
  BY <1>1, FileInvariant, PTL

-----------------------------------------------------------------------------
(* Lists read page by page.                                                *)

(* The order of a list is strict and total.                                *)
LEMMA ListsAreOrdered ==
  ASSUME NEW list, NEW r \in Row, NEW s \in Row, NEW t \in Row
  PROVE  /\ ~Before(list, r, r)
         /\ Before(list, r, s) => ~Before(list, s, r)
         /\ Before(list, r, s) /\ Before(list, s, t) => Before(list, r, t)
         /\ r # s => Before(list, r, s) \/ Before(list, s, r)
<1> DEFINE IsNumbered(x) == x.major \in Int /\ x.minor \in Int /\ x.id \in Int
<1>1. IsNumbered(r) /\ IsNumbered(s) /\ IsNumbered(t)
  BY PagesAssumption DEF Row
<1>2. r # s => r.major # s.major \/ r.minor # s.minor \/ r.id # s.id
  BY DEF Row
<1> QED
  BY <1>1, <1>2 DEF Before, Earlier

Tables == {T \in SUBSET Row : IsFiniteSet(T)}

Increasing(list, o) == \A i, j \in DOMAIN o : i < j => Before(list, o[i], o[j])

(* A sorted table is a list of its rows, each of them once.                *)
LEMMA SortedTable ==
  ASSUME NEW list, NEW T \in Tables
  PROVE  /\ Sorted(list, T) \in Seq(T)
         /\ Increasing(list, Sorted(list, T))
         /\ \A r \in T : \E i \in DOMAIN Sorted(list, T) : Sorted(list, T)[i] = r
<1> DEFINE R == {p \in T \X T : Before(list, p[1], p[2])}
           o == InOrder(T, R)
<1>1. IsFiniteSet(T) /\ T \subseteq Row
  BY DEF Tables
<1>2. \A r, s \in T : <<r, s>> \in R <=> Before(list, r, s)
  OBVIOUS
<1>3. Sorted(list, T) = o
  BY DEF Sorted
<1> HIDE DEF R
<1>4. IsOrder(T, R)
  <2>1. \A r \in T : <<r, r>> \notin R
    BY <1>1, <1>2, ListsAreOrdered
  <2>2. \A r, s \in T : r # s => <<r, s>> \in R \/ <<s, r>> \in R
    BY <1>1, <1>2, ListsAreOrdered
  <2>3. ASSUME NEW r \in T, NEW s \in T, NEW t \in T, <<r, s>> \in R, <<s, t>> \in R
        PROVE  <<r, t>> \in R
    <3>1. r \in Row /\ s \in Row /\ t \in Row /\ Before(list, r, s) /\ Before(list, s, t)
      BY <1>1, <1>2, <2>3
    <3> QED
      BY <1>2, <3>1, ListsAreOrdered
  <2> QED
    BY <2>1, <2>2, <2>3 DEF IsOrder
<1>5. o \in Seq(T) /\ Enumerates(o, T, R)
  BY <1>1, <1>4, ListInOrder
<1> HIDE DEF o
<1>6. Increasing(list, o)
  BY <1>2, <1>5 DEF Enumerates, Ascending, Increasing
<1> QED
  BY <1>3, <1>5, <1>6 DEF Enumerates

Never(list, r) == \A i \in DOMAIN list : list[i] # r
Once(list, r) ==
  \E i \in DOMAIN list : list[i] = r /\ \A j \in DOMAIN list : list[j] = r => j = i

(* How often a row is shown after one more page.                           *)
LEMMA OnceInBoth ==
  ASSUME NEW S, NEW s \in Seq(S), NEW t \in Seq(S), NEW r
  PROVE  /\ Never(s, r) /\ Never(t, r) => Never(s \o t, r)
         /\ Never(s, r) /\ Once(t, r) => Once(s \o t, r)
         /\ Once(s, r) /\ Never(t, r) => Once(s \o t, r)
<1> DEFINE n == Len(s)
           m == Len(t)
           u == s \o t
<1>1. /\ n \in Nat /\ DOMAIN s = 1..n /\ m \in Nat /\ DOMAIN t = 1..m
      /\ DOMAIN u = 1..(n + m)
      /\ \A i \in 1..n : u[i] = s[i]
      /\ \A i \in 1..m : u[n + i] = t[i]
  OBVIOUS
<1> HIDE DEF n, m, u
<1>2. \A i \in 1..(n + m) : i \in 1..n \/ \E j \in 1..m : i = n + j
  <2> SUFFICES ASSUME NEW i \in 1..(n + m), i \notin 1..n PROVE i - n \in 1..m /\ i = n + (i - n)
    OBVIOUS
  <2> QED
    BY <1>1
<1>3. /\ \A i \in 1..n : i \in 1..(n + m)
      /\ \A i \in 1..m : n + i \in 1..(n + m) /\ n + i \notin 1..n
      /\ \A i, j \in 1..m : n + i = n + j => i = j
  BY <1>1
<1>4. ASSUME Never(s, r), Never(t, r) PROVE Never(u, r)
  <2> SUFFICES ASSUME NEW i \in 1..(n + m) PROVE u[i] # r
    BY <1>1 DEF Never
  <2>1. CASE i \in 1..n
    BY <1>1, <1>4, <2>1 DEF Never
  <2>2. CASE \E j \in 1..m : i = n + j
    BY <1>1, <1>4, <2>2 DEF Never
  <2> QED
    BY <1>2, <2>1, <2>2
<1>5. ASSUME Never(s, r), Once(t, r) PROVE Once(u, r)
  <2>1. PICK i \in 1..m : t[i] = r /\ \A j \in 1..m : t[j] = r => j = i
    BY <1>1, <1>5 DEF Once
  <2>2. n + i \in DOMAIN u /\ u[n + i] = r
    BY <1>1, <1>3, <2>1
  <2>3. ASSUME NEW k \in DOMAIN u, u[k] = r PROVE k = n + i
    <3>1. k \notin 1..n
      BY <1>1, <1>5, <2>3 DEF Never
    <3>2. PICK j \in 1..m : k = n + j
      BY <1>1, <1>2, <3>1
    <3> QED
      BY <1>1, <2>1, <2>3, <3>2
  <2> QED
    BY <2>2, <2>3 DEF Once
<1>6. ASSUME Once(s, r), Never(t, r) PROVE Once(u, r)
  <2>1. PICK i \in 1..n : s[i] = r /\ \A j \in 1..n : s[j] = r => j = i
    BY <1>1, <1>6 DEF Once
  <2>2. i \in DOMAIN u /\ u[i] = r
    BY <1>1, <1>3, <2>1
  <2>3. ASSUME NEW k \in DOMAIN u, u[k] = r PROVE k = i
    <3>1. ~ \E j \in 1..m : k = n + j
      BY <1>1, <1>6, <2>3 DEF Never
    <3>2. k \in 1..n
      BY <1>1, <1>2, <3>1
    <3> QED
      BY <1>1, <2>1, <2>3, <3>2
  <2> QED
    BY <2>2, <2>3 DEF Once
<1> QED
  BY <1>4, <1>5, <1>6 DEF u

(* A sorted list shows no row twice.                                       *)
LEMMA IncreasingIsOnce ==
  ASSUME NEW list, NEW o \in Seq(Row), Increasing(list, o), NEW i \in DOMAIN o
  PROVE  Once(o, o[i])
<1>1. DOMAIN o \subseteq Nat /\ \A j \in DOMAIN o : o[j] \in Row
  OBVIOUS
<1>2. ASSUME NEW j \in DOMAIN o, o[j] = o[i] PROVE j = i
  <2>1. ~Before(list, o[i], o[i])
    BY <1>1, ListsAreOrdered
  <2>2. j < i \/ i < j \/ i = j
    BY <1>1
  <2> QED
    BY <1>2, <2>1, <2>2 DEF Increasing
<1> QED
  BY <1>2 DEF Once

-----------------------------------------------------------------------------
(* What a keyset page is to its matching rows: all of them, or the first   *)
(* ones and a cursor at the last of these.                                 *)
PageOf(page, list, M) ==
  /\ page.items \in Seq(M) /\ Increasing(list, page.items)
  /\ \/ /\ page.next = End
        /\ \A r \in M : \E i \in DOMAIN page.items : page.items[i] = r
     \/ /\ Len(page.items) = PageLimit
        /\ page.next = [at |-> "row", row |-> page.items[PageLimit]]
        /\ \A r \in M : \/ \E i \in DOMAIN page.items : page.items[i] = r
                        \/ Before(list, page.items[PageLimit], r)

Matching(list, table, from) ==
  IF from = First THEN table ELSE {r \in table : after(list, from.row, r)}

(* LIMIT limit + 1 gives such a page.                                      *)
LEMMA KeysetPage ==
  ASSUME NEW list, NEW table \in Tables, NEW from
  PROVE  PageOf(list_page(list, table, from, PageLimit), list, Matching(list, table, from))
<1> DEFINE M == Matching(list, table, from)
           s == Sorted(list, M)
           n == Len(s)
           k == PageLimit
           fetched == SubSeq(s, 1, IF n > k THEN k + 1 ELSE n)
           has_more == Len(fetched) > k
           items == IF has_more THEN SubSeq(fetched, 1, k) ELSE fetched
           page == list_page(list, table, from, k)
<1>1. M \in Tables /\ M \subseteq table
  <2>1. M \subseteq table
    BY DEF Matching
  <2> HIDE DEF M
  <2> QED
    BY <2>1, FS_Subset DEF Tables
<1>2. page = [items |-> items,
              next |-> IF has_more THEN [at |-> "row", row |-> Last(items)] ELSE End]
  BY Zenon DEF list_page, Matching
<1> HIDE DEF M, s, page
<1>3. /\ s \in Seq(M) /\ Increasing(list, s)
      /\ \A r \in M : \E i \in DOMAIN s : s[i] = r
  BY <1>1, SortedTable DEF s
<1>4. n \in Nat /\ DOMAIN s = 1..n /\ k \in Nat \ {0}
  BY <1>3, PagesAssumption
<1> HIDE DEF n, k
<1>5. CASE n > k
  <2>1. fetched = SubSeq(s, 1, k + 1)
    BY <1>5
  <2>2. fetched \in Seq(M) /\ Len(fetched) = k + 1 /\ \A i \in 1..(k + 1) : fetched[i] = s[i]
    BY <1>3, <1>4, <1>5, <2>1 DEF n
  <2> HIDE DEF fetched
  <2>3. has_more /\ items = SubSeq(fetched, 1, k)
    BY <1>4, <2>2
  <2>4. items \in Seq(M) /\ Len(items) = k /\ \A i \in 1..k : items[i] = s[i]
    BY <1>4, <2>2, <2>3
  <2> HIDE DEF items, has_more
  <2>5. Increasing(list, items)
    <3>1. DOMAIN items = 1..k /\ 1..k \subseteq 1..n
      BY <1>4, <1>5, <2>4
    <3> QED
      BY <1>3, <1>4, <2>4, <3>1 DEF Increasing
  <2>6. Last(items) = items[k]
    BY <2>4 DEF Last
  <2>7. ASSUME NEW r \in M
        PROVE  (\E i \in DOMAIN items : items[i] = r) \/ Before(list, items[k], r)
    <3>1. PICK i \in 1..n : s[i] = r
      BY <1>3, <1>4
    <3>2. CASE i \in 1..k
      BY <1>4, <2>4, <3>1, <3>2
    <3>3. CASE i \notin 1..k
      <4>1. k \in 1..n /\ k \in 1..k /\ k < i
        BY <1>4, <1>5, <3>3
      <4> QED
        BY <1>3, <1>4, <2>4, <3>1, <4>1 DEF Increasing
    <3> QED
      BY <3>2, <3>3
  <2>8. page.items = items /\ page.next = [at |-> "row", row |-> items[k]]
    BY <1>2, <2>3, <2>6
  <2> QED
    BY <2>4, <2>5, <2>7, <2>8 DEF PageOf, M, page, k
<1>6. CASE ~(n > k)
  <2>1. fetched = SubSeq(s, 1, n)
    BY <1>6
  <2>2. fetched = s
    BY <1>3, <2>1, SubSeqFull DEF n
  <2>3. ~has_more
    BY <1>6, <2>2 DEF n
  <2> HIDE DEF fetched, has_more
  <2>4. items = s
    BY <2>2, <2>3
  <2> HIDE DEF items
  <2>5. page.items = s /\ page.next = End
    BY <1>2, <2>3, <2>4
  <2> QED
    BY <1>3, <2>5 DEF PageOf, M, page, k
<1> QED
  BY <1>5, <1>6

-----------------------------------------------------------------------------
(* A row and a page's last one are told apart by where the list goes on.   *)
ToldApart(list, d, r) == list = import_errors => ~(d.major = r.major /\ d.minor # r.minor)

(* Going on after a page's last row leaves out the rows before it and no   *)
(* other, where the two columns a cursor keeps tell the rows apart.        *)
LEMMA GoingOn ==
  ASSUME NEW list \in Listing, list.by = "keyset", NEW c \in Row, NEW d \in Row, NEW r \in Row,
         ToldApart(list, d, r)
  PROVE  /\ ToldApart(list, c, r) /\ after(list, c, d) /\ ~after(list, c, r) => ~after(list, d, r)
         /\ Before(list, d, r) => after(list, d, r)
         /\ r = d \/ Before(list, r, d) => ~after(list, d, r)
<1> DEFINE Numbered(x) == x.major \in Int /\ x.minor \in Int /\ x.id \in Int
<1>1. Numbered(c) /\ Numbered(d) /\ Numbered(r)
  BY PagesAssumption DEF Row
<1>2. CASE list.resume = "all"
  <2>1. \A x, y : after(list, x, y) <=> Before(list, x, y)
    BY <1>2 DEF after, Before
  <2>2. /\ ~Before(list, r, r)
        /\ Before(list, r, d) => ~Before(list, d, r)
        /\ Before(list, c, d) /\ Before(list, d, r) => Before(list, c, r)
    BY ListsAreOrdered
  <2> QED
    BY <2>1, <2>2
<1>3. CASE list = import_errors
  <2>1. list.resume = "major and id" /\ list.descending = FALSE
    BY <1>3 DEF import_errors
  <2>2. \A x, y : after(list, x, y) <=> y.major > x.major \/ (y.major = x.major /\ y.id > x.id)
    BY <2>1 DEF after
  <2>3. \A x, y : Before(list, x, y) <=> Earlier(x, y)
    BY <2>1 DEF Before
  <2> QED
    BY <1>1, <1>3, <2>2, <2>3 DEF Earlier, ToldApart
<1>4. list.resume = "all" \/ list = import_errors
  <2>1. list \in {memberships, import_jobs, import_errors, breakdown}
    BY Zenon DEF Listing, organizations, accounts, departments, cost_centers, budget_versions,
                 audit_events, scenarios, conversations, import_preview
  <2>2. memberships.resume = "all" /\ import_jobs.resume = "all" /\ breakdown.by = "offset"
    BY DEF memberships, import_jobs, breakdown
  <2> QED
    BY <2>1, <2>2
<1> QED
  BY <1>2, <1>3, <1>4

-----------------------------------------------------------------------------
(* What keeps a keyset list complete: outside the exemption, a steady row  *)
(* has been shown once or not at all, by whether the cursor is past it.    *)
Exempt(r) ==
  /\ listing = import_errors
  /\ \E b \in Boundaries : b.major = r.major /\ b.minor # r.minor

KeysetInv ==
  /\ shown \in Seq(Row)
  /\ \/ cursor = First /\ shown = <<>>
     \/ cursor = End
     \/ \E c \in Row : /\ cursor = [at |-> "row", row |-> c]
                       /\ Len(shown) % PageLimit = 0
                       /\ Len(shown) \in DOMAIN shown /\ shown[Len(shown)] = c
  /\ \A r \in steady :
       ~Exempt(r) =>
         IF cursor = End THEN Once(shown, r)
         ELSE IF cursor = First THEN Never(shown, r)
         ELSE IF after(listing, cursor.row, r) THEN Never(shown, r) ELSE Once(shown, r)

(* An offset list that nobody changes is shown from its beginning.         *)
OffsetInv ==
  /\ steady = rows
  /\ LET all == Sorted(listing, rows)
     IN \/ cursor = First /\ shown = <<>>
        \/ cursor = End /\ shown = all
        \/ \E o \in 0..Len(all) : /\ cursor = [at |-> "offset", offset |-> o]
                                  /\ shown = SubSeq(all, 1, o)

PagesInv ==
  /\ listing \in Listing
  /\ rows \in Reachable
  /\ steady \subseteq rows
  /\ changes \in Nat
  /\ listing.by = "keyset" => KeysetInv
  /\ listing.by = "offset" /\ changes = 0 => OffsetInv

LEMMA CursorsDiffer ==
  /\ First # End
  /\ \A c : [at |-> "row", row |-> c] \notin {First, End}
  /\ \A o : [at |-> "offset", offset |-> o] \notin {First, End}
BY DEF First, End

(* A list is read by key or by offset.                                     *)
LEMMA ListingsAreRead ==
  ASSUME NEW list \in Listing
  PROVE  list.by \in {"keyset", "offset"}
<1>1. list \in {memberships, import_jobs, import_errors, breakdown}
  BY Zenon DEF Listing, organizations, accounts, departments, cost_centers, budget_versions,
               audit_events, scenarios, conversations, import_preview
<1>2. /\ memberships.by = "keyset" /\ import_jobs.by = "keyset"
      /\ import_errors.by = "keyset" /\ breakdown.by = "offset"
  BY DEF memberships, import_jobs, import_errors, breakdown
<1> QED
  BY <1>1, <1>2

(* At the end of a list the invariant is what its reader is promised.      *)
LEMMA InvGivesComplete ==
  ASSUME PagesInv
  PROVE  PagesComplete
<1> SUFFICES ASSUME cursor = End, NEW r \in steady,
                    ~(listing.by = "offset" /\ changes > 0), ~Exempt(r)
             PROVE  Times(r) = 1
  BY DEF PagesComplete, Exempt
<1>1. listing.by = "keyset" \/ (listing.by = "offset" /\ changes = 0)
  BY ListingsAreRead DEF PagesInv
<1>2. Once(shown, r)
  <2>1. CASE listing.by = "keyset"
    BY <2>1 DEF PagesInv, KeysetInv
  <2>2. CASE listing.by = "offset" /\ changes = 0
    <3> DEFINE all == Sorted(listing, rows)
    <3>1. shown = all /\ r \in rows /\ rows \in Tables
      BY <2>2, CursorsDiffer DEF PagesInv, OffsetInv, Reachable, Tables
    <3>2. /\ all \in Seq(rows) /\ Increasing(listing, all)
          /\ \E i \in DOMAIN all : all[i] = r
      BY <3>1, SortedTable
    <3>3. rows \subseteq Row
      BY <3>1 DEF Tables
    <3> HIDE DEF all
    <3>4. all \in Seq(Row)
      BY <3>2, <3>3
    <3> QED
      BY <3>1, <3>2, <3>4, IncreasingIsOnce
  <2> QED
    BY <1>1, <2>1, <2>2
<1>3. PICK i \in DOMAIN shown : shown[i] = r /\ \A j \in DOMAIN shown : shown[j] = r => j = i
  BY <1>2 DEF Once
<1>4. {j \in DOMAIN shown : shown[j] = r} = {i}
  BY <1>3
<1> QED
  BY <1>4, FS_Singleton DEF Times

(* A full page more leaves a multiple of the limit.                        *)
LEMMA MultiplesGoOn ==
  ASSUME NEW n \in Nat, NEW k \in Nat \ {0}, n % k = 0
  PROVE  (n + k) % k = 0
<1> DEFINE q == n \div k
           x == (n + k) \div k
           y == (n + k) % k
           z == (q + 1) - x
<1>1. q \in Int /\ n = k * q
  OBVIOUS
<1>2. x \in Int /\ y \in 0..(k - 1) /\ n + k = k * x + y
  OBVIOUS
<1> HIDE DEF q, x, y
<1>3. z \in Int /\ k * z = y
  <2>1. k * z = (k * q + k) - k * x
    BY <1>1, <1>2, Z3
  <2> QED
    BY <1>1, <1>2, <2>1
<1> HIDE DEF z
<1>4. z = 0
  <2>1. z >= 1 => k * z >= k
    BY <1>3, Z3
  <2>2. z <= -1 => k * z <= -k
    BY <1>3, Z3
  <2> QED
    BY <1>2, <1>3, <2>1, <2>2
<1>5. y = 0
  BY <1>3, <1>4
<1> QED
  BY <1>5 DEF y

(* A list and what follows it.                                             *)
LEMMA Joined ==
  ASSUME NEW S, NEW s \in Seq(S), NEW t \in Seq(S), NEW u, u = s \o t
  PROVE  /\ u \in Seq(S) /\ Len(u) = Len(s) + Len(t) /\ DOMAIN u = 1..(Len(s) + Len(t))
         /\ \A i \in 1..Len(s) : u[i] = s[i]
         /\ \A i \in 1..Len(t) : u[Len(s) + i] = t[i]
OBVIOUS

(* Reading a page by key, and by offset.                                   *)
LEMMA ReadKeyset ==
  ASSUME PagesInv, ReadPage, listing.by = "keyset"
  PROVE  KeysetInv'
<1> DEFINE page == list_page(listing, rows, cursor, PageLimit)
           items == page.items
           M == Matching(listing, rows, cursor)
           n == Len(shown)
           m == Len(items)
<1>1. /\ cursor # End /\ shown' = shown \o items /\ cursor' = page.next
      /\ listing' = listing /\ rows' = rows /\ steady' = steady
  BY DEF ReadPage, Page
<1>2. /\ listing \in Listing /\ rows \in Tables /\ steady \subseteq rows /\ rows \subseteq Row
      /\ KeysetInv
  BY DEF PagesInv, Reachable, Tables
<1>3. PageOf(page, listing, M)
  BY <1>2, KeysetPage
<1>4. M \subseteq rows /\ M \subseteq Row
  BY <1>2 DEF Matching
<1> HIDE DEF page, M
<1>5. /\ items \in Seq(M) /\ items \in Seq(Row) /\ Increasing(listing, items)
      /\ \/ /\ page.next = End
            /\ \A r \in M : \E i \in DOMAIN items : items[i] = r
         \/ /\ m = PageLimit
            /\ page.next = [at |-> "row", row |-> items[PageLimit]]
            /\ \A r \in M : \/ \E i \in DOMAIN items : items[i] = r
                            \/ Before(listing, items[PageLimit], r)
  BY <1>3, <1>4 DEF PageOf
<1> HIDE DEF items
<1>6. /\ shown \in Seq(Row) /\ n \in Nat /\ DOMAIN shown = 1..n
      /\ m \in Nat /\ DOMAIN items = 1..m /\ PageLimit \in Nat \ {0}
      /\ \A i \in 1..m : items[i] \in M
  BY <1>2, <1>5, PagesAssumption DEF KeysetInv
<1>7. /\ shown' \in Seq(Row) /\ Len(shown') = n + m /\ DOMAIN shown' = 1..(n + m)
      /\ \A i \in 1..n : shown'[i] = shown[i]
      /\ \A i \in 1..m : shown'[n + i] = items[i]
  <2>1. shown' = shown \o items /\ shown \in Seq(Row) /\ items \in Seq(Row)
    BY <1>1, <1>5, <1>6
  <2> HIDE DEF KeysetInv
  <2> QED
    BY <2>1, Joined
<1> HIDE DEF n, m
<1>8. n % PageLimit = 0
  <2>1. CASE cursor = First /\ shown = <<>>
    BY <1>6, <2>1 DEF n
  <2>2. CASE \E c \in Row : Len(shown) % PageLimit = 0
    BY <2>2 DEF n
  <2> QED
    BY <1>1, <1>2, <2>1, <2>2 DEF KeysetInv
<1>9. Boundaries \subseteq Boundaries'
  <2>1. \A j \in 1..n : j \in 1..(n + m)
    BY <1>6
  <2> QED
    BY <1>6, <1>7, <2>1 DEF Boundaries
<1>10. CASE page.next = End
  <2>1. cursor' = End
    BY <1>1, <1>10
  <2>2. ASSUME NEW r \in steady, ~Exempt(r)' PROVE Once(shown', r)
    <3>1. ~Exempt(r)
      BY <1>1, <1>9, <2>2 DEF Exempt
    <3>2. r \in rows /\ r \in Row
      BY <1>2
    <3>3. CASE r \in M
      <4>1. Never(shown, r)
        BY <1>1, <1>2, <3>1, <3>3 DEF KeysetInv, M, Matching
      <4>2. \E i \in DOMAIN items : items[i] = r
        BY <1>5, <1>10, <3>3, CursorsDiffer
      <4>3. Once(items, r)
        BY <1>5, <4>2, IncreasingIsOnce
      <4> QED
        BY <1>1, <1>5, <1>6, <4>1, <4>3, OnceInBoth
    <3>4. CASE r \notin M
      <4>1. cursor # First /\ ~after(listing, cursor.row, r)
        BY <3>2, <3>4 DEF M, Matching
      <4>2. Once(shown, r)
        BY <1>1, <1>2, <3>1, <4>1 DEF KeysetInv
      <4>3. Never(items, r)
        BY <1>6, <3>4 DEF Never
      <4> QED
        BY <1>1, <1>5, <1>6, <4>2, <4>3, OnceInBoth
    <3> QED
      BY <3>3, <3>4
  <2> QED
    BY <1>1, <1>7, <2>1, <2>2 DEF KeysetInv
<1>11. CASE page.next # End
  <2> DEFINE d == items[PageLimit]
  <2>1. m = PageLimit /\ cursor' = [at |-> "row", row |-> d] /\ PageLimit \in 1..m
    BY <1>1, <1>5, <1>6, <1>11
  <2>2. d \in M /\ d \in Row
    BY <1>4, <1>6, <2>1
  <2>3. n + m \in 1..(n + m) /\ shown'[n + m] = d /\ (n + m) % PageLimit = 0
    <3>1. n + m \in 1..(n + m) /\ (n + m) % PageLimit = 0
      BY <1>6, <1>8, <2>1, MultiplesGoOn
    <3> QED
      BY <1>7, <2>1, <3>1
  <2>4. d \in Boundaries'
    BY <1>7, <2>3 DEF Boundaries
  <2> HIDE DEF d
  <2>5. cursor'.row = d /\ cursor' # End /\ cursor' # First
    BY <2>1, CursorsDiffer
  <2>6. ASSUME NEW r \in steady, ~Exempt(r)'
        PROVE  IF after(listing, d, r) THEN Never(shown', r) ELSE Once(shown', r)
    <3>1. ~Exempt(r) /\ ToldApart(listing, d, r)
      BY <1>1, <1>9, <2>4, <2>6 DEF Exempt, ToldApart
    <3>2. r \in rows /\ r \in Row
      BY <1>2
    <3>3. CASE r \in M /\ \E i \in DOMAIN items : items[i] = r
      <4>1. Never(shown, r)
        BY <1>1, <1>2, <3>1, <3>3 DEF KeysetInv, M, Matching
      <4>2. Once(items, r)
        BY <1>5, <3>3, IncreasingIsOnce
      <4>3. Once(shown', r)
        BY <1>1, <1>5, <1>6, <4>1, <4>2, OnceInBoth
      <4>4. PICK i \in 1..m : items[i] = r
        BY <1>6, <3>3
      <4>5. i = PageLimit \/ i < PageLimit
        BY <1>6, <2>1
      <4>6. r = d \/ Before(listing, r, d)
        BY <1>5, <1>6, <2>1, <4>4, <4>5 DEF Increasing, d
      <4> QED
        BY <1>2, <2>2, <3>1, <3>2, <4>3, <4>6, GoingOn
    <3>4. CASE r \in M /\ ~ \E i \in DOMAIN items : items[i] = r
      <4>1. Never(shown, r) /\ Never(items, r)
        BY <1>1, <1>2, <3>1, <3>4 DEF KeysetInv, M, Matching, Never
      <4>2. Never(shown', r)
        BY <1>1, <1>5, <1>6, <4>1, OnceInBoth
      <4>3. Before(listing, d, r)
        BY <1>5, <1>11, <3>4 DEF d
      <4> QED
        BY <1>2, <2>2, <3>1, <3>2, <4>2, <4>3, GoingOn
    <3>5. CASE r \notin M
      <4>1. cursor # First /\ ~after(listing, cursor.row, r)
        BY <3>2, <3>5 DEF M, Matching
      <4>2. Once(shown, r)
        BY <1>1, <1>2, <3>1, <4>1 DEF KeysetInv
      <4>3. Never(items, r)
        BY <1>6, <3>5 DEF Never
      <4>4. Once(shown', r)
        BY <1>1, <1>5, <1>6, <4>2, <4>3, OnceInBoth
      <4>5. PICK c \in Row : /\ cursor = [at |-> "row", row |-> c] /\ n % PageLimit = 0
                             /\ n \in DOMAIN shown /\ shown[n] = c
        BY <1>1, <1>2, <4>1 DEF KeysetInv, n
      <4>6. c \in Boundaries
        BY <4>5 DEF Boundaries
      <4>7. ToldApart(listing, c, r)
        BY <3>1, <4>6 DEF Exempt, ToldApart
      <4>8. cursor.row = c
        BY <4>5
      <4>9. after(listing, c, d)
        BY <2>2, <4>1, <4>8 DEF M, Matching
      <4> QED
        BY <1>2, <2>2, <3>1, <3>2, <4>1, <4>4, <4>7, <4>8, <4>9, GoingOn
    <3> QED
      BY <3>3, <3>4, <3>5
  <2>7. \E c \in Row : /\ cursor' = [at |-> "row", row |-> c]
                       /\ Len(shown') % PageLimit = 0
                       /\ Len(shown') \in DOMAIN shown' /\ shown'[Len(shown')] = c
    BY <1>7, <2>1, <2>2, <2>3
  <2> QED
    BY <1>1, <1>7, <2>5, <2>6, <2>7 DEF KeysetInv
<1> QED
  BY <1>10, <1>11

LEMMA ReadOffset ==
  ASSUME PagesInv, ReadPage, listing.by = "offset", changes = 0
  PROVE  OffsetInv'
<1> DEFINE all == Sorted(listing, rows)
           page == offset_page(all, cursor, PageLimit)
           N == Len(all)
           o == IF cursor = First THEN 0 ELSE cursor.offset
           upto == o + PageLimit
           more == N > upto
<1>1. /\ cursor # End /\ shown' = shown \o page.items /\ cursor' = page.next
      /\ listing' = listing /\ rows' = rows /\ steady' = steady
  BY DEF ReadPage, Page
<1>2. OffsetInv /\ rows \in Tables
  BY DEF PagesInv, Reachable, Tables
<1>3. all \in Seq(rows)
  BY <1>2, SortedTable
<1>4. page = [items |-> SubSeq(all, o + 1, IF more THEN upto ELSE N),
              next |-> IF more THEN [at |-> "offset", offset |-> upto] ELSE End]
  BY Zenon DEF offset_page
<1> HIDE DEF all
<1>5. N \in Nat /\ PageLimit \in Nat \ {0}
  BY <1>3, PagesAssumption
<1>6. o \in 0..N /\ shown = SubSeq(all, 1, o)
  <2>1. CASE cursor = First /\ shown = <<>>
    <3>1. SubSeq(all, 1, 0) = <<>>
      BY <1>3
    <3> QED
      BY <1>5, <2>1, <3>1
  <2>2. CASE \E q \in 0..N : cursor = [at |-> "offset", offset |-> q] /\ shown = SubSeq(all, 1, q)
    BY <2>2, CursorsDiffer
  <2> QED
    BY <1>1, <1>2, <2>1, <2>2 DEF OffsetInv, all
<1> HIDE DEF N, page, o
<1>7. ASSUME NEW k \in o..N PROVE SubSeq(all, 1, o) \o SubSeq(all, o + 1, k) = SubSeq(all, 1, k)
  <2>1. 1 \in 1..(N + 1) /\ o \in (1 - 1)..N /\ k \in o..N
    BY <1>5, <1>6
  <2> QED
    BY <1>3, <2>1, ConcatAdjacentSubSeq DEF N
<1>8. CASE more
  <2>1. upto \in o..N /\ upto \in 0..N
    BY <1>5, <1>6, <1>8
  <2>2. shown' = SubSeq(all, 1, upto) /\ cursor' = [at |-> "offset", offset |-> upto]
    <3>1. page.items = SubSeq(all, o + 1, upto) /\ page.next = [at |-> "offset", offset |-> upto]
      BY <1>4, <1>8
    <3> HIDE DEF upto
    <3> QED
      BY <1>1, <1>6, <1>7, <2>1, <3>1
  <2> HIDE DEF upto
  <2> QED
    BY <1>1, <1>2, <2>1, <2>2 DEF OffsetInv, all, N
<1>9. CASE ~more
  <2>1. page.items = SubSeq(all, o + 1, N) /\ page.next = End /\ N \in o..N
    BY <1>4, <1>5, <1>6, <1>9
  <2>2. SubSeq(all, 1, N) = all
    BY <1>3, SubSeqFull DEF N
  <2>3. shown' = all /\ cursor' = End
    BY <1>1, <1>6, <1>7, <2>1, <2>2
  <2> QED
    BY <1>1, <1>2, <2>3 DEF OffsetInv, all
<1> QED
  BY <1>8, <1>9

(* Inserting, deleting and moving rows between two pages.                  *)
LEMMA ChangesKeep ==
  ASSUME PagesInv, Change, steady' \subseteq steady, rows' \in Reachable, steady' \subseteq rows'
  PROVE  PagesInv'
<1>1. /\ changes' = changes + 1 /\ listing' = listing /\ cursor' = cursor /\ shown' = shown
      /\ changes \in Nat /\ listing \in Listing
  BY DEF Change, PagesInv
<1>2. changes' \in Nat /\ changes' # 0
  BY <1>1
<1>3. \A r : Exempt(r)' <=> Exempt(r)
  BY <1>1 DEF Exempt, Boundaries
<1>4. listing.by = "keyset" => KeysetInv'
  BY <1>1, <1>3 DEF PagesInv, KeysetInv
<1> QED
  BY <1>1, <1>2, <1>4 DEF PagesInv

LEMMA PagesStep ==
  ASSUME PagesInv, [PagesNext]_pageVars
  PROVE  PagesInv'
<1>0. rows \in SUBSET Row /\ IsFiniteSet(rows) /\ \A r, s \in rows : r.id = s.id => r = s
  BY DEF PagesInv, Reachable
<1>1. CASE ReadPage
  <2>1. /\ listing' = listing /\ rows' = rows /\ steady' = steady /\ changes' = changes
    BY <1>1 DEF ReadPage
  <2>2. listing.by = "keyset" => KeysetInv'
    BY <1>1, ReadKeyset
  <2>3. listing.by = "offset" /\ changes = 0 => OffsetInv'
    BY <1>1, ReadOffset
  <2> QED
    BY <2>1, <2>2, <2>3 DEF PagesInv, Reachable
<1>2. CASE Insert
  <2>1. PICK r \in Row : r.id \notin {s.id : s \in rows} /\ rows' = rows \cup {r}
    BY <1>2 DEF Insert
  <2>2. rows' \in Reachable
    BY <1>0, <2>1, FS_AddElement DEF Reachable
  <2>3. Change /\ steady' = steady /\ steady \subseteq rows
    BY <1>2 DEF Insert, PagesInv
  <2> QED
    BY <2>1, <2>2, <2>3, ChangesKeep
<1>3. CASE Delete
  <2>1. PICK r \in rows : rows' = rows \ {r} /\ steady' = steady \ {r}
    BY <1>3 DEF Delete
  <2>2. rows' \in Reachable
    BY <1>0, <2>1, FS_RemoveElement DEF Reachable
  <2>3. Change /\ steady \subseteq rows
    BY <1>3 DEF Delete, PagesInv
  <2> QED
    BY <2>1, <2>2, <2>3, ChangesKeep
<1>4. CASE Touch
  <2>1. PICK r \in rows, k \in Column : /\ rows' = (rows \ {r}) \cup {[r EXCEPT !.major = k]}
                                        /\ steady' = steady \ {r}
    BY <1>4 DEF Touch
  <2> DEFINE t == [r EXCEPT !.major = k]
  <2>2. r \in Row
    BY <1>0
  <2>3. t \in Row /\ t.id = r.id
    BY <2>2 DEF Row
  <2>4. rows' = (rows \ {r}) \cup {t}
    BY <2>1
  <2> HIDE DEF t
  <2>5. IsFiniteSet(rows')
    BY <1>0, <2>4, FS_RemoveElement, FS_AddElement
  <2>6. \A x, y \in rows' : x.id = y.id => x = y
    BY <1>0, <2>3, <2>4
  <2>7. rows' \in Reachable
    BY <1>0, <2>3, <2>4, <2>5, <2>6 DEF Reachable
  <2>8. Change /\ steady \subseteq rows
    BY <1>4 DEF Touch, PagesInv
  <2> QED
    BY <2>1, <2>4, <2>7, <2>8, ChangesKeep
<1>5. CASE UNCHANGED pageVars
  BY <1>5 DEF pageVars, PagesInv, KeysetInv, OffsetInv, Exempt, Boundaries
<1> QED
  BY <1>1, <1>2, <1>3, <1>4, <1>5 DEF PagesNext

(* Whoever reads a list to its end, however many rows it has, however many *)
(* pages it takes and whatever is inserted, deleted or moved meanwhile,    *)
(* has seen each steady row once; with the two exceptions the property     *)
(* names (list_page, offset_page, SqlImportErrorRepository.list_page).     *)
THEOREM ListsAreComplete == PagesSpec => []PagesComplete
<1>1. PagesInit => PagesInv
  <2> SUFFICES ASSUME PagesInit PROVE PagesInv
    OBVIOUS
  <2>1. /\ listing \in Listing /\ rows \in Reachable /\ cursor = First /\ shown = <<>>
        /\ steady = rows /\ changes = 0
    BY DEF PagesInit
  <2>2. \A r : Never(shown, r)
    BY <2>1 DEF Never
  <2>3. KeysetInv
    BY <2>1, <2>2, CursorsDiffer DEF KeysetInv
  <2>4. OffsetInv
    BY <2>1 DEF OffsetInv
  <2> QED
    BY <2>1, <2>3, <2>4 DEF PagesInv
<1>2. PagesInv /\ [PagesNext]_pageVars => PagesInv'
  BY PagesStep
<1>3. PagesInv => PagesComplete
  BY InvGivesComplete
<1> QED
  BY <1>1, <1>2, <1>3, PTL DEF PagesSpec

-----------------------------------------------------------------------------
(* Sums of functions                                                       *)

(* The library's sum of a function is its total.                           *)
LEMMA SumIsTotal ==
  ASSUME NEW f
  PROVE  SumFunction(f) = Total(f, DOMAIN f)
BY Zenon DEF SumFunction, SumFunctionOnSet, FoldFunctionOnSet, Total, MapThenSumSet

(* Sums of a function and of what it is made from.                         *)
LEMMA SumOfValues ==
  ASSUME NEW S, IsFiniteSet(S), NEW f, NEW g, DOMAIN f = S, \A x \in S : f[x] = g[x]
  PROVE  SumFunction(f) = Total(g, S)
<1>1. SumFunction(f) = Total(f, S)
  BY SumIsTotal
<1> QED
  BY <1>1, TotalSame

LEMMA TotalOfUnion ==
  ASSUME NEW A, IsFiniteSet(A), NEW B, IsFiniteSet(B), A \cap B = {},
         NEW f, \A x \in A \cup B : f[x] \in Int
  PROVE  Total(f, A \cup B) = Total(f, A) + Total(f, B)
<1> DEFINE G == {T \in SUBSET B : Total(f, A \cup T) = Total(f, A) + Total(f, T)}
<1>1. Total(f, A) \in Int
  BY TotalIsNumber
<1>2. {} \in G
  <2>1. A \cup {} = A
    OBVIOUS
  <2> QED
    BY <1>1, <2>1, TotalEmpty
<1>3. ASSUME NEW T \in SUBSET B, NEW x \in B \ T, T \in G
      PROVE  T \cup {x} \in G
  <2>1. IsFiniteSet(T) /\ IsFiniteSet(A \cup T) /\ x \notin A \cup T
    BY FS_Subset, FS_Union
  <2>2. \A y \in (A \cup T) \cup {x} : f[y] \in Int
    OBVIOUS
  <2>3. Total(f, (A \cup T) \cup {x}) = f[x] + Total(f, A \cup T)
    BY <2>1, <2>2, TotalAdds
  <2>4. Total(f, T \cup {x}) = f[x] + Total(f, T) /\ Total(f, T) \in Int
    BY <2>1, <2>2, TotalAdds
  <2>5. (A \cup T) \cup {x} = A \cup (T \cup {x}) /\ f[x] \in Int
    OBVIOUS
  <2>6. Total(f, A \cup T) = Total(f, A) + Total(f, T)
    BY <1>3
  <2>7. \A a, b, c \in Int : c + (a + b) = a + (c + b)
    OBVIOUS
  <2>8. Total(f, A \cup (T \cup {x})) = f[x] + (Total(f, A) + Total(f, T))
    BY <2>3, <2>5, <2>6, Zenon
  <2>9. Total(f, A \cup (T \cup {x})) = Total(f, A) + (f[x] + Total(f, T))
    BY <1>1, <2>4, <2>5, <2>7, <2>8, Zenon
  <2>10. Total(f, A \cup (T \cup {x})) = Total(f, A) + Total(f, T \cup {x})
    BY <2>4, <2>9, Zenon
  <2> QED
    BY <2>10
<1>4. B \in G
  <2>1. \A T \in SUBSET B : \A x \in B \ T : T \in G => T \cup {x} \in G
    BY <1>3
  <2> HIDE DEF G
  <2>2. SUBSET B \subseteq G
    BY <1>2, <2>1, SetOneByOne
  <2> QED
    BY <2>2
<1> QED
  BY <1>4

LEMMA TotalNegated ==
  ASSUME NEW S, IsFiniteSet(S), NEW f, NEW g, \A x \in S : f[x] \in Int /\ g[x] = -f[x]
  PROVE  Total(g, S) = -Total(f, S)
<1> DEFINE zeros == [x \in S |-> 0]
<1>1. Total(zeros, S) = Total(zeros, S) + Total(zeros, S)
  <2>1. \A x \in S : zeros[x] \in Int /\ zeros[x] \in Int /\ zeros[x] = zeros[x] + zeros[x]
    OBVIOUS
  <2> HIDE DEF zeros
  <2> QED
    BY <2>1, TotalOfTwo
<1>2. Total(zeros, S) = Total(f, S) + Total(g, S)
  <2>1. \A x \in S : f[x] \in Int /\ g[x] \in Int /\ zeros[x] = f[x] + g[x]
    OBVIOUS
  <2> HIDE DEF zeros
  <2> QED
    BY <2>1, TotalOfTwo
<1>3. Total(zeros, S) \in Int /\ Total(f, S) \in Int /\ Total(g, S) \in Int
  <2>1. \A x \in S : f[x] \in Int /\ g[x] \in Int /\ zeros[x] \in Int
    OBVIOUS
  <2> HIDE DEF zeros
  <2> QED
    BY <2>1, TotalIsNumber
<1>4. \A z, a, b \in Int : z = z + z /\ z = a + b => b = -a
  OBVIOUS
<1> HIDE DEF zeros
<1> QED
  BY <1>1, <1>2, <1>3, <1>4, Zenon

(* The same sum over the names of the elements.                            *)
LEMMA TotalRenamed ==
  ASSUME NEW K, IsFiniteSet(K), NEW e, \A k, l \in K : e[k] = e[l] => k = l,
         NEW f, NEW g, \A k \in K : g[k] = f[e[k]] /\ f[e[k]] \in Int
  PROVE  Total(f, {e[k] : k \in K}) = Total(g, K)
<1> DEFINE image(T) == {e[k] : k \in T}
           G == {T \in SUBSET K : Total(f, image(T)) = Total(g, T)}
<1>1. {} \in G
  <2>1. image({}) = {}
    OBVIOUS
  <2> QED
    BY <2>1, TotalEmpty
<1>2. ASSUME NEW T \in SUBSET K, NEW x \in K \ T, T \in G
      PROVE  T \cup {x} \in G
  <2>1. IsFiniteSet(T) /\ IsFiniteSet(image(T))
    BY FS_Subset, FiniteImage
  <2>2. image(T \cup {x}) = image(T) \cup {e[x]} /\ e[x] \notin image(T)
    OBVIOUS
  <2>3. /\ \A y \in image(T) \cup {e[x]} : f[y] \in Int
        /\ \A k \in T \cup {x} : g[k] \in Int
        /\ g[x] = f[e[x]]
    OBVIOUS
  <2>4. Total(f, image(T)) = Total(g, T)
    BY <1>2
  <2> HIDE DEF image
  <2>5. Total(f, image(T) \cup {e[x]}) = f[e[x]] + Total(f, image(T))
    BY <2>1, <2>2, <2>3, TotalAdds
  <2>6. Total(g, T \cup {x}) = g[x] + Total(g, T)
    BY <2>1, <2>3, TotalAdds
  <2>7. Total(f, image(T \cup {x})) = Total(g, T \cup {x})
    BY <2>2, <2>3, <2>4, <2>5, <2>6
  <2> QED
    BY <2>7
<1>3. K \in G
  <2> HIDE DEF G
  <2> QED
    BY <1>1, <1>2, SetOneByOne
<1> QED
  BY <1>3

-----------------------------------------------------------------------------
(* The rows of the ledger and what reports make of them                    *)

LedgerInv == ledger \in Seq(Entries) /\ rules \in Seq(Rules)

LEMMA LedgerInvariant == LedgerSpec => []LedgerInv
<1>1. LedgerInit => LedgerInv
  BY DEF LedgerInit, LedgerInv
<1>2. LedgerInv /\ [LedgerNext]_ledgerVars => LedgerInv'
  <2> SUFFICES ASSUME LedgerInv, [LedgerNext]_ledgerVars PROVE LedgerInv'
    OBVIOUS
  <2>1. CASE ApplyImport
    BY <2>1 DEF ApplyImport, add_many, LedgerInv
  <2>2. CASE AddRule
    BY <2>2 DEF AddRule, LedgerInv
  <2>3. CASE UNCHANGED ledgerVars
    BY <2>3 DEF ledgerVars, LedgerInv
  <2> QED
    BY <2>1, <2>2, <2>3 DEF LedgerNext
<1> QED
  BY <1>1, <1>2, PTL DEF LedgerSpec

(* A row of the ledger is an entry in the fiscal year of its month.        *)
IsRow(e) ==
  /\ e.amount \in Int /\ e.period \in Nat /\ e.period \in Month
  /\ e.type \in {"budget", "actual"}
  /\ e.fiscal_year = fiscal_year_for_date(e.period, StartMonth)
  /\ e.account \in Int /\ e.department \in Int /\ e.center \in Int
  /\ e.account \in Account

LEMMA LedgerRows ==
  ASSUME LedgerInv
  PROVE  IsFiniteSet(DOMAIN ledger) /\ \A i \in DOMAIN ledger : IsRow(ledger[i])
<1>1. ledger \in Seq(Entries)
  BY DEF LedgerInv
<1>2. DOMAIN ledger = 1..Len(ledger) /\ Len(ledger) \in Nat
  BY <1>1
<1>3. IsFiniteSet(DOMAIN ledger)
  <2> HIDE <1>1
  <2> QED
    BY <1>2, FS_Interval
<1>4. ASSUME NEW i \in DOMAIN ledger PROVE IsRow(ledger[i])
  <2> DEFINE e == ledger[i]
  <2>1. e \in Entry
    BY <1>1, EntriesAssumption
  <2> HIDE DEF e
  <2>2. /\ e.type \in {"budget", "actual"} /\ e.period \in Month /\ e.account \in Account
        /\ e.department \in Department /\ e.center \in CostCenter /\ e.amount \in Amount
        /\ e.fiscal_year = fiscal_year_for_date(e.period, StartMonth)
    BY <2>1 DEF Entry, period_in_fiscal_year
  <2>3. IsRow(e)
    BY <2>2, AnalyticsAssumption DEF IsRow
  <2> QED
    BY <2>3 DEF e
<1> QED
  BY <1>3, <1>4

-----------------------------------------------------------------------------
Amounts == [i \in DOMAIN ledger |-> ledger[i].amount]
OfType(rowset, type) == {i \in rowset : ledger[i].type = type}

(* The SUM of a column over a set of rows.                                 *)
LEMMA SumIsOfAmounts ==
  ASSUME LedgerInv, NEW rowset \in SUBSET DOMAIN ledger, NEW type
  PROVE  /\ SumOf(rowset, type) = Total(Amounts, OfType(rowset, type))
         /\ IsFiniteSet(OfType(rowset, type)) /\ IsFiniteSet(rowset)
         /\ \A i \in rowset : Amounts[i] \in Int
         /\ SumOf(rowset, type) \in Int
<1> DEFINE S == OfType(rowset, type)
           f == [i \in S |-> ledger[i].amount]
<1>1. IsFiniteSet(S) /\ IsFiniteSet(rowset) /\ S \subseteq rowset
  BY LedgerRows, FS_Subset DEF OfType
<1>2. \A i \in rowset : Amounts[i] = ledger[i].amount /\ Amounts[i] \in Int
  BY LedgerRows DEF Amounts, IsRow
<1>3. SumOf(rowset, type) = SumFunction(f)
  BY DEF SumOf, OfType
<1>4. DOMAIN f = S /\ \A i \in S : f[i] = Amounts[i]
  BY <1>1, <1>2
<1> HIDE DEF f, S
<1>5. SumFunction(f) = Total(Amounts, S)
  BY <1>1, <1>4, SumOfValues
<1>6. Total(Amounts, S) \in Int
  BY <1>1, <1>2, TotalIsNumber
<1> QED
  BY <1>1, <1>2, <1>3, <1>5, <1>6 DEF S

(* The rows of a query.                                                    *)
LEMMA FilteredRows ==
  ASSUME NEW q
  PROVE  _apply_filters(q) \in SUBSET DOMAIN ledger
BY Zenon DEF _apply_filters

LEMMA SummaryFields ==
  ASSUME NEW q
  PROVE  /\ summary(q).budget = SumOf(_apply_filters(q), "budget")
         /\ summary(q).actual = SumOf(_apply_filters(q), "actual")
         /\ summary(q).variance = summary(q).actual - summary(q).budget
         /\ summary(q).state = VarianceState(summary(q).actual, summary(q).budget)
<1> DEFINE t == totals(q)
<1>1. /\ t.budget = SumOf(_apply_filters(q), "budget")
      /\ t.actual = SumOf(_apply_filters(q), "actual")
  BY DEF totals, _amount_columns
<1>2. summary(q) = compute_variance(t.actual, t.budget, t.types)
  BY DEF summary, build_variance_metrics
<1> HIDE DEF t
<1>3. /\ summary(q).budget = t.budget /\ summary(q).actual = t.actual
      /\ summary(q).variance = t.actual - t.budget
      /\ summary(q).state = VarianceState(t.actual, t.budget)
  BY <1>2 DEF compute_variance
<1> QED
  BY <1>1, <1>3

-----------------------------------------------------------------------------
(* The items of a breakdown                                                *)
Kinds(q, by) == {_group_columns(by, ledger[i]) : i \in _apply_filters(q)}
RowsOf(q, by, g) == {i \in _apply_filters(q) : _group_columns(by, ledger[i]) = g}
ItemOf(q, by, g) ==
  [group |-> g, metrics |-> build_variance_metrics(_amount_columns(RowsOf(q, by, g)))]

LEMMA GroupsAreNumbers ==
  ASSUME LedgerInv, NEW q, NEW by \in Groupings
  PROVE  Kinds(q, by) \subseteq Int /\ IsFiniteSet(Kinds(q, by))
<1> DEFINE rowset == _apply_filters(q)
           kind == [i \in rowset |-> _group_columns(by, ledger[i])]
<1>1. rowset \subseteq DOMAIN ledger /\ IsFiniteSet(rowset)
  BY FilteredRows, LedgerRows, FS_Subset
<1>2. ASSUME NEW i \in rowset PROVE _group_columns(by, ledger[i]) \in Int
  <2>1. IsRow(ledger[i])
    BY <1>1, LedgerRows
  <2> HIDE DEF rowset
  <2> QED
    BY <2>1 DEF IsRow, _group_columns, Groupings
<1>3. Kinds(q, by) = {kind[i] : i \in rowset}
  <2>1. \A i \in rowset : kind[i] = _group_columns(by, ledger[i])
    OBVIOUS
  <2> QED
    BY <2>1, Zenon DEF Kinds
<1>4. IsFiniteSet({kind[i] : i \in rowset})
  <2> HIDE DEF kind, rowset
  <2> QED
    BY <1>1, FiniteImage
<1> QED
  BY <1>2, <1>3, <1>4

LEMMA ItemsOfGroups ==
  ASSUME NEW q, NEW by
  PROVE  _breakdown_items(q, by) = {ItemOf(q, by, g) : g \in Kinds(q, by)}
<1> DEFINE grouped == grouped_totals(q, by)
<1>1. /\ DOMAIN grouped = Kinds(q, by)
      /\ \A g \in Kinds(q, by) : grouped[g] = _amount_columns(RowsOf(q, by, g))
  BY Zenon DEF grouped_totals, Kinds, RowsOf
<1>2. _breakdown_items(q, by)
        = {[group |-> g, metrics |-> build_variance_metrics(grouped[g])] : g \in DOMAIN grouped}
  BY Zenon DEF _breakdown_items
<1> HIDE DEF grouped
<1>3. \A g \in Kinds(q, by) :
        [group |-> g, metrics |-> build_variance_metrics(grouped[g])] = ItemOf(q, by, g)
  BY <1>1, Zenon DEF ItemOf
<1> QED
  BY <1>1, <1>2, <1>3, Zenon

LEMMA ItemFields ==
  ASSUME NEW q, NEW by, NEW g
  PROVE  /\ ItemOf(q, by, g).group = g
         /\ ItemOf(q, by, g).metrics.budget = SumOf(RowsOf(q, by, g), "budget")
         /\ ItemOf(q, by, g).metrics.variance
              = SumOf(RowsOf(q, by, g), "actual") - SumOf(RowsOf(q, by, g), "budget")
         /\ ItemOf(q, by, g).metrics.actual = SumOf(RowsOf(q, by, g), "actual")
<1> DEFINE R == RowsOf(q, by, g)
           t == _amount_columns(R)
           m == build_variance_metrics(t)
<1>1. t.budget = SumOf(R, "budget") /\ t.actual = SumOf(R, "actual")
  BY DEF _amount_columns
<1>2. m = compute_variance(t.actual, t.budget, t.types)
  BY DEF build_variance_metrics
<1>3. ItemOf(q, by, g).group = g /\ ItemOf(q, by, g).metrics = m
  BY DEF ItemOf
<1> HIDE DEF t, m
<1>4. m.budget = t.budget /\ m.actual = t.actual /\ m.variance = t.actual - t.budget
  BY <1>2 DEF compute_variance
<1> QED
  BY <1>1, <1>3, <1>4

LEMMA ItemFavorability ==
  ASSUME NEW q, NEW by, NEW g
  PROVE  ItemOf(q, by, g).metrics.favorability
              = favorability_for_account_types(
                  SumOf(RowsOf(q, by, g), "actual") - SumOf(RowsOf(q, by, g), "budget"),
                  {TypeOf[ledger[i].account] : i \in RowsOf(q, by, g)})
<1> DEFINE R == RowsOf(q, by, g)
           t == _amount_columns(R)
           m == build_variance_metrics(t)
<1>1. /\ t.budget = SumOf(R, "budget") /\ t.actual = SumOf(R, "actual")
      /\ t.types = {TypeOf[ledger[i].account] : i \in R}
  BY DEF _amount_columns
<1>2. m = compute_variance(t.actual, t.budget, t.types)
  BY DEF build_variance_metrics
<1>3. ItemOf(q, by, g).metrics = m
  BY DEF ItemOf
<1> HIDE DEF t, m
<1>4. m.favorability = favorability_for_account_types(t.actual - t.budget, t.types)
  BY <1>2 DEF compute_variance
<1> QED
  BY <1>1, <1>3, <1>4

(* The sum of one type of rows over the groups is that over all.           *)
LEMMA GroupSums ==
  ASSUME LedgerInv, NEW q, NEW by \in Groupings, NEW type
  PROVE  Total([g \in Kinds(q, by) |-> SumOf(RowsOf(q, by, g), type)], Kinds(q, by))
           = SumOf(_apply_filters(q), type)
<1> DEFINE rowset == _apply_filters(q)
           K == Kinds(q, by)
           S == OfType(rowset, type)
           kind == [i \in rowset |-> _group_columns(by, ledger[i])]
           sums == [g \in K |-> SumOf(RowsOf(q, by, g), type)]
           parts == [g \in K |-> Total(Amounts, {i \in S : kind[i] = g})]
<1>1. rowset \in SUBSET DOMAIN ledger
  BY FilteredRows
<1>2. SumOf(rowset, type) = Total(Amounts, S) /\ IsFiniteSet(S) /\ \A i \in rowset : Amounts[i] \in Int
  BY <1>1, SumIsOfAmounts
<1>3. S \subseteq rowset /\ \A i \in S : kind[i] \in K
  BY DEF OfType, Kinds
<1>4. IsFiniteSet(K)
  BY GroupsAreNumbers
<1>5. ASSUME NEW g \in K PROVE sums[g] = parts[g]
  <2>1. RowsOf(q, by, g) \in SUBSET DOMAIN ledger
    BY <1>1 DEF RowsOf
  <2>2. SumOf(RowsOf(q, by, g), type) = Total(Amounts, OfType(RowsOf(q, by, g), type))
    BY <2>1, SumIsOfAmounts
  <2>3. OfType(RowsOf(q, by, g), type) = {i \in S : kind[i] = g}
    BY DEF OfType, RowsOf
  <2> QED
    BY <2>2, <2>3
<1> HIDE DEF rowset, K, S, kind
<1>6. Total(Amounts, S) = Total(parts, K)
  BY <1>2, <1>3, <1>4, TotalOfParts
<1>7. Total(sums, K) = Total(parts, K)
  <2> HIDE DEF sums, parts
  <2> QED
    BY <1>4, <1>5, TotalSame
<1>8. Total(sums, K) = SumOf(rowset, type)
  BY <1>2, <1>6, <1>7
<1> QED
  BY <1>8 DEF rowset, K

(* A sum over the items of a breakdown is one over its groups.             *)
LEMMA ItemSums ==
  ASSUME LedgerInv, NEW q, NEW by \in Groupings, NEW f, NEW h,
         DOMAIN f = _breakdown_items(q, by),
         \A g \in Kinds(q, by) : h[g] = f[ItemOf(q, by, g)] /\ h[g] \in Int
  PROVE  SumFunction(f) = Total(h, Kinds(q, by))
<1> DEFINE K == Kinds(q, by)
           e == [g \in K |-> ItemOf(q, by, g)]
<1>1. IsFiniteSet(K)
  BY GroupsAreNumbers
<1>2. \A k, l \in K : e[k] = e[l] => k = l
  <2>1. \A k \in K : ItemOf(q, by, k).group = k
    BY ItemFields
  <2> QED
    BY <2>1
<1>3. \A k \in K : h[k] = f[e[k]] /\ f[e[k]] \in Int
  OBVIOUS
<1>4. DOMAIN f = {e[k] : k \in K}
  BY ItemsOfGroups
<1> HIDE DEF e, K
<1>5. Total(f, {e[k] : k \in K}) = Total(h, K)
  BY <1>1, <1>2, <1>3, TotalRenamed
<1>6. SumFunction(f) = Total(f, DOMAIN f)
  BY SumIsTotal
<1> QED
  BY <1>4, <1>5, <1>6 DEF K

LEMMA GroupsAdd ==
  ASSUME LedgerInv, NEW q
  PROVE  GroupsAddUp(q)
<1> SUFFICES ASSUME NEW by \in Groupings
             PROVE  LET items == _breakdown_items(q, by)
                    IN /\ SumFunction([x \in items |-> x.metrics.budget]) = summary(q).budget
                       /\ SumFunction([x \in items |-> x.metrics.variance]) = summary(q).variance
  BY DEF GroupsAddUp
<1> DEFINE items == _breakdown_items(q, by)
           K == Kinds(q, by)
           B == [g \in K |-> SumOf(RowsOf(q, by, g), "budget")]
           A == [g \in K |-> SumOf(RowsOf(q, by, g), "actual")]
           V == [g \in K |-> SumOf(RowsOf(q, by, g), "actual") - SumOf(RowsOf(q, by, g), "budget")]
           budgets == [x \in items |-> x.metrics.budget]
           variances == [x \in items |-> x.metrics.variance]
<1>1. ASSUME NEW g \in K
      PROVE  /\ B[g] \in Int /\ A[g] \in Int /\ V[g] = A[g] - B[g]
             /\ B[g] = budgets[ItemOf(q, by, g)] /\ V[g] = variances[ItemOf(q, by, g)]
  <2>1. RowsOf(q, by, g) \in SUBSET DOMAIN ledger
    BY FilteredRows DEF RowsOf
  <2>2. SumOf(RowsOf(q, by, g), "budget") \in Int /\ SumOf(RowsOf(q, by, g), "actual") \in Int
    BY <2>1, SumIsOfAmounts
  <2>3. ItemOf(q, by, g) \in items
    BY ItemsOfGroups
  <2>4. /\ ItemOf(q, by, g).metrics.budget = B[g]
        /\ ItemOf(q, by, g).metrics.variance = V[g]
    <3>1. /\ ItemOf(q, by, g).metrics.budget = SumOf(RowsOf(q, by, g), "budget")
          /\ ItemOf(q, by, g).metrics.variance
               = SumOf(RowsOf(q, by, g), "actual") - SumOf(RowsOf(q, by, g), "budget")
      BY ItemFields
    <3> QED
      BY <3>1
  <2> HIDE DEF items
  <2> QED
    BY <2>2, <2>3, <2>4
<1>2. /\ Total(B, K) = summary(q).budget /\ Total(A, K) = summary(q).actual
      /\ summary(q).variance = summary(q).actual - summary(q).budget
  BY GroupSums, SummaryFields
<1>3. IsFiniteSet(K) /\ DOMAIN budgets = items /\ DOMAIN variances = items
  BY GroupsAreNumbers
<1> HIDE DEF items, K, B, A, V, budgets, variances
<1>4. Total(A, K) = Total(V, K) + Total(B, K)
  <2>1. \A g \in K : V[g] \in Int /\ B[g] \in Int /\ A[g] = V[g] + B[g]
    BY <1>1
  <2> QED
    BY <1>3, <2>1, TotalOfTwo
<1>5. Total(A, K) \in Int /\ Total(V, K) \in Int /\ Total(B, K) \in Int
  <2>1. \A g \in K : V[g] \in Int /\ B[g] \in Int /\ A[g] \in Int
    BY <1>1
  <2> QED
    BY <1>3, <2>1, TotalIsNumber
<1>6. SumFunction(budgets) = Total(B, K)
  BY <1>1, <1>3, ItemSums DEF items, K
<1>7. SumFunction(variances) = Total(V, K)
  <2>1. \A g \in K : V[g] \in Int
    BY <1>1
  <2> QED
    BY <1>1, <1>3, <2>1, ItemSums DEF items, K
<1>8. SumFunction(budgets) = summary(q).budget /\ SumFunction(variances) = summary(q).variance
  BY <1>2, <1>4, <1>5, <1>6, <1>7
<1> QED
  BY <1>8 DEF budgets, variances, items

-----------------------------------------------------------------------------
LEMMA AskedRanges ==
  ASSUME NEW q \in Asked
  PROVE  q.from \in Month /\ q.to \in Month /\ q.from \in Int /\ q.to \in Int
<1>1. PICK months \in {p \in Month \X Month : p[1] <= p[2]},
           fy \in {fiscal_year_for_date(m, StartMonth) : m \in Month}, v \in Version :
        q = AllOf(months, fy, v)
  BY DEF Asked
<1>2. months[1] \in Month /\ months[2] \in Month
  OBVIOUS
<1>3. q.from = months[1] /\ q.to = months[2]
  BY <1>1 DEF AllOf
<1>4. \A m \in Month : m \in Int
  BY AnalyticsAssumption
<1> QED
  BY <1>2, <1>3, <1>4

LEMMA RangesAdd ==
  ASSUME LedgerInv, NEW q \in Asked
  PROVE  RangesAddUp(q)
<1> SUFFICES ASSUME NEW m \in Month, q.from <= m, m < q.to
             PROVE  LET halves == compare_periods([q EXCEPT !.to = m], m + 1, q.to)
                    IN /\ halves.baseline.budget + halves.comparison.budget = summary(q).budget
                       /\ halves.baseline.actual + halves.comparison.actual = summary(q).actual
  BY DEF RangesAddUp
<1> DEFINE q1 == [q EXCEPT !.to = m]
           q2 == [q1 EXCEPT !.from = m + 1, !.to = q.to]
           halves == compare_periods(q1, m + 1, q.to)
           A == _apply_filters(q1)
           B == _apply_filters(q2)
           S == _apply_filters(q)
<1>1. halves.baseline = summary(q1) /\ halves.comparison = summary(q2)
  BY DEF compare_periods
<1>2. m \in Int /\ q.from \in Int /\ q.to \in Int
  BY AskedRanges, AnalyticsAssumption
<1>3. /\ q1.from = q.from /\ q1.to = m /\ q2.from = m + 1 /\ q2.to = q.to
      /\ q1.fiscal_year = q.fiscal_year /\ q2.fiscal_year = q.fiscal_year
      /\ q1.version = q.version /\ q2.version = q.version
      /\ q1.accounts = q.accounts /\ q2.accounts = q.accounts
      /\ q1.departments = q.departments /\ q2.departments = q.departments
      /\ q1.centers = q.centers /\ q2.centers = q.centers
  BY DEF Asked, AllOf
<1> HIDE DEF q1, q2
<1>4. ASSUME NEW i \in DOMAIN ledger
      PROVE  /\ i \in S <=> i \in A \/ i \in B
             /\ ~(i \in A /\ i \in B)
  <2> DEFINE e == ledger[i]
             other == /\ e.fiscal_year = q.fiscal_year
                      /\ e.type = "budget" => e.version = q.version
                      /\ apply_dimensions(e, q)
  <2>1. e.period \in Int
    BY LedgerRows DEF IsRow
  <2>2. apply_dimensions(e, q1) = apply_dimensions(e, q) /\ apply_dimensions(e, q2) = apply_dimensions(e, q)
    BY <1>3 DEF apply_dimensions
  <2>3. i \in S <=> other /\ e.period >= q.from /\ e.period <= q.to
    BY DEF _apply_filters
  <2>4. i \in A <=> other /\ e.period >= q.from /\ e.period <= m
    BY <1>3, <2>2 DEF _apply_filters
  <2>5. i \in B <=> other /\ e.period >= m + 1 /\ e.period <= q.to
    BY <1>3, <2>2 DEF _apply_filters
  <2> HIDE DEF other, S, A, B, e
  <2> QED
    BY <1>2, <2>1, <2>3, <2>4, <2>5
<1>5. S \in SUBSET DOMAIN ledger /\ A \in SUBSET DOMAIN ledger /\ B \in SUBSET DOMAIN ledger
  BY FilteredRows
<1>6. /\ summary(q).budget = SumOf(S, "budget") /\ summary(q).actual = SumOf(S, "actual")
      /\ summary(q1).budget = SumOf(A, "budget") /\ summary(q1).actual = SumOf(A, "actual")
      /\ summary(q2).budget = SumOf(B, "budget") /\ summary(q2).actual = SumOf(B, "actual")
  BY SummaryFields
<1> HIDE DEF S, A, B, halves
<1>7. ASSUME NEW type
      PROVE  SumOf(S, type) = SumOf(A, type) + SumOf(B, type)
  <2>1. /\ OfType(S, type) = OfType(A, type) \cup OfType(B, type)
        /\ OfType(A, type) \cap OfType(B, type) = {}
    BY <1>4, <1>5 DEF OfType
  <2>2. /\ SumOf(S, type) = Total(Amounts, OfType(S, type))
        /\ SumOf(A, type) = Total(Amounts, OfType(A, type)) /\ IsFiniteSet(OfType(A, type))
        /\ SumOf(B, type) = Total(Amounts, OfType(B, type)) /\ IsFiniteSet(OfType(B, type))
        /\ \A i \in A \cup B : Amounts[i] \in Int
    BY <1>5, SumIsOfAmounts
  <2>3. \A i \in OfType(A, type) \cup OfType(B, type) : Amounts[i] \in Int
    BY <2>2 DEF OfType
  <2>4. Total(Amounts, OfType(A, type) \cup OfType(B, type))
          = Total(Amounts, OfType(A, type)) + Total(Amounts, OfType(B, type))
    BY <2>1, <2>2, <2>3, TotalOfUnion
  <2> QED
    BY <2>1, <2>2, <2>4
<1>8. /\ halves.baseline.budget + halves.comparison.budget = summary(q).budget
      /\ halves.baseline.actual + halves.comparison.actual = summary(q).actual
  BY <1>1, <1>6, <1>7
<1> QED
  BY <1>8 DEF halves, q1

-----------------------------------------------------------------------------
LEMMA OtherYears ==
  ASSUME LedgerInv, NEW q \in Asked
  PROVE  OtherYearIsEmpty(q)
<1> SUFFICES ASSUME \A m \in q.from..q.to : ~period_in_fiscal_year(m, q.fiscal_year, StartMonth)
             PROVE  summary(q).state = "no_activity"
  BY DEF OtherYearIsEmpty
<1>1. q.from \in Int /\ q.to \in Int
  BY AskedRanges, AnalyticsAssumption
<1>2. _apply_filters(q) = {}
  <2> SUFFICES ASSUME NEW i \in _apply_filters(q) PROVE FALSE
    OBVIOUS
  <2>1. i \in DOMAIN ledger
    BY FilteredRows
  <2>2. /\ ledger[i].fiscal_year = q.fiscal_year
        /\ ledger[i].period >= q.from /\ ledger[i].period <= q.to
    BY DEF _apply_filters
  <2>3. /\ ledger[i].period \in Int
        /\ ledger[i].fiscal_year = fiscal_year_for_date(ledger[i].period, StartMonth)
    BY <2>1, LedgerRows DEF IsRow
  <2>4. ledger[i].period \in q.from..q.to
    BY <1>1, <2>2, <2>3
  <2>5. ~period_in_fiscal_year(ledger[i].period, q.fiscal_year, StartMonth)
    BY <2>4
  <2> QED
    BY <2>2, <2>3, <2>5 DEF period_in_fiscal_year
<1>3. \A type : SumOf({}, type) = 0
  <2> SUFFICES ASSUME NEW type PROVE SumOf({}, type) = 0
    OBVIOUS
  <2>1. {} \in SUBSET DOMAIN ledger /\ OfType({}, type) = {}
    BY DEF OfType
  <2>2. SumOf({}, type) = Total(Amounts, OfType({}, type))
    BY <2>1, SumIsOfAmounts
  <2> QED
    BY <2>1, <2>2, TotalEmpty
<1> QED
  BY <1>2, <1>3, SummaryFields DEF VarianceState

(* What a breakdown is sorted by.                                          *)
KeyOf(item, sort, direction) ==
  IF direction = "desc" THEN -SortKey(item, sort) ELSE SortKey(item, sort)

Precedes(a, b, sort, direction) ==
  \/ KeyOf(a, sort, direction) < KeyOf(b, sort, direction)
  \/ KeyOf(a, sort, direction) = KeyOf(b, sort, direction) /\ a.group < b.group

LEMMA ItemNumbers ==
  ASSUME LedgerInv, NEW q, NEW by \in Groupings, NEW sort \in Sorts, NEW x \in _breakdown_items(q, by)
  PROVE  x.group \in Int /\ x.metrics.variance \in Int /\ SortKey(x, sort) \in Int
<1>1. PICK g \in Kinds(q, by) : x = ItemOf(q, by, g)
  BY ItemsOfGroups
<1>2. x.group \in Int
  BY <1>1, ItemFields, GroupsAreNumbers
<1>3. RowsOf(q, by, g) \in SUBSET DOMAIN ledger
  BY FilteredRows DEF RowsOf
<1>4. SumOf(RowsOf(q, by, g), "budget") \in Int /\ SumOf(RowsOf(q, by, g), "actual") \in Int
  BY <1>3, SumIsOfAmounts
<1>5. x.metrics.budget \in Int /\ x.metrics.actual \in Int /\ x.metrics.variance \in Int
  BY <1>1, <1>4, ItemFields
<1> QED
  BY <1>2, <1>5 DEF SortKey, Sorts, Magnitude

LEMMA ItemsToldApart ==
  ASSUME NEW q, NEW by, NEW x \in _breakdown_items(q, by), NEW y \in _breakdown_items(q, by),
         x.group = y.group
  PROVE  x = y
<1>1. PICK g \in Kinds(q, by) : x = ItemOf(q, by, g)
  BY ItemsOfGroups
<1>2. PICK h \in Kinds(q, by) : y = ItemOf(q, by, h)
  BY ItemsOfGroups
<1> QED
  BY <1>1, <1>2, ItemFields

(* Sorting a breakdown, or a part of it.                                   *)
SortedBreakdown(o, items, sort, direction) ==
  /\ o \in Seq(items)
  /\ \A i, j \in DOMAIN o : i < j => Precedes(o[i], o[j], sort, direction)
  /\ \A x \in items : \E i \in DOMAIN o : o[i] = x

LEMMA BreakdownSorted ==
  ASSUME LedgerInv, NEW q, NEW by \in Groupings, NEW items \in SUBSET _breakdown_items(q, by),
         NEW sort \in Sorts, NEW direction
  PROVE  SortedBreakdown(sort_breakdown_items(items, sort, direction), items, sort, direction)
<1> DEFINE R == {p \in items \X items : Precedes(p[1], p[2], sort, direction)}
           o == InOrder(items, R)
<1>1. IsFiniteSet(items)
  <2> DEFINE e == [g \in Kinds(q, by) |-> ItemOf(q, by, g)]
  <2>1. IsFiniteSet({e[g] : g \in Kinds(q, by)})
    <3> HIDE DEF e
    <3> QED
      BY GroupsAreNumbers, FiniteImage
  <2>2. {e[g] : g \in Kinds(q, by)} = _breakdown_items(q, by)
    BY ItemsOfGroups
  <2> QED
    BY <2>1, <2>2, FS_Subset
<1>2. sort_breakdown_items(items, sort, direction) = o
  BY Zenon DEF sort_breakdown_items, Precedes, KeyOf
<1>3. \A x, y \in items : <<x, y>> \in R <=> Precedes(x, y, sort, direction)
  OBVIOUS
<1>4. \A x \in items : x.group \in Int /\ KeyOf(x, sort, direction) \in Int
  BY ItemNumbers DEF KeyOf
<1>5. \A x, y \in items : x.group = y.group => x = y
  BY ItemsToldApart
<1> HIDE DEF R
<1>6. IsOrder(items, R)
  <2>1. \A x \in items : <<x, x>> \notin R
    BY <1>3, <1>4 DEF Precedes
  <2>2. \A x, y \in items : x # y => <<x, y>> \in R \/ <<y, x>> \in R
    BY <1>3, <1>4, <1>5 DEF Precedes
  <2>3. \A x, y, z \in items : <<x, y>> \in R /\ <<y, z>> \in R => <<x, z>> \in R
    BY <1>3, <1>4 DEF Precedes
  <2> QED
    BY <2>1, <2>2, <2>3 DEF IsOrder
<1>7. o \in Seq(items) /\ Enumerates(o, items, R)
  BY <1>1, <1>6, ListInOrder
<1> HIDE DEF o
<1>8. \A i, j \in DOMAIN o : i < j => Precedes(o[i], o[j], sort, direction)
  BY <1>3, <1>7 DEF Enumerates, Ascending
<1> QED
  BY <1>2, <1>7, <1>8 DEF Enumerates, SortedBreakdown

LEMMA ReportsSorted ==
  ASSUME LedgerInv, NEW q
  PROVE  SortedAsAsked(q)
<1> SUFFICES ASSUME NEW by \in Groupings, NEW sort \in Sorts, NEW direction \in {"asc", "desc"}
             PROVE  LET items == sort_breakdown_items(_breakdown_items(q, by), sort, direction)
                        k(i) == SortKey(items[i], sort)
                    IN \A i, j \in DOMAIN items :
                         i < j => IF k(i) = k(j) THEN items[i].group < items[j].group
                                  ELSE (k(i) < k(j)) <=> (direction = "asc")
  BY DEF SortedAsAsked
<1> DEFINE all == _breakdown_items(q, by)
           items == sort_breakdown_items(all, sort, direction)
<1>0. SortedBreakdown(items, all, sort, direction)
  BY BreakdownSorted
<1>3. \A x \in all : x.group \in Int /\ SortKey(x, sort) \in Int
  BY ItemNumbers
<1> HIDE DEF all, items
<1>1. items \in Seq(all)
  BY <1>0 DEF SortedBreakdown
<1>2. \A i, j \in DOMAIN items : i < j => Precedes(items[i], items[j], sort, direction)
  BY <1>0 DEF SortedBreakdown
<1>4. ASSUME NEW i \in DOMAIN items, NEW j \in DOMAIN items, i < j
      PROVE  IF SortKey(items[i], sort) = SortKey(items[j], sort)
             THEN items[i].group < items[j].group
             ELSE (SortKey(items[i], sort) < SortKey(items[j], sort)) <=> (direction = "asc")
  <2> DEFINE x == items[i]
             y == items[j]
  <2>1. x \in all /\ y \in all
    BY <1>1
  <2>2. Precedes(x, y, sort, direction)
    BY <1>2, <1>4
  <2> HIDE DEF x, y
  <2>3. IF SortKey(x, sort) = SortKey(y, sort) THEN x.group < y.group
        ELSE (SortKey(x, sort) < SortKey(y, sort)) <=> (direction = "asc")
    BY <1>3, <2>1, <2>2 DEF Precedes, KeyOf
  <2> QED
    BY <2>3 DEF x, y
<1> QED
  BY <1>4, Zenon DEF items, all

-----------------------------------------------------------------------------
(* What the entries of a group did to the profit.                          *)
Effect(type, i) ==
  (IF type = "revenue" THEN 1 ELSE -1)
    * (IF ledger[i].type = "actual" THEN 1 ELSE -1) * ledger[i].amount

LEMMA EffectOfType ==
  ASSUME LedgerInv, NEW rowset \in SUBSET DOMAIN ledger, NEW type \in {"revenue", "expense"},
         NEW f, \A i \in rowset : f[i] = Effect(type, i)
  PROVE  Total(f, rowset) = IF type = "revenue"
                            THEN SumOf(rowset, "actual") - SumOf(rowset, "budget")
                            ELSE SumOf(rowset, "budget") - SumOf(rowset, "actual")
<1> DEFINE A == OfType(rowset, "actual")
           B == OfType(rowset, "budget")
           minus == [i \in rowset |-> -Amounts[i]]
<1>1. /\ SumOf(rowset, "actual") = Total(Amounts, A) /\ IsFiniteSet(A)
      /\ SumOf(rowset, "budget") = Total(Amounts, B) /\ IsFiniteSet(B)
      /\ Total(Amounts, A) \in Int /\ Total(Amounts, B) \in Int
      /\ \A i \in rowset : Amounts[i] \in Int
  BY SumIsOfAmounts
<1>2. \A i \in rowset : /\ ledger[i].type \in {"budget", "actual"}
                        /\ Amounts[i] = ledger[i].amount
  BY LedgerRows DEF IsRow, Amounts
<1>3. A \cup B = rowset /\ A \cap B = {}
  BY <1>2 DEF OfType
<1>4. \A i \in A : f[i] = IF type = "revenue" THEN Amounts[i] ELSE -Amounts[i]
  <2> SUFFICES ASSUME NEW i \in A
               PROVE  f[i] = IF type = "revenue" THEN Amounts[i] ELSE -Amounts[i]
    OBVIOUS
  <2>1. ledger[i].type = "actual" /\ i \in rowset
    BY DEF OfType
  <2>2. f[i] = (IF type = "revenue" THEN 1 ELSE -1) * 1 * Amounts[i] /\ Amounts[i] \in Int
    BY <1>1, <1>2, <2>1 DEF Effect
  <2> QED
    BY <2>2
<1>5. \A i \in B : f[i] = IF type = "revenue" THEN -Amounts[i] ELSE Amounts[i]
  <2> SUFFICES ASSUME NEW i \in B
               PROVE  f[i] = IF type = "revenue" THEN -Amounts[i] ELSE Amounts[i]
    OBVIOUS
  <2>1. ledger[i].type = "budget" /\ i \in rowset
    BY DEF OfType
  <2>2. f[i] = (IF type = "revenue" THEN 1 ELSE -1) * (-1) * Amounts[i] /\ Amounts[i] \in Int
    BY <1>1, <1>2, <2>1 DEF Effect
  <2> QED
    BY <2>2
<1>6. /\ A \subseteq rowset /\ B \subseteq rowset
      /\ \A i \in A : Amounts[i] \in Int /\ f[i] \in Int
      /\ \A i \in B : Amounts[i] \in Int /\ f[i] \in Int
      /\ \A i \in A \cup B : f[i] \in Int
  BY <1>1, <1>3, <1>4, <1>5
<1> HIDE DEF A, B
<1>7. Total(f, A) = IF type = "revenue" THEN Total(Amounts, A) ELSE -Total(Amounts, A)
  <2>1. CASE type = "revenue"
    BY <1>1, <1>4, <2>1, TotalSame
  <2>2. CASE type # "revenue"
    BY <1>1, <1>4, <1>6, <2>2, TotalNegated
  <2> QED
    BY <2>1, <2>2
<1>8. Total(f, B) = IF type = "revenue" THEN -Total(Amounts, B) ELSE Total(Amounts, B)
  <2>1. CASE type = "revenue"
    BY <1>1, <1>5, <1>6, <2>1, TotalNegated
  <2>2. CASE type # "revenue"
    BY <1>1, <1>5, <2>2, TotalSame
  <2> QED
    BY <2>1, <2>2
<1>9. Total(f, A \cup B) = Total(f, A) + Total(f, B)
  BY <1>1, <1>3, <1>6, TotalOfUnion
<1>10. Total(f, rowset) = Total(f, A) + Total(f, B)
  BY <1>3, <1>9
<1>11. \A a, b \in Int : a + (-b) = a - b /\ (-a) + b = b - a
  OBVIOUS
<1>12. CASE type = "revenue"
  <2>1. Total(f, rowset) = Total(Amounts, A) + (-Total(Amounts, B))
    BY <1>7, <1>8, <1>10, <1>12
  <2> QED
    BY <1>1, <1>11, <1>12, <2>1
<1>13. CASE type # "revenue"
  <2>1. Total(f, rowset) = (-Total(Amounts, A)) + Total(Amounts, B)
    BY <1>7, <1>8, <1>10, <1>13
  <2> QED
    BY <1>1, <1>11, <1>13, <2>1
<1> QED
  BY <1>12, <1>13

LEMMA ProfitIsFavorable ==
  ASSUME LedgerInv, NEW q, NEW by \in Groupings
  PROVE  FavorabilityFollowsProfit(q, by)
<1> DEFINE items == _breakdown_items(q, by)
           worst == top_unfavorable(q, by, 1)
           profit(i) == IF TypeOf[ledger[i].account] = "revenue" THEN 1 ELSE -1
           rowset(g) == {i \in _apply_filters(q) : _group_columns(by, ledger[i]) = g}
           effect(g) == SumFunction([i \in rowset(g) |->
                          profit(i) * (IF ledger[i].type = "actual" THEN 1 ELSE -1) * ledger[i].amount])
<1>1. ASSUME NEW x \in items, NEW t \in {"revenue", "expense"},
             {TypeOf[ledger[i].account] : i \in rowset(x.group)} = {t}
      PROVE  x.metrics.favorability = IF effect(x.group) = 0 THEN "neutral"
                                      ELSE IF effect(x.group) > 0 THEN "favorable"
                                      ELSE "unfavorable"
  <2>1. PICK g \in Kinds(q, by) : x = ItemOf(q, by, g)
    BY ItemsOfGroups
  <2>0. x.group = g
    BY <2>1, ItemFields
  <2> DEFINE S == RowsOf(q, by, g)
             v == SumOf(S, "actual") - SumOf(S, "budget")
             f == [i \in S |->
                     profit(i) * (IF ledger[i].type = "actual" THEN 1 ELSE -1) * ledger[i].amount]
  <2>2. S = rowset(g)
    BY DEF RowsOf
  <2>3. S \in SUBSET DOMAIN ledger
    BY FilteredRows DEF RowsOf
  <2>4. {TypeOf[ledger[i].account] : i \in S} = {t}
    BY <1>1, <2>0, <2>2, Zenon
  <2>5. x.metrics.favorability = favorability_for_account_types(v, {t})
    <3>1. x.metrics.favorability
            = favorability_for_account_types(v, {TypeOf[ledger[i].account] : i \in S})
      BY <2>1, ItemFavorability, Zenon
    <3> QED
      BY <2>4, <3>1, Zenon
  <2>6. SumOf(S, "actual") \in Int /\ SumOf(S, "budget") \in Int /\ IsFiniteSet(S)
    BY <2>3, SumIsOfAmounts
  <2>7. \A i \in S : TypeOf[ledger[i].account] = t
    BY <2>4
  <2>8. \A i \in S : f[i] = Effect(t, i)
    BY <2>7 DEF Effect
  <2>9. effect(g) = SumFunction(f) /\ DOMAIN f = S
    BY <2>2, Zenon
  <2>10. Cardinality({t}) = 1 /\ (CHOOSE z \in {t} : TRUE) = t
    BY FS_Singleton
  <2> HIDE DEF f, S
  <2>11. Total(f, S) = IF t = "revenue" THEN SumOf(S, "actual") - SumOf(S, "budget")
                       ELSE SumOf(S, "budget") - SumOf(S, "actual")
    BY <2>3, <2>8, EffectOfType
  <2>12. effect(g) = IF t = "revenue" THEN v ELSE -v
    <3>1. effect(g) = Total(f, S)
      BY <2>9, SumIsTotal
    <3> HIDE DEF effect
    <3> QED
      BY <2>6, <2>11, <3>1
  <2>13. v \in Int
    BY <2>6
  <2>14. favorability_for_account_types(v, {t}) = IF v = 0 THEN "neutral" ELSE classify_favorability(v, t)
    BY <2>10, Zenon DEF favorability_for_account_types
  <2> HIDE DEF v, effect
  <2>15. x.metrics.favorability = IF effect(g) = 0 THEN "neutral"
                                  ELSE IF effect(g) > 0 THEN "favorable" ELSE "unfavorable"
    <3>1. CASE t = "revenue"
      BY <2>5, <2>12, <2>13, <2>14, <3>1 DEF classify_favorability
    <3>2. CASE t = "expense"
      BY <2>5, <2>12, <2>13, <2>14, <3>2 DEF classify_favorability
    <3> QED
      BY <3>1, <3>2
  <2> QED
    BY <2>0, <2>15
<1>2. ASSUME NEW x \in items, x.metrics.favorability = "unfavorable"
      PROVE  Magnitude(x.metrics.variance) <= Magnitude(worst[1].metrics.variance)
  <2> DEFINE bad == {y \in items : y.metrics.favorability = "unfavorable"}
             sorted == sort_breakdown_items(bad, "absolute_variance", "desc")
  <2>1. bad \in SUBSET items /\ x \in bad
    BY <1>2
  <2>2. worst = SubSeq(sorted, 1, IF Len(sorted) > 1 THEN 1 ELSE Len(sorted))
    BY Zenon DEF top_unfavorable
  <2>3. /\ sorted \in Seq(bad)
        /\ \A i, j \in DOMAIN sorted :
             i < j => Precedes(sorted[i], sorted[j], "absolute_variance", "desc")
        /\ \E i \in DOMAIN sorted : sorted[i] = x
    <3>1. "absolute_variance" \in Sorts
      BY DEF Sorts
    <3>2. bad \in SUBSET _breakdown_items(q, by)
      OBVIOUS
    <3> HIDE DEF bad
    <3>3. SortedBreakdown(sorted, bad, "absolute_variance", "desc")
      BY <3>1, <3>2, BreakdownSorted
    <3> HIDE DEF sorted
    <3> QED
      BY <2>1, <3>3 DEF SortedBreakdown
  <2> HIDE DEF sorted
  <2>4. PICK i \in DOMAIN sorted : sorted[i] = x
    BY <2>3
  <2>5. 1 \in DOMAIN sorted /\ i \in Nat /\ (i = 1 \/ 1 < i) /\ sorted[1] \in bad
    BY <2>3
  <2>6. worst[1] = sorted[1]
    BY <2>2, <2>3, <2>5
  <2>7. sorted[1] \in items /\ sorted[1].metrics.variance \in Int /\ x.metrics.variance \in Int
    <3>1. "absolute_variance" \in Sorts
      BY DEF Sorts
    <3> QED
      BY <2>1, <2>5, <3>1, ItemNumbers
  <2>8. i = 1 \/ Precedes(sorted[1], x, "absolute_variance", "desc")
    BY <2>3, <2>4, <2>5
  <2>9. Magnitude(x.metrics.variance) <= Magnitude(sorted[1].metrics.variance)
    <3>1. CASE i = 1
      BY <2>4, <2>7, <3>1 DEF Magnitude
    <3>2. CASE Precedes(sorted[1], x, "absolute_variance", "desc")
      BY <2>7, <3>2 DEF Precedes, KeyOf, SortKey, Magnitude
    <3> QED
      BY <2>8, <3>1, <3>2
  <2> QED
    BY <2>6, <2>9
<1>3. /\ \A x \in items :
           (\E t \in {"revenue", "expense"} :
              {TypeOf[ledger[i].account] : i \in rowset(x.group)} = {t}) =>
             x.metrics.favorability = IF effect(x.group) = 0 THEN "neutral"
                                      ELSE IF effect(x.group) > 0 THEN "favorable"
                                      ELSE "unfavorable"
      /\ \A x \in items : x.metrics.favorability = "unfavorable" =>
           Magnitude(x.metrics.variance) <= Magnitude(worst[1].metrics.variance)
  <2> HIDE DEF items, worst, effect, rowset
  <2> QED
    BY <1>1, <1>2, Zenon
<1> QED
  BY <1>3, Zenon DEF FavorabilityFollowsProfit

(* Every report agrees with every other about the same rows, for every     *)
(* ledger (SqlAnalyticsRepository, AnalyticsService).                      *)
THEOREM ReportsAgree == LedgerSpec => []ReportsAddUp
<1>1. LedgerInv => ReportsAddUp
  <2> SUFFICES ASSUME LedgerInv, NEW q \in Asked
               PROVE  /\ GroupsAddUp(q) /\ RangesAddUp(q) /\ OtherYearIsEmpty(q) /\ SortedAsAsked(q)
                      /\ FavorabilityFollowsProfit(q, "account")
                      /\ FavorabilityFollowsProfit(q, "department")
    BY Zenon DEF ReportsAddUp
  <2>1. "account" \in Groupings /\ "department" \in Groupings
    BY DEF Groupings
  <2> QED
    BY <2>1, GroupsAdd, RangesAdd, OtherYears, ReportsSorted, ProfitIsFavorable
<1> QED
  BY <1>1, LedgerInvariant, PTL

-----------------------------------------------------------------------------
(* What a rule makes of an amount is an amount.                            *)
LEMMA RoundedIsNumber ==
  ASSUME NEW n \in Int, NEW d \in Nat \ {0}
  PROVE  RoundHalfEven(n, d) \in Int
<1>1. n \div d \in Int
  BY Division
<1> QED
  BY <1>1 DEF RoundHalfEven

IsNumber(x) == x.n \in Int /\ x.d \in Nat \ {0}

LEMMA RuleGivesAmount ==
  ASSUME NEW amount \in Int, NEW rule, IsNumber(rule.value)
  PROVE  apply_rule(amount, rule) \in Int
<1> DEFINE x == rule.value
           ratio == parse_ratio(x)
           quantized == RoundHalfEven(x.n * MoneyUnit, x.d)
<1>1. x.n \in Int /\ x.d \in Nat \ {0} /\ RatioUnit \in Nat \ {0} /\ MoneyUnit \in Nat \ {0}
  BY MoneyAssumption DEF IsNumber
<1> HIDE DEF x
<1>2. \A a, b \in Int : a * b \in Int /\ a * (RatioUnit + b) \in Int
  BY <1>1
<1>3. ratio \in Int /\ quantized \in Int
  BY <1>1, <1>2, RoundedIsNumber DEF parse_ratio
<1> HIDE DEF ratio, quantized
<1>4. apply_percentage(amount, ratio) \in Int
  BY <1>1, <1>2, <1>3, RoundedIsNumber DEF apply_percentage
<1>5. MoneyAmount(x).value \in Int
  <2>1. MoneyAmount(x) = CASE Magnitude(quantized) > DecimalMax -> Error("decimal.InvalidOperation")
                           [] /\ Magnitude(quantized) <= DecimalMax
                              /\ Magnitude(quantized) > MoneyMax -> Error("AMOUNT_OUT_OF_RANGE")
                           [] OTHER -> Value(quantized)
    BY DEF MoneyAmount, quantized
  <2>2. Error("decimal.InvalidOperation").value = 0 /\ Error("AMOUNT_OUT_OF_RANGE").value = 0
    BY DEF Error
  <2>3. Value(quantized).value = quantized
    BY DEF Value
  <2>4. \/ MoneyAmount(x) = Error("decimal.InvalidOperation")
        \/ MoneyAmount(x) = Error("AMOUNT_OUT_OF_RANGE")
        \/ MoneyAmount(x) = Value(quantized)
    <3> DEFINE P == Magnitude(quantized) > DecimalMax
               Q == Magnitude(quantized) <= DecimalMax /\ Magnitude(quantized) > MoneyMax
    <3>1. MoneyAmount(x) = CASE P -> Error("decimal.InvalidOperation")
                             [] Q -> Error("AMOUNT_OUT_OF_RANGE")
                             [] OTHER -> Value(quantized)
      BY <2>1, Zenon
    <3>2. ~(P /\ Q)
      BY <1>3, MoneyAssumption DEF Magnitude
    <3> HIDE DEF P, Q
    <3> QED
      BY <3>1, <3>2
  <2> QED
    BY <1>3, <2>2, <2>3, <2>4
<1> QED
  BY <1>4, <1>5 DEF apply_rule, x, ratio

-----------------------------------------------------------------------------
(* Applying rules in the order of their sequence                           *)
SequenceOrder(list) ==
  {p \in (DOMAIN list) \X (DOMAIN list) :
     \/ list[p[1]].sequence < list[p[2]].sequence
     \/ list[p[1]].sequence = list[p[2]].sequence /\ p[1] < p[2]}

(* Rules at positions.                                                     *)
AreRules(list) ==
  /\ IsFiniteSet(DOMAIN list) /\ DOMAIN list \subseteq Int
  /\ \A i \in DOMAIN list : list[i].sequence \in Int

SequencedBy(list, o) ==
  /\ Enumerates(o, DOMAIN list, SequenceOrder(list))
  /\ DOMAIN InSequence(list) = 1..Cardinality(DOMAIN list)
  /\ \A k \in 1..Cardinality(DOMAIN list) : InSequence(list)[k] = list[o[k]]

LEMMA SequencesAreOrder ==
  ASSUME NEW list, AreRules(list)
  PROVE  IsOrder(DOMAIN list, SequenceOrder(list))
<1> DEFINE D == DOMAIN list
           s == [i \in D |-> list[i].sequence]
           R == SequenceOrder(list)
<1>1. D \subseteq Int /\ \A i \in D : s[i] \in Int
  BY DEF AreRules
<1>2. \A i, j \in D : <<i, j>> \in R <=> s[i] < s[j] \/ (s[i] = s[j] /\ i < j)
  BY DEF SequenceOrder
<1> HIDE DEF D, s, R
<1>3. \A i \in D : <<i, i>> \notin R
  BY <1>1, <1>2
<1>4. \A i, j \in D : i # j => <<i, j>> \in R \/ <<j, i>> \in R
  BY <1>1, <1>2
<1>5. \A i, j, k \in D : <<i, j>> \in R /\ <<j, k>> \in R => <<i, k>> \in R
  BY <1>1, <1>2
<1>6. IsOrder(D, R)
  BY <1>3, <1>4, <1>5 DEF IsOrder
<1> QED
  BY <1>6 DEF D, R

LEMMA RulesSequenced ==
  ASSUME NEW list, AreRules(list)
  PROVE  \E o : SequencedBy(list, o)
<1> DEFINE o == InOrder(DOMAIN list, SequenceOrder(list))
<1>1. Enumerates(o, DOMAIN list, SequenceOrder(list))
  BY SequencesAreOrder, ListInOrder DEF AreRules
<1>2. InSequence(list) = [k \in DOMAIN o |-> list[o[k]]]
  BY Zenon DEF InSequence, SequenceOrder
<1> HIDE DEF o
<1>3. DOMAIN o = 1..Cardinality(DOMAIN list)
  BY <1>1 DEF Enumerates
<1>4. SequencedBy(list, o)
  BY <1>1, <1>2, <1>3 DEF SequencedBy
<1> QED
  BY <1>4

RulesRunOf(run, amount, list, n) ==
  /\ run[0] = amount
  /\ \A k \in 1..n : run[k] = apply_rule(run[k - 1], list[k])
  /\ FoldLeft(apply_rule, amount, list) = run[n]

LEMMA RulesRun ==
  ASSUME NEW amount, NEW list, NEW n \in Nat, DOMAIN list = 1..n
  PROVE  \E run : RulesRunOf(run, amount, list, n)
<1> DEFINE Folded(f) == f = [S \in SUBSET DOMAIN list |->
                               IF S = {} THEN amount
                               ELSE apply_rule(f[S \ {Max(S)}], list[Max(S)])]
           g == CHOOSE f : Folded(f)
<1>1. PICK f : FoldsSubsets(f, "rules", amount, list, 0, n)
  BY SubsetsFolded
<1>2. ASSUME NEW h
      PROVE  FoldsSubsets(h, "rules", amount, list, 0, n) <=> Folded(h)
  <2>1. \A S \in SUBSET (1..n) : FoldStep("rules", h[S \ {Max(S)}], Max(S), list, 0)
                                   = apply_rule(h[S \ {Max(S)}], list[Max(S)])
    BY Zenon DEF FoldStep
  <2>2. [S \in SUBSET (1..n) |-> IF S = {} THEN amount
                                 ELSE FoldStep("rules", h[S \ {Max(S)}], Max(S), list, 0)]
          = [S \in SUBSET DOMAIN list |-> IF S = {} THEN amount
                                          ELSE apply_rule(h[S \ {Max(S)}], list[Max(S)])]
    BY <2>1, Zenon
  <2> QED
    BY <2>2, Zenon DEF FoldsSubsets
<1>3. \A h : FoldsSubsets(h, "rules", amount, list, 0, n) <=> Folded(h)
  BY <1>2, Zenon
<1>4. FoldLeft(apply_rule, amount, list) = g[DOMAIN list]
  BY Zenon DEF FoldLeft, MapThenFoldSet
<1>5. FoldsSubsets(g, "rules", amount, list, 0, n)
  <2>1. Folded(g)
    BY <1>1, <1>3, Zenon
  <2> QED
    BY <1>3, <2>1, Zenon
<1> HIDE DEF g
<1> DEFINE run == [k \in 0..n |-> g[1..k]]
<1>6. IsRun(run, "rules", amount, list, 0, n)
  BY <1>5, FoldRuns
<1>7. run[n] = g[1..n]
  OBVIOUS
<1> HIDE DEF run
<1> QED
  BY <1>4, <1>6, <1>7, Zenon DEF IsRun, FoldStep, RulesRunOf

(* Lists of rules that change every amount alike.                          *)
SameEffects(list, other, n) ==
  /\ n \in Nat /\ DOMAIN list = 1..n /\ DOMAIN other = 1..n
  /\ \A k \in 1..n : \A a \in Int : /\ apply_rule(a, list[k]) \in Int
                                     /\ apply_rule(a, other[k]) = apply_rule(a, list[k])

LEMMA SameFold ==
  ASSUME NEW amount \in Int, NEW list, NEW other, NEW n, SameEffects(list, other, n)
  PROVE  /\ FoldLeft(apply_rule, amount, list) \in Int
         /\ FoldLeft(apply_rule, amount, other) = FoldLeft(apply_rule, amount, list)
<1>0. /\ n \in Nat /\ DOMAIN list = 1..n /\ DOMAIN other = 1..n
      /\ \A k \in 1..n : \A a \in Int : /\ apply_rule(a, list[k]) \in Int
                                         /\ apply_rule(a, other[k]) = apply_rule(a, list[k])
  BY DEF SameEffects
<1>1. PICK run : RulesRunOf(run, amount, list, n)
  BY <1>0, RulesRun
<1>2. PICK run2 : RulesRunOf(run2, amount, other, n)
  BY <1>0, RulesRun
<1> DEFINE Good == {k \in Nat : k \in 0..n => run[k] \in Int /\ run2[k] = run[k]}
<1>3. 0 \in Good
  BY <1>0, <1>1, <1>2 DEF RulesRunOf
<1>4. ASSUME NEW k \in Nat, k \in Good PROVE k + 1 \in Good
  <2> SUFFICES ASSUME k + 1 \in 0..n PROVE run[k + 1] \in Int /\ run2[k + 1] = run[k + 1]
    OBVIOUS
  <2>1. k + 1 \in 1..n /\ (k + 1) - 1 = k /\ k \in 0..n
    BY <1>0
  <2>2. run[k] \in Int /\ run2[k] = run[k]
    BY <1>4, <2>1
  <2>3. run[k + 1] = apply_rule(run[k], list[k + 1]) /\ run2[k + 1] = apply_rule(run2[k], other[k + 1])
    BY <1>1, <1>2, <2>1 DEF RulesRunOf
  <2> QED
    BY <1>0, <2>1, <2>2, <2>3
<1>5. n \in Good
  <2>1. Nat \subseteq Good
    <3> HIDE DEF Good
    <3> QED
      BY <1>3, <1>4, NaturalsOneByOne
  <2> QED
    BY <1>0, <2>1
<1>6. run[n] \in Int /\ run2[n] = run[n]
  BY <1>0, <1>5
<1> QED
  BY <1>1, <1>2, <1>6 DEF RulesRunOf

-----------------------------------------------------------------------------
(* The rules that match a grain                                            *)
MatchingAt(list, grain) == {i \in DOMAIN list : rule_applies(list[i], grain)}

LEMMA MatchingRules ==
  ASSUME NEW list, NEW grain
  PROVE  /\ DOMAIN _matching_rules(list, grain) = MatchingAt(list, grain)
         /\ \A i \in MatchingAt(list, grain) : _matching_rules(list, grain)[i] = list[i]
<1>1. _matching_rules(list, grain) = [i \in MatchingAt(list, grain) |-> list[i]]
  BY Zenon DEF _matching_rules, RestrictDomain, Restrict, MatchingAt
<1> QED
  BY <1>1

(* A list as a user writes it: what Result needs of its rules.             *)
WrittenRules(list) ==
  /\ DOMAIN list = 1..Len(list) /\ Len(list) \in Nat
  /\ \A i \in DOMAIN list : list[i] \in Rule /\ list[i].sequence \in Int /\ IsNumber(list[i].value)

LEMMA UptoIsFinite ==
  ASSUME NEW n \in Nat
  PROVE  IsFiniteSet(1..n) /\ Cardinality(1..n) = n
BY FS_Interval

LEMMA MatchingAreRules ==
  ASSUME NEW list, WrittenRules(list), NEW grain
  PROVE  /\ AreRules(_matching_rules(list, grain))
         /\ \A i \in DOMAIN _matching_rules(list, grain) :
              IsNumber(_matching_rules(list, grain)[i].value)
<1> DEFINE M == _matching_rules(list, grain)
           D == MatchingAt(list, grain)
<1>1. DOMAIN M = D /\ \A i \in D : M[i] = list[i]
  BY MatchingRules
<1>2. D \subseteq DOMAIN list /\ DOMAIN list = 1..Len(list) /\ Len(list) \in Nat
  BY DEF MatchingAt, WrittenRules
<1>3. IsFiniteSet(D)
  <2>1. IsFiniteSet(1..Len(list))
    BY <1>2, UptoIsFinite
  <2> QED
    BY <1>2, <2>1, FS_Subset
<1>4. \A i \in D : list[i].sequence \in Int /\ IsNumber(list[i].value)
  BY <1>2 DEF WrittenRules
<1> HIDE DEF M, D
<1>5. D \subseteq Int
  BY <1>2
<1> QED
  BY <1>1, <1>3, <1>4, <1>5 DEF AreRules, M

(* The result of a grain is an amount, and its own one if no rule matches. *)
LEMMA ResultIsAmount ==
  ASSUME NEW list, WrittenRules(list), NEW grain, grain.amount \in Int
  PROVE  /\ Result(grain, list) \in Int
         /\ MatchingAt(list, grain) = {} => Result(grain, list) = grain.amount
<1> DEFINE M == _matching_rules(list, grain)
           D == DOMAIN M
           n == Cardinality(D)
           s == InSequence(M)
<1>1. AreRules(M) /\ \A i \in D : IsNumber(M[i].value)
  BY MatchingAreRules
<1>2. PICK o : SequencedBy(M, o)
  BY <1>1, RulesSequenced
<1>3. n \in Nat
  BY <1>1, FS_CardinalityType DEF AreRules
<1>4. DOMAIN s = 1..n /\ \A k \in 1..n : s[k] = M[o[k]] /\ o[k] \in D
  BY <1>2 DEF SequencedBy, Enumerates
<1>5. Result(grain, list) = FoldLeft(apply_rule, grain.amount, s)
  BY Zenon DEF Result, apply_scenario_rules
<1>6. MatchingAt(list, grain) = {} => n = 0
  BY MatchingRules, FS_EmptySet
<1> HIDE DEF M, D, n, s
<1>7. \A k \in 1..n : \A a \in Int : apply_rule(a, s[k]) \in Int
  BY <1>1, <1>4, RuleGivesAmount
<1>8. FoldLeft(apply_rule, grain.amount, s) \in Int
  <2>1. SameEffects(s, s, n)
    BY <1>3, <1>4, <1>7 DEF SameEffects
  <2> QED
    BY <2>1, SameFold
<1>9. PICK run : RulesRunOf(run, grain.amount, s, n)
  BY <1>3, <1>4, RulesRun
<1>10. n = 0 => FoldLeft(apply_rule, grain.amount, s) = grain.amount
  BY <1>9 DEF RulesRunOf
<1> QED
  BY <1>5, <1>6, <1>8, <1>10

(* What a saved rule is read back as.                                      *)
ReadBack(r) ==
  [r EXCEPT !.value = [n |-> RoundHalfUp(@.n * RatioUnit, @.d), d |-> RatioUnit]]

LEMMA ReadBackFields ==
  ASSUME NEW r \in Rule
  PROVE  /\ ReadBack(r).sequence = r.sequence
         /\ \A grain : rule_applies(ReadBack(r), grain) <=> rule_applies(r, grain)
<1>1. /\ ReadBack(r).sequence = r.sequence /\ ReadBack(r).from = r.from /\ ReadBack(r).to = r.to
      /\ ReadBack(r).accounts = r.accounts /\ ReadBack(r).departments = r.departments
      /\ ReadBack(r).centers = r.centers
  BY DEF ReadBack, Rule
<1> QED
  BY <1>1, Zenon DEF rule_applies, apply_dimensions

LEMMA SavedRules ==
  ASSUME NEW list, WrittenRules(list), NEW o, SequencedBy(list, o)
  PROVE  /\ DOMAIN saved(list) = 1..Len(list)
         /\ \A k \in 1..Len(list) : /\ saved(list)[k] = ReadBack(list[o[k]])
                                    /\ o[k] \in 1..Len(list)
<1>1. Cardinality(DOMAIN list) = Len(list)
  BY UptoIsFinite DEF WrittenRules
<1>2. DOMAIN list = 1..Len(list)
  BY DEF WrittenRules
<1>3. \A k \in 1..Len(list) : InSequence(list)[k] = list[o[k]] /\ o[k] \in DOMAIN list
  BY <1>1, <1>2 DEF SequencedBy, Enumerates
<1>4. saved(list) = [k \in DOMAIN list |-> ReadBack(InSequence(list)[k])]
  BY Zenon DEF saved, ReadBack
<1> QED
  BY <1>2, <1>3, <1>4

(* The saved rules that match a grain are those of the list, one by one.   *)
LEMMA SavedMatching ==
  ASSUME NEW list, WrittenRules(list), NEW o, SequencedBy(list, o), NEW grain
  PROVE  /\ MatchingAt(saved(list), grain) = {k \in 1..Len(list) : o[k] \in MatchingAt(list, grain)}
         /\ IsFiniteSet(MatchingAt(saved(list), grain))
         /\ Cardinality(MatchingAt(saved(list), grain)) = Cardinality(MatchingAt(list, grain))
<1> DEFINE n == Len(list)
           M == MatchingAt(list, grain)
           L == MatchingAt(saved(list), grain)
           f == [k \in L |-> o[k]]
<1>1. n \in Nat /\ DOMAIN list = 1..n /\ M \subseteq 1..n /\ \A k \in 1..n : list[k] \in Rule
  BY DEF WrittenRules, MatchingAt
<1>2. DOMAIN saved(list) = 1..n /\ \A k \in 1..n : saved(list)[k] = ReadBack(list[o[k]]) /\ o[k] \in 1..n
  BY SavedRules
<1>3. ASSUME NEW k \in 1..n
      PROVE  rule_applies(saved(list)[k], grain) <=> o[k] \in M
  <2>1. o[k] \in 1..n /\ saved(list)[k] = ReadBack(list[o[k]]) /\ list[o[k]] \in Rule
    BY <1>1, <1>2
  <2>2. rule_applies(ReadBack(list[o[k]]), grain) <=> rule_applies(list[o[k]], grain)
    BY <2>1, ReadBackFields
  <2>3. o[k] \in M <=> rule_applies(list[o[k]], grain)
    BY <1>1, <2>1, Zenon DEF MatchingAt
  <2> QED
    BY <2>1, <2>2, <2>3, Zenon
<1>4. L = {k \in 1..n : o[k] \in M}
  <2>1. L = {k \in 1..n : rule_applies(saved(list)[k], grain)}
    BY <1>2, Zenon DEF MatchingAt
  <2> HIDE DEF L, M
  <2> QED
    BY <1>3, <2>1
<1>5. IsFiniteSet(L) /\ IsFiniteSet(M)
  <2>1. IsFiniteSet(1..n)
    BY <1>1, UptoIsFinite
  <2> QED
    BY <1>1, <1>4, <2>1, FS_Subset
<1>6. /\ \A i, j \in 1..n : o[i] = o[j] => i = j
      /\ \A x \in 1..n : \E i \in 1..n : o[i] = x
  <2>1. Cardinality(DOMAIN list) = n
    BY <1>1, UptoIsFinite
  <2> QED
    BY <1>1, <2>1 DEF SequencedBy, Enumerates
<1> HIDE DEF n, M, L
<1>7. f \in Bijection(L, M)
  <2>1. f \in [L -> M] /\ \A i, j \in L : f[i] = f[j] => i = j
    BY <1>4, <1>6
  <2>2. \A x \in M : \E i \in L : f[i] = x
    BY <1>1, <1>4, <1>6
  <2> HIDE DEF f
  <2> QED
    BY <2>1, <2>2 DEF Bijection, Injection, Surjection, IsInjective
<1>8. Cardinality(L) = Cardinality(M)
  <2> HIDE DEF f
  <2> QED
    BY <1>5, <1>7, FS_Bijection DEF ExistsBijection
<1> QED
  BY <1>4, <1>5, <1>8 DEF n, M, L

(* They are applied in the same order.                                     *)
RuleByRule(s, t, n, list) ==
  /\ n \in Nat /\ DOMAIN s = 1..n /\ DOMAIN t = 1..n
  /\ \A k \in 1..n : \E i \in DOMAIN list : s[k] = list[i] /\ t[k] = ReadBack(list[i])

LEMMA SavedSequence ==
  ASSUME NEW list, WrittenRules(list), NEW grain
  PROVE  RuleByRule(InSequence(_matching_rules(list, grain)),
                    InSequence(_matching_rules(saved(list), grain)),
                    Cardinality(MatchingAt(list, grain)), list)
<1> DEFINE rulesM == _matching_rules(list, grain)
           rulesL == _matching_rules(saved(list), grain)
           atM == MatchingAt(list, grain)
           atL == MatchingAt(saved(list), grain)
           n == Cardinality(atM)
<1>1. PICK o : SequencedBy(list, o)
  <2>1. AreRules(list)
    <3>1. DOMAIN list = 1..Len(list) /\ Len(list) \in Nat
      BY DEF WrittenRules
    <3>2. IsFiniteSet(DOMAIN list) /\ DOMAIN list \subseteq Int
      BY <3>1, UptoIsFinite
    <3> QED
      BY <3>2 DEF AreRules, WrittenRules
  <2> QED
    BY <2>1, RulesSequenced
<1>2. /\ atL = {k \in 1..Len(list) : o[k] \in atM} /\ Cardinality(atL) = n /\ IsFiniteSet(atL)
  BY <1>1, SavedMatching
<1>3. /\ DOMAIN rulesM = atM /\ \A i \in atM : rulesM[i] = list[i]
      /\ DOMAIN rulesL = atL /\ \A i \in atL : rulesL[i] = saved(list)[i]
  BY MatchingRules
<1>4. AreRules(rulesM)
  BY MatchingAreRules
<1>5. /\ atM \subseteq DOMAIN list /\ DOMAIN list = 1..Len(list) /\ Len(list) \in Nat
      /\ \A i \in DOMAIN list : list[i] \in Rule /\ list[i].sequence \in Int
      /\ IsFiniteSet(atM)
  BY <1>3, <1>4 DEF WrittenRules, MatchingAt, AreRules
<1>6. /\ \A k \in 1..Len(list) : saved(list)[k] = ReadBack(list[o[k]]) /\ o[k] \in DOMAIN list
  BY <1>1, <1>5, SavedRules
<1>7. \A k \in atL : /\ rulesL[k] = ReadBack(list[o[k]]) /\ o[k] \in atM /\ k \in 1..Len(list)
                     /\ rulesL[k].sequence = list[o[k]].sequence
  <2> SUFFICES ASSUME NEW k \in atL
               PROVE  /\ rulesL[k] = ReadBack(list[o[k]]) /\ o[k] \in atM /\ k \in 1..Len(list)
                      /\ rulesL[k].sequence = list[o[k]].sequence
    OBVIOUS
  <2> HIDE DEF rulesM, rulesL, atM, atL
  <2>1. k \in 1..Len(list) /\ o[k] \in atM /\ rulesL[k] = ReadBack(list[o[k]]) /\ list[o[k]] \in Rule
    BY <1>2, <1>3, <1>5, <1>6
  <2>2. ReadBack(list[o[k]]).sequence = list[o[k]].sequence
    BY <2>1, ReadBackFields
  <2> QED
    BY <2>1, <2>2
<1>8. AreRules(rulesL)
  <2> HIDE DEF rulesM, rulesL, atM, atL
  <2>1. atL \subseteq Int
    BY <1>2
  <2>2. \A k \in atL : rulesL[k].sequence \in Int
    BY <1>5, <1>7
  <2> QED
    BY <1>2, <1>3, <2>1, <2>2 DEF AreRules
<1>9. PICK p : SequencedBy(rulesM, p)
  BY <1>4, RulesSequenced
<1>10. PICK s : SequencedBy(rulesL, s)
  BY <1>8, RulesSequenced
<1> DEFINE c == [j \in 1..n |-> o[s[j]]]
           R == SequenceOrder(rulesM)
<1>11. n \in Nat
  BY <1>5, FS_CardinalityType
<1>12. /\ DOMAIN InSequence(rulesM) = 1..n /\ DOMAIN InSequence(rulesL) = 1..n
       /\ \A k \in 1..n : InSequence(rulesM)[k] = rulesM[p[k]] /\ InSequence(rulesL)[k] = rulesL[s[k]]
       /\ \A k \in 1..n : s[k] \in atL
       /\ \A i, j \in 1..n : i < j => <<s[i], s[j]>> \in SequenceOrder(rulesL)
       /\ Enumerates(p, atM, R)
  <2> HIDE DEF rulesM, rulesL, atM, atL
  <2> QED
    BY <1>2, <1>3, <1>9, <1>10 DEF SequencedBy, Enumerates, Ascending
<1>13. \A i, j \in 1..Len(list) : i < j => <<o[i], o[j]>> \in SequenceOrder(list)
  <2>1. Cardinality(DOMAIN list) = Len(list)
    BY <1>5, UptoIsFinite
  <2> QED
    BY <1>1, <1>5, <2>1 DEF SequencedBy, Enumerates, Ascending
<1>14. c \in [1..n -> atM]
  <2> HIDE DEF rulesM, rulesL, atM, atL, n
  <2> QED
    BY <1>7, <1>12
<1>15. ASSUME NEW i \in 1..n, NEW j \in 1..n, i < j PROVE <<c[i], c[j]>> \in R
  <2> DEFINE a == s[i]
             b == s[j]
  <2>1. a \in atL /\ b \in atL /\ <<a, b>> \in SequenceOrder(rulesL)
    BY <1>12, <1>15
  <2>2. c[i] = o[a] /\ c[j] = o[b]
    OBVIOUS
  <2> HIDE DEF a, b, rulesM, rulesL, atM, atL, n, c
  <2>3. rulesL[a].sequence < rulesL[b].sequence \/ (rulesL[a].sequence = rulesL[b].sequence /\ a < b)
    BY <2>1 DEF SequenceOrder
  <2>4. /\ o[a] \in atM /\ o[b] \in atM /\ a \in 1..Len(list) /\ b \in 1..Len(list)
        /\ rulesL[a].sequence = list[o[a]].sequence /\ rulesL[b].sequence = list[o[b]].sequence
    BY <1>7, <2>1
  <2>5. rulesM[o[a]] = list[o[a]] /\ rulesM[o[b]] = list[o[b]]
    BY <1>3, <2>4
  <2>6. \/ rulesM[o[a]].sequence < rulesM[o[b]].sequence
        \/ rulesM[o[a]].sequence = rulesM[o[b]].sequence /\ o[a] < o[b]
    <3>1. CASE rulesL[a].sequence < rulesL[b].sequence
      BY <2>4, <2>5, <3>1
    <3>2. CASE rulesL[a].sequence = rulesL[b].sequence /\ a < b
      <4>1. <<o[a], o[b]>> \in SequenceOrder(list)
        BY <1>13, <2>4, <3>2
      <4>2. \/ list[o[a]].sequence < list[o[b]].sequence
            \/ list[o[a]].sequence = list[o[b]].sequence /\ o[a] < o[b]
        BY <4>1 DEF SequenceOrder
      <4> QED
        BY <2>5, <4>2
    <3> QED
      BY <2>3, <3>1, <3>2
  <2>7. <<o[a], o[b]>> \in SequenceOrder(rulesM)
    BY <1>3, <2>4, <2>6 DEF SequenceOrder
  <2> QED
    BY <2>2, <2>7
<1>16. c = p
  <2>1. IsOrder(atM, R)
    BY <1>3, <1>4, SequencesAreOrder
  <2> HIDE DEF rulesM, rulesL, atM, atL, R, c
  <2>2. DOMAIN c = 1..n /\ Ascending(c, R)
    BY <1>14, <1>15 DEF Ascending
  <2>3. Enumerates(c, atM, R)
    BY <1>5, <1>14, <2>1, <2>2, AscendingEnumerates
  <2> QED
    BY <1>5, <1>12, <2>1, <2>3, OneOrder
<1>17. ASSUME NEW k \in 1..n
       PROVE  \E i \in DOMAIN list :
                InSequence(rulesM)[k] = list[i] /\ InSequence(rulesL)[k] = ReadBack(list[i])
  <2>1. s[k] \in atL /\ p[k] = o[s[k]]
    BY <1>12, <1>16
  <2> HIDE DEF rulesM, rulesL, atM, atL, R, c, n
  <2>2. rulesL[s[k]] = ReadBack(list[p[k]]) /\ p[k] \in atM /\ p[k] \in DOMAIN list
    BY <1>5, <1>7, <2>1
  <2>3. InSequence(rulesM)[k] = list[p[k]] /\ InSequence(rulesL)[k] = ReadBack(list[p[k]])
    BY <1>3, <1>12, <2>2
  <2> QED
    BY <2>2, <2>3
<1> HIDE DEF rulesM, rulesL, atM, n
<1>18. RuleByRule(InSequence(rulesM), InSequence(rulesL), n, list)
  BY <1>11, <1>12, <1>17 DEF RuleByRule
<1> QED
  BY <1>18 DEF rulesM, rulesL, atM, n

(* A saved scenario gives each grain the result of the one that was saved. *)
LEMMA SavedResult ==
  ASSUME NEW list, WrittenRules(list), \A i \in DOMAIN list : Kept(list[i].value),
         NEW grain, grain.amount \in Int
  PROVE  Result(grain, saved(list)) = Result(grain, list)
<1> DEFINE s == InSequence(_matching_rules(list, grain))
           t == InSequence(_matching_rules(saved(list), grain))
           n == Cardinality(MatchingAt(list, grain))
<1>1. RuleByRule(s, t, n, list)
  BY SavedSequence
<1>2. /\ Result(grain, list) = FoldLeft(apply_rule, grain.amount, s)
      /\ Result(grain, saved(list)) = FoldLeft(apply_rule, grain.amount, t)
  BY Zenon DEF Result, apply_scenario_rules
<1> HIDE DEF s, t, n
<1>3. ASSUME NEW k \in 1..n, NEW a \in Int
      PROVE  apply_rule(a, s[k]) \in Int /\ apply_rule(a, t[k]) = apply_rule(a, s[k])
  <2>1. PICK i \in DOMAIN list : s[k] = list[i] /\ t[k] = ReadBack(list[i])
    BY <1>1 DEF RuleByRule
  <2> DEFINE r == list[i]
  <2>2. r \in Rule /\ IsNumber(r.value) /\ Kept(r.value)
    BY DEF WrittenRules
  <2> HIDE DEF r
  <2>3. apply_rule(a, r) \in Int
    BY <2>2, RuleGivesAmount
  <2>4. r.value.n \in Int /\ r.value.d \in Nat \ {0}
    BY <2>2 DEF IsNumber
  <2>5. apply_rule(a, ReadBack(r)) = apply_rule(a, r)
    BY <2>2, <2>4, SavingKeepsRules, Zenon DEF ReadBack
  <2> QED
    BY <2>1, <2>3, <2>5 DEF r
<1>4. n \in Nat /\ DOMAIN s = 1..n /\ DOMAIN t = 1..n
  BY <1>1 DEF RuleByRule
<1>5. FoldLeft(apply_rule, grain.amount, t) = FoldLeft(apply_rule, grain.amount, s)
  <2>1. SameEffects(s, t, n)
    BY <1>3, <1>4 DEF SameEffects
  <2> QED
    BY <2>1, SameFold
<1> QED
  BY <1>2, <1>5

-----------------------------------------------------------------------------
(* The grains of a preview                                                 *)
RowKey(i) ==
  [period |-> ledger[i].period, account |-> ledger[i].account,
   department |-> ledger[i].department, center |-> ledger[i].center]

TypedRows(q, type) == {i \in _apply_filters(q) : ledger[i].type = type}
GrainKeys(q, type) == {RowKey(i) : i \in TypedRows(q, type)}
RowsAt(q, type, k) == {i \in TypedRows(q, type) : RowKey(i) = k}
GrainAt(q, type, k) ==
  [period |-> k.period, account |-> k.account, department |-> k.department,
   center |-> k.center, amount |-> SumOf(RowsAt(q, type, k), type)]

LEMMA GrainsByKey ==
  ASSUME NEW q, NEW type
  PROVE  _baseline_grains(q, type) = {GrainAt(q, type, k) : k \in GrainKeys(q, type)}
BY Zenon DEF _baseline_grains, GrainAt, GrainKeys, RowsAt, TypedRows, RowKey

LEMMA GrainsToldApart ==
  ASSUME NEW q, NEW type, NEW k \in GrainKeys(q, type), NEW l \in GrainKeys(q, type),
         GrainAt(q, type, k) = GrainAt(q, type, l)
  PROVE  k = l
<1>1. PICK i \in TypedRows(q, type) : k = RowKey(i)
  BY DEF GrainKeys
<1>2. PICK j \in TypedRows(q, type) : l = RowKey(j)
  BY DEF GrainKeys
<1>3. /\ k.period = l.period /\ k.account = l.account /\ k.department = l.department
      /\ k.center = l.center
  BY DEF GrainAt
<1> QED
  BY <1>1, <1>2, <1>3 DEF RowKey

(* The grains split the rows of the query: they have the same total.       *)
LEMMA GrainsTotal ==
  ASSUME LedgerInv, NEW q, NEW type
  PROVE  /\ IsFiniteSet(_baseline_grains(q, type))
         /\ \A g \in _baseline_grains(q, type) : g.amount \in Int
         /\ SumFunction([g \in _baseline_grains(q, type) |-> g.amount])
              = SumOf(_apply_filters(q), type)
<1> DEFINE G == _baseline_grains(q, type)
           K == GrainKeys(q, type)
           S == TypedRows(q, type)
           rowset == _apply_filters(q)
           e == [k \in K |-> GrainAt(q, type, k)]
           f == [g \in G |-> g.amount]
           sums == [k \in K |-> SumOf(RowsAt(q, type, k), type)]
           kind == [i \in S |-> RowKey(i)]
           parts == [k \in K |-> Total(Amounts, {i \in S : kind[i] = k})]
<1>1. rowset \in SUBSET DOMAIN ledger
  BY FilteredRows
<1>2. S = OfType(rowset, type) /\ S \subseteq rowset
  BY Zenon DEF TypedRows, OfType
<1>3. SumOf(rowset, type) = Total(Amounts, S) /\ IsFiniteSet(S) /\ \A i \in S : Amounts[i] \in Int
  BY <1>1, <1>2, SumIsOfAmounts
<1>4. K = {kind[i] : i \in S} /\ \A i \in S : kind[i] \in K
  BY DEF GrainKeys
<1>5. IsFiniteSet(K)
  <2> HIDE DEF K, kind, S
  <2> QED
    BY <1>3, <1>4, FiniteImage
<1>6. ASSUME NEW k \in K
      PROVE  /\ sums[k] = parts[k] /\ sums[k] \in Int
             /\ GrainAt(q, type, k).amount = sums[k] /\ GrainAt(q, type, k) \in G
  <2>1. RowsAt(q, type, k) \in SUBSET DOMAIN ledger
    BY <1>1 DEF RowsAt, TypedRows
  <2>2. /\ SumOf(RowsAt(q, type, k), type) = Total(Amounts, OfType(RowsAt(q, type, k), type))
        /\ SumOf(RowsAt(q, type, k), type) \in Int
    BY <2>1, SumIsOfAmounts
  <2>3. OfType(RowsAt(q, type, k), type) = {i \in S : kind[i] = k}
    BY DEF OfType, RowsAt, TypedRows
  <2>4. GrainAt(q, type, k).amount = SumOf(RowsAt(q, type, k), type)
    BY DEF GrainAt
  <2>5. GrainAt(q, type, k) \in G
    BY GrainsByKey
  <2> HIDE DEF G
  <2> QED
    BY <2>2, <2>3, <2>4, <2>5
<1>7. G = {e[k] : k \in K}
  BY GrainsByKey
<1>8. \A k, l \in K : e[k] = e[l] => k = l
  BY GrainsToldApart
<1>9. DOMAIN f = G /\ \A k \in K : e[k] = GrainAt(q, type, k)
  OBVIOUS
<1>10. \A k \in K : sums[k] = f[e[k]] /\ f[e[k]] \in Int
  <2> HIDE DEF G, K, sums, parts, e
  <2> QED
    BY <1>6, <1>9
<1>11. \A g \in G : g.amount \in Int
  <2> HIDE DEF G, K, sums, parts, e
  <2> QED
    BY <1>6, <1>7, <1>9
<1>12. IsFiniteSet(G)
  <2> HIDE DEF G, K, e
  <2> QED
    BY <1>5, <1>7, FiniteImage
<1> HIDE DEF G, K, S, e, f, kind, rowset
<1>13. SumFunction(f) = Total(f, G)
  BY <1>9, SumIsTotal
<1>14. Total(f, {e[k] : k \in K}) = Total(sums, K)
  <2> HIDE DEF sums
  <2> QED
    BY <1>5, <1>8, <1>10, TotalRenamed
<1>15. Total(sums, K) = Total(parts, K)
  <2>1. \A k \in K : sums[k] = parts[k]
    BY <1>6
  <2> HIDE DEF sums, parts
  <2> QED
    BY <1>5, <2>1, TotalSame
<1>16. Total(Amounts, S) = Total(parts, K)
  BY <1>3, <1>4, <1>5, TotalOfParts
<1>17. SumFunction(f) = SumOf(rowset, type)
  BY <1>3, <1>7, <1>13, <1>14, <1>15, <1>16
<1> QED
  BY <1>11, <1>12, <1>17 DEF G, f, rowset

-----------------------------------------------------------------------------
(* Sums over months                                                        *)
Months(G) == {g.period : g \in G}
InMonth(G, m) == {g \in G : g.period = m}

LEMMA MonthsAdd ==
  ASSUME NEW G, IsFiniteSet(G), NEW f, DOMAIN f = G, \A g \in G : f[g] \in Int,
         NEW h, DOMAIN h = Months(G), \A m \in Months(G) : h[m] = Total(f, InMonth(G, m))
  PROVE  SumFunction(f) = SumFunction(h)
<1> DEFINE M == Months(G)
           kind == [g \in G |-> g.period]
           parts == [m \in M |-> Total(f, {g \in G : kind[g] = m})]
<1>1. M = {kind[g] : g \in G} /\ \A g \in G : kind[g] \in M
  BY DEF Months
<1>2. \A m \in M : InMonth(G, m) = {g \in G : kind[g] = m}
  BY DEF InMonth
<1> HIDE DEF M, kind
<1>3. IsFiniteSet(M)
  BY <1>1, FiniteImage
<1>4. Total(f, G) = Total(parts, M)
  BY <1>1, <1>3, TotalOfParts
<1>5. \A m \in M : h[m] = parts[m]
  <2>1. \A m \in M : h[m] = Total(f, InMonth(G, m))
    BY DEF M
  <2> QED
    BY <1>2, <2>1
<1> HIDE DEF parts
<1>6. Total(h, M) = Total(parts, M)
  BY <1>3, <1>5, TotalSame
<1>7. SumFunction(f) = Total(f, G) /\ SumFunction(h) = Total(h, M)
  BY SumIsTotal DEF M
<1> QED
  BY <1>4, <1>6, <1>7

(* What a preview says of its grains.                                      *)
BaselineOf(G) == SumFunction([g \in G |-> g.amount])
ResultOf(G, list) == SumFunction([g \in G |-> Result(g, list)])
MonthOf(G, list, m) == <<BaselineOf(InMonth(G, m)), ResultOf(InMonth(G, m), list)>>

PreviewOf(G, list) ==
  [baseline |-> BaselineOf(G), result |-> ResultOf(G, list),
   metrics |-> compute_variance(ResultOf(G, list), BaselineOf(G), {TypeOf[g.account] : g \in G}),
   monthly |-> [m \in Months(G) |-> MonthOf(G, list, m)]]

LEMMA PreviewOfGrains ==
  ASSUME NEW q, NEW type, NEW list
  PROVE  preview(q, type, list) = PreviewOf(_baseline_grains(q, type), list)
BY Zenon DEF preview, PreviewOf, BaselineOf, ResultOf, MonthOf, Months, InMonth

LEMMA SavedPreview ==
  ASSUME NEW list, WrittenRules(list), \A i \in DOMAIN list : Kept(list[i].value),
         NEW G, \A g \in G : g.amount \in Int
  PROVE  PreviewOf(G, saved(list)) = PreviewOf(G, list)
<1>1. \A g \in G : Result(g, saved(list)) = Result(g, list)
  BY SavedResult
<1>2. ASSUME NEW H \in SUBSET G PROVE ResultOf(H, saved(list)) = ResultOf(H, list)
  <2>1. [g \in H |-> Result(g, saved(list))] = [g \in H |-> Result(g, list)]
    <3>1. \A g \in H : Result(g, saved(list)) = Result(g, list)
      BY <1>1
    <3> QED
      BY <3>1, Zenon
  <2> QED
    BY <2>1, Zenon DEF ResultOf
<1>3. ResultOf(G, saved(list)) = ResultOf(G, list)
  BY <1>2
<1>4. \A m \in Months(G) : MonthOf(G, saved(list), m) = MonthOf(G, list, m)
  <2>1. \A m \in Months(G) : InMonth(G, m) \in SUBSET G
    BY DEF InMonth
  <2> QED
    BY <1>2, <2>1, Zenon DEF MonthOf
<1>5. [m \in Months(G) |-> MonthOf(G, saved(list), m)] = [m \in Months(G) |-> MonthOf(G, list, m)]
  BY <1>4, Zenon
<1> QED
  BY <1>3, <1>5, Zenon DEF PreviewOf

LEMMA RulesAreWritten ==
  ASSUME LedgerInv
  PROVE  WrittenRules(rules)
<1>1. rules \in Seq(Rules)
  BY DEF LedgerInv
<1>2. DOMAIN rules = 1..Len(rules) /\ Len(rules) \in Nat /\ \A i \in DOMAIN rules : rules[i] \in Rule
  BY <1>1, RulesAssumption
<1>3. ASSUME NEW r \in Rule PROVE r.sequence \in Int /\ IsNumber(r.value)
  <2>1. r.sequence \in 1..MaxRules /\ r.value \in RuleValue
    BY DEF Rule
  <2>2. r.value \in [n : Int, d : Nat \ {0}]
    BY <2>1, AnalyticsAssumption
  <2> DEFINE x == r.value
  <2>3. x.n \in Int /\ x.d \in Nat \ {0}
    BY <2>2
  <2> QED
    BY <2>1, <2>3 DEF IsNumber
<1> QED
  BY <1>2, <1>3 DEF WrittenRules

(* A month no rule reaches stays as it is.                                 *)
LEMMA UntouchedMonth ==
  ASSUME NEW list, WrittenRules(list), NEW G, \A g \in G : g.amount \in Int,
         NEW m, \A i \in DOMAIN list : m \notin list[i].from..list[i].to
  PROVE  MonthOf(G, list, m)[1] = MonthOf(G, list, m)[2]
<1>1. ASSUME NEW g \in InMonth(G, m) PROVE Result(g, list) = g.amount
  <2>1. g \in G /\ g.period = m
    BY <1>1 DEF InMonth
  <2>2. \A i \in DOMAIN list : ~rule_applies(list[i], g)
    BY <2>1, Zenon DEF rule_applies
  <2>3. MatchingAt(list, g) = {}
    BY <2>2 DEF MatchingAt
  <2> QED
    BY <2>1, <2>3, ResultIsAmount
<1>2. [g \in InMonth(G, m) |-> Result(g, list)] = [g \in InMonth(G, m) |-> g.amount]
  BY <1>1, Zenon
<1>3. ResultOf(InMonth(G, m), list) = BaselineOf(InMonth(G, m))
  BY <1>2, Zenon DEF ResultOf, BaselineOf
<1> QED
  BY <1>3 DEF MonthOf

(* A preview adds up by month.                                             *)
LEMMA PreviewMonths ==
  ASSUME NEW list, WrittenRules(list), NEW G, IsFiniteSet(G), \A g \in G : g.amount \in Int
  PROVE  /\ BaselineOf(G) = SumFunction([m \in Months(G) |-> MonthOf(G, list, m)[1]])
         /\ ResultOf(G, list) = SumFunction([m \in Months(G) |-> MonthOf(G, list, m)[2]])
<1> DEFINE f == [g \in G |-> g.amount]
           h == [g \in G |-> Result(g, list)]
           fm == [m \in Months(G) |-> MonthOf(G, list, m)[1]]
           hm == [m \in Months(G) |-> MonthOf(G, list, m)[2]]
<1>1. DOMAIN f = G /\ DOMAIN h = G /\ DOMAIN fm = Months(G) /\ DOMAIN hm = Months(G)
  OBVIOUS
<1>2. /\ \A g \in G : f[g] = g.amount /\ f[g] \in Int
      /\ \A g \in G : h[g] = Result(g, list) /\ h[g] \in Int
  BY ResultIsAmount
<1>3. ASSUME NEW m \in Months(G)
      PROVE  fm[m] = Total(f, InMonth(G, m)) /\ hm[m] = Total(h, InMonth(G, m))
  <2> DEFINE H == InMonth(G, m)
             fH == [g \in H |-> g.amount]
             hH == [g \in H |-> Result(g, list)]
  <2>1. IsFiniteSet(H) /\ H \subseteq G
    BY FS_Subset DEF InMonth
  <2>2. fm[m] = SumFunction(fH) /\ hm[m] = SumFunction(hH)
    BY DEF MonthOf, BaselineOf, ResultOf
  <2>3. /\ DOMAIN fH = H /\ \A g \in H : fH[g] = f[g]
        /\ DOMAIN hH = H /\ \A g \in H : hH[g] = h[g]
    BY <2>1
  <2> HIDE DEF H, fH, hH, f, h
  <2> QED
    BY <2>1, <2>2, <2>3, SumOfValues DEF H
<1>4. BaselineOf(G) = SumFunction(f) /\ ResultOf(G, list) = SumFunction(h)
  BY DEF BaselineOf, ResultOf
<1> HIDE DEF f, h, fm, hm
<1>5. SumFunction(f) = SumFunction(fm) /\ SumFunction(h) = SumFunction(hm)
  BY <1>1, <1>2, <1>3, MonthsAdd
<1> QED
  BY <1>4, <1>5 DEF fm, hm

LEMMA PreviewHolds ==
  ASSUME LedgerInv, NEW q, NEW type \in {"budget", "actual"}
  PROVE  LET shownPreview == preview(q, type, rules)
             months == DOMAIN shownPreview.monthly
         IN /\ (\A i \in DOMAIN rules : Kept(rules[i].value)) => compare(q, type, rules) = shownPreview
            /\ shownPreview.baseline = SumFunction([m \in months |-> shownPreview.monthly[m][1]])
            /\ shownPreview.result = SumFunction([m \in months |-> shownPreview.monthly[m][2]])
            /\ shownPreview.baseline = totals(q)[type]
            /\ \A m \in months :
                 (\A i \in DOMAIN rules : m \notin rules[i].from..rules[i].to)
                   => shownPreview.monthly[m][1] = shownPreview.monthly[m][2]
<1> DEFINE G == _baseline_grains(q, type)
           p == preview(q, type, rules)
           months == DOMAIN p.monthly
<1>1. WrittenRules(rules)
  BY RulesAreWritten
<1>2. /\ IsFiniteSet(G) /\ \A g \in G : g.amount \in Int
      /\ BaselineOf(G) = SumOf(_apply_filters(q), type)
  BY GrainsTotal DEF BaselineOf
<1>3. p = PreviewOf(G, rules) /\ compare(q, type, rules) = PreviewOf(G, saved(rules))
  BY PreviewOfGrains, Zenon DEF compare
<1> HIDE DEF G, p
<1>4. /\ p.baseline = BaselineOf(G) /\ p.result = ResultOf(G, rules)
      /\ months = Months(G) /\ \A m \in months : p.monthly[m] = MonthOf(G, rules, m)
  BY <1>3 DEF PreviewOf
<1>5. (\A i \in DOMAIN rules : Kept(rules[i].value)) => compare(q, type, rules) = p
  BY <1>1, <1>2, <1>3, SavedPreview
<1> HIDE DEF months
<1>6. /\ [m \in months |-> p.monthly[m][1]] = [m \in Months(G) |-> MonthOf(G, rules, m)[1]]
      /\ [m \in months |-> p.monthly[m][2]] = [m \in Months(G) |-> MonthOf(G, rules, m)[2]]
  BY <1>4, Zenon
<1>7. /\ p.baseline = SumFunction([m \in months |-> p.monthly[m][1]])
      /\ p.result = SumFunction([m \in months |-> p.monthly[m][2]])
  BY <1>1, <1>2, <1>4, <1>6, PreviewMonths
<1>8. p.baseline = totals(q)[type]
  <2>1. totals(q)[type] = SumOf(_apply_filters(q), type)
    BY DEF totals, _amount_columns
  <2> QED
    BY <1>2, <1>4, <2>1
<1>9. \A m \in months : (\A i \in DOMAIN rules : m \notin rules[i].from..rules[i].to)
                          => p.monthly[m][1] = p.monthly[m][2]
  BY <1>1, <1>2, <1>4, UntouchedMonth
<1> QED
  BY <1>5, <1>7, <1>8, <1>9, Zenon DEF p, months

(* What a user was shown before saving a scenario is what comparing the    *)
(* saved one shows, and a preview adds up: for every ledger and every list *)
(* of rules (ScenarioService.preview and compare).                         *)
THEOREM PreviewsMatchSaves == LedgerSpec => []PreviewMatchesSave
<1>1. LedgerInv => PreviewMatchesSave
  BY PreviewHolds, Zenon DEF PreviewMatchesSave
<1> QED
  BY <1>1, LedgerInvariant, PTL

-----------------------------------------------------------------------------
(* What a provider sends                                                   *)
Requesting(name, fields) ==
  [name |-> name, arguments |-> [is |-> "object", fields |-> fields]]

(* The values of a request are values a provider may send.                 *)
SentValues(fields) == \A k \in DOMAIN fields : \E a \in Arguments : fields[k] = a.value

ToolsInv ==
  /\ LedgerInv
  /\ \E name, fields : request = Requesting(name, fields) /\ SentValues(fields)

LEMMA ArgumentAdded ==
  ASSUME NEW name, NEW fields, request = Requesting(name, fields), SentValues(fields), NEW a \in Arguments,
         request' = [request EXCEPT !.arguments.fields = Merged(@, [k \in {a.name} |-> a.value])]
  PROVE  \E later : request' = Requesting(name, later) /\ SentValues(later)
<1> DEFINE one == [k \in {a.name} |-> a.value]
           later == Merged(fields, one)
<1>1. request = [name |-> name, arguments |-> [is |-> "object", fields |-> fields]]
  BY DEF Requesting
<1>2. request' = [name |-> name, arguments |-> [is |-> "object", fields |-> later]]
  <2> HIDE DEF one
  <2>1. request' = [request EXCEPT !.arguments.fields = Merged(@, one)]
    BY DEF one
  <2>2. request' = [request EXCEPT !.arguments.fields = later]
    BY <1>1, <2>1
  <2> HIDE DEF later
  <2> QED
    BY <1>1, <2>2
<1>3. SentValues(later)
  <2>1. \A k \in DOMAIN later : \/ k \in DOMAIN fields /\ later[k] = fields[k]
                                \/ later[k] = a.value
    BY DEF Merged
  <2> HIDE DEF later
  <2> QED
    BY <2>1 DEF SentValues
<1> HIDE DEF later
<1>4. request' = Requesting(name, later)
  BY <1>2 DEF Requesting
<1> QED
  BY <1>3, <1>4

LEMMA ToolsInvariant == ToolsSpec => []ToolsInv
<1> DEFINE Stays == AddArgument /\ UNCHANGED ledgerVars
<1>1. ToolsInit /\ ledger \in Seq(Entries) /\ rules \in Seq(Rules) => ToolsInv
  <2> SUFFICES ASSUME ToolsInit, ledger \in Seq(Entries), rules \in Seq(Rules) PROVE ToolsInv
    OBVIOUS
  <2>1. LedgerInv
    BY DEF LedgerInv
  <2>2. PICK name : request = [name |-> name, arguments |-> NoArguments]
    BY DEF ToolsInit
  <2>3. request = Requesting(name, <<>>)
    BY <2>2 DEF Requesting, NoArguments
  <2>4. SentValues(<<>>)
    BY DEF SentValues
  <2> QED
    BY <2>1, <2>3, <2>4 DEF ToolsInv
<1>2. ToolsInv /\ [Stays]_<<request, ledgerVars>> => ToolsInv'
  <2> SUFFICES ASSUME ToolsInv, [Stays]_<<request, ledgerVars>> PROVE ToolsInv'
    OBVIOUS
  <2>1. LedgerInv'
    BY DEF ToolsInv, LedgerInv, ledgerVars
  <2>2. PICK name, fields : request = Requesting(name, fields) /\ SentValues(fields)
    BY DEF ToolsInv
  <2>3. CASE Stays
    <3>1. PICK a \in Arguments :
            request' = [request EXCEPT !.arguments.fields = Merged(@, [k \in {a.name} |-> a.value])]
      BY <2>3 DEF AddArgument
    <3>2. PICK later : request' = Requesting(name, later) /\ SentValues(later)
      BY <2>2, <3>1, ArgumentAdded
    <3> QED
      BY <2>1, <3>2, Zenon DEF ToolsInv
  <2>4. CASE UNCHANGED <<request, ledgerVars>>
    BY <2>1, <2>2, <2>4, Zenon DEF ToolsInv
  <2> QED
    BY <2>3, <2>4
<1> QED
  BY <1>1, <1>2, PTL DEF ToolsSpec

(* A tenant in the arguments changes nothing that is checked or run.       *)
Own(fields) == Restrict(fields, DOMAIN fields \ {"organization_id"})

LEMMA PayloadIsOwn ==
  ASSUME NEW fields
  PROVE  Payload([is |-> "object", fields |-> fields]) = [is |-> "object", fields |-> Own(fields)]
<1> HIDE DEF Restrict
<1> QED
  BY DEF Payload, Own

LEMMA TenantUnheard ==
  ASSUME NEW fields, NEW x
  PROVE  Own(Merged([organization_id |-> x], fields)) = Own(fields)
<1> DEFINE tenant == [organization_id |-> x]
           both == Merged(tenant, fields)
           left == DOMAIN fields \ {"organization_id"}
<1>1. DOMAIN tenant = {"organization_id"}
  OBVIOUS
<1> HIDE DEF tenant
<1>2. DOMAIN both = {"organization_id"} \cup DOMAIN fields
  BY <1>1 DEF Merged
<1>3. \A k \in left : both[k] = fields[k]
  BY <1>1 DEF Merged
<1> HIDE DEF both
<1>4. DOMAIN both \ {"organization_id"} = left
  BY <1>2
<1>5. [k \in left |-> both[k]] = [k \in left |-> fields[k]]
  BY <1>3
<1>6. Own(both) = Own(fields)
  BY <1>4, <1>5, Zenon DEF Own, Restrict
<1> QED
  BY <1>6 DEF both, tenant

LEMMA OwnValues ==
  ASSUME NEW fields, SentValues(fields)
  PROVE  SentValues(Own(fields))
BY DEF Own, Restrict, SentValues

-----------------------------------------------------------------------------
(* Validation                                                              *)
Leveled(level, schema, v) ==
  level = [depth \in Nesting |-> IF depth = 0 THEN {<<schema, v>>} ELSE Below(level[depth - 1])]

LEMMA LevelsAreMade ==
  ASSUME NEW schema, NEW v
  PROVE  \E level : Leveled(level, schema, v)
<1> DEFINE a0 == {<<schema, v>>}
           a1 == Below(a0)
           a2 == Below(a1)
           a3 == Below(a2)
           a4 == Below(a3)
           a5 == Below(a4)
           level == [d \in Nesting |-> IF d = 0 THEN a0 ELSE IF d = 1 THEN a1 ELSE IF d = 2 THEN a2
                                       ELSE IF d = 3 THEN a3 ELSE IF d = 4 THEN a4 ELSE a5]
<1>1. \A d \in Nesting : d \in {0, 1, 2, 3, 4, 5}
  BY DEF Nesting
<1>2. /\ 0 \in Nesting /\ 1 \in Nesting /\ 2 \in Nesting /\ 3 \in Nesting
      /\ 4 \in Nesting /\ 5 \in Nesting
  BY DEF Nesting
<1>3. /\ level[0] = a0 /\ level[1] = a1 /\ level[2] = a2 /\ level[3] = a3
      /\ level[4] = a4 /\ level[5] = a5
  <2> HIDE DEF a0, a1, a2, a3, a4, a5
  <2> QED
    BY <1>2
<1>4. /\ a1 = Below(a0) /\ a2 = Below(a1) /\ a3 = Below(a2) /\ a4 = Below(a3) /\ a5 = Below(a4)
  OBVIOUS
<1>5. DOMAIN level = Nesting /\ level = [d \in Nesting |-> level[d]]
  OBVIOUS
<1> HIDE DEF level, a1, a2, a3, a4, a5
<1>6. ASSUME NEW d \in Nesting
      PROVE  level[d] = IF d = 0 THEN a0 ELSE Below(level[d - 1])
  <2>1. d \in {0, 1, 2, 3, 4, 5}
    BY <1>1
  <2>2. /\ 1 - 1 = 0 /\ 2 - 1 = 1 /\ 3 - 1 = 2 /\ 4 - 1 = 3 /\ 5 - 1 = 4
    OBVIOUS
  <2> HIDE DEF a0
  <2> QED
    BY <1>3, <1>4, <2>1, <2>2
<1>7. level = [d \in Nesting |-> IF d = 0 THEN a0 ELSE Below(level[d - 1])]
  <2> HIDE DEF a0
  <2> QED
    BY <1>5, <1>6
<1> QED
  BY <1>7, Zenon DEF Leveled

(* What is accepted fits its schema, and so does each of its fields.       *)
LEMMA AcceptedFits ==
  ASSUME NEW schema, NEW v, v.is = "object", validate_closed_schema(schema, v)
  PROVE  /\ Fits(schema, v)
         /\ \A k \in DOMAIN v.fields : Fits(schema.properties[k], v.fields[k])
<1> DEFINE level == CHOOSE l : Leveled(l, schema, v)
<1>1. Leveled(level, schema, v)
  BY LevelsAreMade
<1>2. \A d \in Nesting : \A p \in level[d] : Fits(p[1], p[2])
  BY Zenon DEF validate_closed_schema, Leveled
<1> HIDE DEF level
<1>3. 0 \in Nesting /\ 1 \in Nesting /\ 1 - 1 = 0 /\ 1 # 0
  BY DEF Nesting
<1>4. level[0] = {<<schema, v>>} /\ level[1] = Below(level[0])
  BY <1>1, <1>3 DEF Leveled
<1>5. Fits(schema, v)
  <2> DEFINE p == <<schema, v>>
  <2>1. p \in level[0] /\ p[1] = schema /\ p[2] = v
    BY <1>4
  <2> HIDE DEF p
  <2>2. Fits(p[1], p[2])
    BY <1>2, <1>3, <2>1
  <2> QED
    BY <2>1, <2>2
<1>6. ASSUME NEW k \in DOMAIN v.fields PROVE Fits(schema.properties[k], v.fields[k])
  <2> DEFINE p == <<schema, v>>
             x == <<schema.properties[k], v.fields[k]>>
  <2>1. p \in {y \in level[0] : Fits(y[1], y[2])}
    BY <1>4, <1>5
  <2>2. Inside(p[1], p[2]) = {<<schema.properties[j], v.fields[j]>> : j \in DOMAIN v.fields}
    BY DEF Inside
  <2>3. x \in Inside(p[1], p[2])
    BY <2>2
  <2> HIDE DEF p, x
  <2>4. x \in level[1]
    BY <1>4, <2>1, <2>3 DEF Below
  <2>5. Fits(x[1], x[2])
    BY <1>2, <1>3, <2>4
  <2> QED
    BY <2>5 DEF x
<1> QED
  BY <1>5, <1>6

-----------------------------------------------------------------------------
(* What accepted arguments are like                                        *)
AcceptedBy(name, F) ==
  validate_closed_schema(input_schema(name), [is |-> "object", fields |-> F])

LEMMA SchemaOf ==
  ASSUME NEW name
  PROVE  input_schema(name).properties = Merged(_SCOPE_PROPERTIES, built_in_tools[name].more)
BY DEF input_schema, _object_schema

LEMMA ArgumentFits ==
  ASSUME NEW name, NEW F, AcceptedBy(name, F), NEW k \in DOMAIN F
  PROVE  /\ k \in DOMAIN _SCOPE_PROPERTIES => Fits(_SCOPE_PROPERTIES[k], F[k])
         /\ k \notin DOMAIN _SCOPE_PROPERTIES =>
              /\ k \in DOMAIN built_in_tools[name].more
              /\ Fits(built_in_tools[name].more[k], F[k])
<1> DEFINE schema == input_schema(name)
           v == [is |-> "object", fields |-> F]
           common == _SCOPE_PROPERTIES
           more == built_in_tools[name].more
<1>1. v.is = "object" /\ v.fields = F
  OBVIOUS
<1>2. validate_closed_schema(schema, v)
  BY DEF AcceptedBy
<1>3. schema.properties = Merged(common, more)
  BY SchemaOf
<1> HIDE DEF schema, v, common, more
<1>4. Fits(schema, v) /\ Fits(schema.properties[k], F[k])
  BY <1>1, <1>2, AcceptedFits
<1>5. k \in DOMAIN schema.properties
  BY <1>1, <1>4 DEF Fits
<1>6. /\ k \in DOMAIN common => schema.properties[k] = common[k]
      /\ k \notin DOMAIN common => k \in DOMAIN more /\ schema.properties[k] = more[k]
  BY <1>3, <1>5 DEF Merged
<1> QED
  BY <1>4, <1>6 DEF common, more

IdLists == {"account_ids", "department_ids", "cost_center_ids"}

(* Those every tool knows.                                                 *)
ScopeArguments(F) ==
  /\ \A k \in IdLists : k \in DOMAIN F => F[k].is = "array" /\ F[k].items \in Seq(ToSet(F[k].items))
  /\ \A k \in {"period_from", "period_to"} : k \in DOMAIN F => F[k].is = "string"

LEMMA ScopeIsTyped ==
  ASSUME NEW name, NEW F, AcceptedBy(name, F), SentValues(F)
  PROVE  ScopeArguments(F)
<1>1. ASSUME NEW k \in IdLists, k \in DOMAIN F
      PROVE  F[k].is = "array" /\ F[k].items \in Seq(ToSet(F[k].items))
  <2>1. k \in DOMAIN _SCOPE_PROPERTIES /\ _SCOPE_PROPERTIES[k].type = "array"
    BY DEF IdLists, _SCOPE_PROPERTIES, ListOf
  <2>2. Fits(_SCOPE_PROPERTIES[k], F[k])
    BY <1>1, <2>1, ArgumentFits
  <2>3. F[k].is = "array"
    BY <2>1, <2>2 DEF Fits
  <2>4. PICK a \in Arguments : F[k] = a.value
    BY <1>1 DEF SentValues
  <2>5. a.value.is = "array" => a.value.items \in Seq(ToSet(a.value.items))
    BY ToolsAssumption, Zenon
  <2> QED
    BY <2>3, <2>4, <2>5, Zenon
<1>2. ASSUME NEW k \in {"period_from", "period_to"}, k \in DOMAIN F
      PROVE  F[k].is = "string"
  <2>1. k \in DOMAIN _SCOPE_PROPERTIES /\ _SCOPE_PROPERTIES[k].type = "string"
    BY DEF _SCOPE_PROPERTIES, Text
  <2>2. Fits(_SCOPE_PROPERTIES[k], F[k])
    BY <1>2, <2>1, ArgumentFits
  <2> QED
    BY <2>1, <2>2 DEF Fits
<1> QED
  BY <1>1, <1>2, Zenon DEF ScopeArguments

(* An integer within its bounds, or the default.                           *)
LEMMA BoundedArgument ==
  ASSUME NEW name, NEW F, AcceptedBy(name, F), SentValues(F), NEW k, NEW m \in 1..20,
         k \notin DOMAIN _SCOPE_PROPERTIES, built_in_tools[name].more[k] = Whole(1, m)
  PROVE  argument(F, k, m) \in 1..m
<1>1. CASE k \notin DOMAIN F
  BY <1>1 DEF argument
<1>2. CASE k \in DOMAIN F
  <2> DEFINE s == Whole(1, m)
             v == F[k]
  <2>1. s.type = "integer" /\ s.minimum = 1 /\ s.maximum = m /\ 1 # None /\ m # None
    BY NoneAssumption DEF Whole
  <2>2. Fits(s, v)
    BY <1>2, ArgumentFits
  <2>3. PICK a \in Arguments : v = a.value
    BY <1>2 DEF SentValues
  <2>4. a.value.is = "integer" => a.value.number \in Int
    BY ToolsAssumption, Zenon
  <2> HIDE DEF s, v
  <2>5. v.is = "integer" /\ v.number \in Int /\ v.number >= 1 /\ v.number <= m
    BY <2>1, <2>2, <2>3, <2>4 DEF Fits, _assert_bounds
  <2>6. argument(F, k, m) = v.number
    BY <1>2, <2>5 DEF argument, v
  <2> QED
    BY <2>5, <2>6
<1> QED
  BY <1>1, <1>2

(* One of some texts, or the default.                                      *)
LEMMA NamedArgument ==
  ASSUME NEW name, NEW F, AcceptedBy(name, F), NEW k, NEW texts, NEW else \in texts,
         k \notin DOMAIN _SCOPE_PROPERTIES, built_in_tools[name].more[k] = OneOf(texts),
         texts # None
  PROVE  argument(F, k, else) \in texts
<1>1. CASE k \notin DOMAIN F
  BY <1>1 DEF argument
<1>2. CASE k \in DOMAIN F
  <2> DEFINE s == OneOf(texts)
             v == F[k]
  <2>1. s.type = "string" /\ s.enum = texts
    BY DEF OneOf
  <2>2. Fits(s, v)
    BY <1>2, ArgumentFits
  <2> HIDE DEF s
  <2>3. v.is = "string" /\ v.text \in texts
    BY <2>1, <2>2 DEF Fits, _assert_enum
  <2>4. argument(F, k, else) = v.text
    BY <1>2, <2>3 DEF argument
  <2> QED
    BY <2>3, <2>4
<1> QED
  BY <1>1, <1>2

-----------------------------------------------------------------------------
(* The scope of an answer                                                  *)
KeepsScope(base, q) ==
  /\ q.from \in Int /\ q.to \in Int /\ q.from <= q.to
  /\ \A d \in {"accounts", "departments", "centers"} : base[d] # {} => q[d] # {}

LEMMA IdsAreGiven ==
  ASSUME NEW F, ScopeArguments(F), NEW k \in IdLists, Given(F, k)
  PROVE  {Uuid[text] : text \in _uuid_list(F, k)} # {}
<1>1. k \in DOMAIN F /\ F[k].is = "array" /\ F[k].items # <<>> /\ F[k].items \in Seq(ToSet(F[k].items))
  BY DEF Given, ScopeArguments
<1> DEFINE s == F[k].items
<1>2. 1 \in DOMAIN s
  <2>1. s \in Seq(ToSet(s)) /\ s # <<>>
    BY <1>1
  <2> HIDE DEF s
  <2> QED
    BY <2>1
<1>3. s[1].text \in _uuid_list(F, k)
  BY <1>2, Zenon DEF _uuid_list
<1> QED
  BY <1>3

LEMMA MonthsAreNumbers ==
  ASSUME NEW m \in Month
  PROVE  m \in Int
BY AnalyticsAssumption

LEMMA MonthIsGiven ==
  ASSUME NEW F, Readable(F), NEW k \in {"period_from", "period_to"}, Given(F, k)
  PROVE  IsoDate[F[k].text] \in Int
<1>1. F[k].text \in Dates(F)
  BY DEF Dates
<1>2. F[k].text \in DOMAIN IsoDate
  BY <1>1 DEF Readable
<1>3. IsoDate[F[k].text] \in Month
  BY <1>2, ToolsAssumption
<1> QED
  BY <1>3, MonthsAreNumbers

LEMMA ScopeMade ==
  ASSUME NEW F, ScopeArguments(F), Readable(F), NEW base \in Scopes
  PROVE  LET q == _query_from_tool_args(base, F)
         IN ~(q.from > q.to) => KeepsScope(base, q)
<1> DEFINE q == _query_from_tool_args(base, F)
           months(k, else) == IF Given(F, k) THEN IsoDate[F[k].text] ELSE else
           list(k, else) == IF Given(F, k) THEN {Uuid[text] : text \in _uuid_list(F, k)} ELSE else
<1>1. /\ q.from = months("period_from", base.from) /\ q.to = months("period_to", base.to)
      /\ q.accounts = list("account_ids", base.accounts)
      /\ q.departments = list("department_ids", base.departments)
      /\ q.centers = list("cost_center_ids", base.centers)
  BY DEF _query_from_tool_args
<1>2. base.from \in Int /\ base.to \in Int
  <2>1. base \in Query
    BY ToolsAssumption
  <2>2. base.from \in Month /\ base.to \in Month
    BY <2>1 DEF Query
  <2> QED
    BY <2>2, MonthsAreNumbers
<1>3. q.from \in Int /\ q.to \in Int
  BY <1>1, <1>2, MonthIsGiven
<1>4. /\ base.accounts # {} => q.accounts # {}
      /\ base.departments # {} => q.departments # {}
      /\ base.centers # {} => q.centers # {}
  <2>1. \A k \in IdLists : Given(F, k) => {Uuid[text] : text \in _uuid_list(F, k)} # {}
    BY IdsAreGiven
  <2>2. "account_ids" \in IdLists /\ "department_ids" \in IdLists /\ "cost_center_ids" \in IdLists
    BY DEF IdLists
  <2> HIDE DEF q
  <2> QED
    BY <1>1, <2>1, <2>2, Zenon
<1> HIDE DEF q
<1>5. \A d \in {"accounts", "departments", "centers"} : base[d] # {} => q[d] # {}
  BY <1>4
<1>6. ~(q.from > q.to) => KeepsScope(base, q)
  BY <1>3, <1>5 DEF KeepsScope
<1> QED
  BY <1>6 DEF q

-----------------------------------------------------------------------------
(* Which report a tool gives                                               *)
Report(name, q, F) ==
  CASE name = "get_variance_summary" -> Succeeded(q, summary(q))
    [] name = "get_variance_breakdown" -> RunBreakdown(q, F)
    [] name = "get_top_unfavorable_variances" -> RunTop(q, F)
    [] name = "compare_periods" -> RunCompare(q, F)
    [] name = "calculate_scenario_preview" -> RunPreview(q, F)

LEMMA ToolRan ==
  ASSUME NEW name, NEW F, NEW base, _run_tool(name, F, base).status = "succeeded"
  PROVE  /\ Readable(F)
         /\ ~(_query_from_tool_args(base, F).from > _query_from_tool_args(base, F).to)
         /\ _run_tool(name, F, base) = Report(name, _query_from_tool_args(base, F), F)
<1> DEFINE q == _query_from_tool_args(base, F)
           answer == _run_tool(name, F, base)
<1>1. answer = IF ~Readable(F) THEN Failed
               ELSE IF q.from > q.to \/ q.version \notin Version THEN Rejected
               ELSE Report(name, q, F)
  BY Zenon DEF _run_tool, Report
<1>2. Failed.status # "succeeded" /\ Rejected.status # "succeeded"
  BY DEF Failed, Rejected
<1> HIDE DEF q, answer
<1>3. answer.status = "succeeded"
  BY DEF answer
<1>4. Readable(F) /\ ~(q.from > q.to) /\ answer = Report(name, q, F)
  BY <1>1, <1>2, <1>3, Zenon
<1> QED
  BY <1>4 DEF q, answer

LEMMA ReportOf ==
  ASSUME NEW name, NEW q, NEW F
  PROVE  /\ name = "get_variance_summary" => Report(name, q, F) = Succeeded(q, summary(q))
         /\ name = "get_variance_breakdown" => Report(name, q, F) = RunBreakdown(q, F)
         /\ name = "get_top_unfavorable_variances" => Report(name, q, F) = RunTop(q, F)
         /\ name = "compare_periods" => Report(name, q, F) = RunCompare(q, F)
         /\ name = "calculate_scenario_preview" => Report(name, q, F) = RunPreview(q, F)
BY DEF Report

LEMMA AnswerFields ==
  ASSUME NEW q, NEW p
  PROVE  /\ Succeeded(q, p).status = "succeeded" /\ Succeeded(q, p).scope = q
         /\ Succeeded(q, p).payload = p
BY DEF Succeeded

(* The first elements of a list.                                           *)
LEMMA FirstOnes ==
  ASSUME NEW S, NEW s \in Seq(S), NEW n \in 0..Len(s)
  PROVE  /\ SubSeq(s, 1, n) \in Seq(S) /\ Len(SubSeq(s, 1, n)) = n
         /\ \A i \in 1..n : SubSeq(s, 1, n)[i] = s[i] /\ i \in DOMAIN s
OBVIOUS

LEMMA AtMostIsLeast ==
  ASSUME NEW a \in Nat, NEW b \in Nat
  PROVE  AtMost(a, b) \in Nat /\ AtMost(a, b) <= a /\ AtMost(a, b) <= b
BY DEF AtMost

-----------------------------------------------------------------------------
(* Breakdowns                                                              *)
LEMMA GroupedBy ==
  ASSUME NEW name \in {"get_variance_breakdown", "get_top_unfavorable_variances"},
         NEW F, AcceptedBy(name, F)
  PROVE  argument(F, "group_by", "account") \in Groupings
<1>1. /\ built_in_tools[name].more["group_by"] = OneOf(Groupings)
      /\ "group_by" \notin DOMAIN _SCOPE_PROPERTIES /\ "account" \in Groupings
  BY DEF built_in_tools, GroupBy, Groupings, _SCOPE_PROPERTIES
<1>2. Groupings # None
  <2>1. GroupBy.enum = Groupings
    BY DEF GroupBy, OneOf, Groupings
  <2> QED
    BY <2>1, NoneAssumption, Zenon
<1> QED
  BY <1>1, <1>2, NamedArgument, Zenon

LEMMA BreakdownTold ==
  ASSUME LedgerInv, NEW F, SentValues(F), AcceptedBy("get_variance_breakdown", F), NEW q,
         NEW items, items = RunBreakdown(q, F).payload
  PROVE  /\ Len(items) <= 20 /\ Len(items) <= AiMaxResultRows
         /\ \A i, j \in DOMAIN items : items[i].group = items[j].group => i = j
<1> DEFINE name == "get_variance_breakdown"
           by == argument(F, "group_by", "account")
           sort == argument(F, "sort", "absolute_variance")
           top == argument(F, "limit", 20)
           all == _breakdown_items(q, by)
           o == sort_breakdown_items(all, sort, "desc")
           limit == AtMost(top, AiMaxResultRows)
           n == AtMost(Len(o), limit)
<1>1. items = SubSeq(o, 1, n)
  <2>1. RunBreakdown(q, F) = Succeeded(q, SubSeq(o, 1, n))
    BY Zenon DEF RunBreakdown
  <2> DEFINE cut == SubSeq(o, 1, n)
  <2> HIDE DEF cut
  <2>2. Succeeded(q, cut).payload = cut
    BY AnswerFields
  <2>3. RunBreakdown(q, F) = Succeeded(q, cut)
    BY <2>1 DEF cut
  <2>4. items = cut
    BY <2>2, <2>3
  <2> QED
    BY <2>4 DEF cut
<1>2. by \in Groupings
  BY GroupedBy
<1>3. sort \in Sorts
  <2>1. /\ built_in_tools[name].more["sort"] = OneOf(Sorts)
        /\ "sort" \notin DOMAIN _SCOPE_PROPERTIES /\ "absolute_variance" \in Sorts
    <3>1. SortBy = OneOf(Sorts)
      BY DEF SortBy, Sorts, OneOf
    <3> QED
      BY <3>1 DEF built_in_tools, Sorts, _SCOPE_PROPERTIES
  <2>2. Sorts # None
    <3>1. SortBy.enum = Sorts
      BY DEF SortBy, OneOf, Sorts
    <3> QED
      BY <3>1, NoneAssumption, Zenon
  <2> QED
    BY <2>1, <2>2, NamedArgument, Zenon
<1>4. top \in 1..20
  <2>1. /\ built_in_tools[name].more["limit"] = Whole(1, 20)
        /\ "limit" \notin DOMAIN _SCOPE_PROPERTIES /\ 20 \in 1..20
    BY DEF built_in_tools, _SCOPE_PROPERTIES
  <2> QED
    BY <2>1, BoundedArgument
<1>5. SortedBreakdown(o, all, sort, "desc")
  BY <1>2, <1>3, BreakdownSorted
<1> HIDE DEF by, sort, top, o, all
<1>6. o \in Seq(all)
  BY <1>5 DEF SortedBreakdown
<1>7. n \in 0..Len(o) /\ n <= 20 /\ n <= AiMaxResultRows
  <2>1. limit \in Nat /\ limit <= top /\ limit <= AiMaxResultRows /\ AiMaxResultRows \in Nat
    <3>1. AiMaxResultRows \in Nat /\ top \in Nat
      BY <1>4, ToolsAssumption
    <3> QED
      BY <3>1, AtMostIsLeast
  <2>2. Len(o) \in Nat
    BY <1>6
  <2> HIDE DEF limit
  <2>3. n \in Nat /\ n <= Len(o) /\ n <= limit
    BY <2>1, <2>2, AtMostIsLeast
  <2> HIDE DEF n
  <2> QED
    BY <1>4, <2>1, <2>2, <2>3
<1> HIDE DEF n
<1>8. items \in Seq(all) /\ Len(items) = n /\ \A i \in 1..n : items[i] = o[i] /\ i \in DOMAIN o
  BY <1>1, <1>6, <1>7, FirstOnes
<1>9. ASSUME NEW i \in 1..n, NEW j \in 1..n, i < j, items[i].group = items[j].group
      PROVE  FALSE
  <2>1. o[i] \in all /\ o[j] \in all /\ Precedes(o[i], o[j], sort, "desc") /\ o[i].group = o[j].group
    BY <1>5, <1>6, <1>8, <1>9 DEF SortedBreakdown
  <2>2. o[i] = o[j]
    BY <2>1, ItemsToldApart DEF all
  <2>3. SortKey(o[i], sort) \in Int /\ o[i].group \in Int
    BY <1>2, <1>3, <2>1, ItemNumbers DEF all
  <2> QED
    BY <2>1, <2>2, <2>3 DEF Precedes, KeyOf
<1>10. DOMAIN items = 1..n /\ n \in Int
  BY <1>7, <1>8
<1>11. \A i, j \in DOMAIN items : items[i].group = items[j].group => i = j
  <2> SUFFICES ASSUME NEW i \in 1..n, NEW j \in 1..n, items[i].group = items[j].group PROVE i = j
    BY <1>10
  <2>1. i < j \/ j < i \/ i = j
    BY <1>10
  <2> QED
    BY <1>9, <2>1
<1> QED
  BY <1>7, <1>8, <1>11

-----------------------------------------------------------------------------
(* Shares                                                                  *)
LEMMA RoundedShare ==
  ASSUME NEW m \in Int, NEW u \in Int, NEW d \in Nat \ {0}
  PROVE  LET c == RoundHalfEven(m * u, d)
         IN c \in Int /\ -d <= 2 * (u * m - d * c) /\ 2 * (u * m - d * c) <= d
<1>1. m * u \in Int /\ m * u = u * m
  BY Z3
<1> DEFINE n == m * u
           c == RoundHalfEven(n, d)
<1> HIDE DEF n
<1>2. n \in Int /\ n = u * m
  BY <1>1 DEF n
<1>3. c \in Int /\ -d <= 2 * (n - d * c) /\ 2 * (n - d * c) <= d
  BY <1>2, RoundingIsFair
<1> HIDE DEF c
<1>4. c \in Int /\ -d <= 2 * (u * m - d * c) /\ 2 * (u * m - d * c) <= d
  BY <1>2, <1>3
<1> QED
  BY <1>4 DEF c, n

(* Rounding errors add up to half a quantum for each share at most.        *)
LEMMA SharesNearWhole ==
  ASSUME NEW S, IsFiniteSet(S), NEW m, NEW c, NEW u \in Int, NEW d \in Nat \ {0},
         \A i \in S : /\ m[i] \in Int /\ c[i] \in Int
                      /\ -d <= 2 * (u * m[i] - d * c[i]) /\ 2 * (u * m[i] - d * c[i]) <= d
  PROVE  LET off == 2 * (u * Total(m, S) - d * Total(c, S))
         IN -(d * Cardinality(S)) <= off /\ off <= d * Cardinality(S)
<1> DEFINE off(T) == 2 * (u * Total(m, T) - d * Total(c, T))
           G == {T \in SUBSET S : -(d * Cardinality(T)) <= off(T) /\ off(T) <= d * Cardinality(T)}
<1>1. {} \in G
  <2>1. Total(m, {}) = 0 /\ Total(c, {}) = 0 /\ Cardinality({}) = 0
    BY TotalEmpty, FS_EmptySet
  <2>2. u * 0 = 0 /\ d * 0 = 0
    OBVIOUS
  <2>3. off({}) = 0 /\ d * Cardinality({}) = 0
    BY <2>1, <2>2
  <2> HIDE DEF off
  <2> QED
    BY <2>3
<1>2. ASSUME NEW T \in SUBSET S, NEW x \in S \ T, T \in G
      PROVE  T \cup {x} \in G
  <2> DEFINE a == Total(m, T)
             b == Total(c, T)
             k == Cardinality(T)
  <2>1. IsFiniteSet(T) /\ \A i \in T \cup {x} : m[i] \in Int /\ c[i] \in Int
    BY FS_Subset
  <2>2. /\ Total(m, T \cup {x}) = m[x] + a /\ a \in Int
        /\ Total(c, T \cup {x}) = c[x] + b /\ b \in Int
    BY <2>1, TotalAdds
  <2>3. Cardinality(T \cup {x}) = k + 1 /\ k \in Nat
    BY <2>1, FS_AddElement, FS_CardinalityType
  <2>4. -(d * k) <= 2 * (u * a - d * b) /\ 2 * (u * a - d * b) <= d * k
    BY <1>2
  <2>5. /\ m[x] \in Int /\ c[x] \in Int
        /\ -d <= 2 * (u * m[x] - d * c[x]) /\ 2 * (u * m[x] - d * c[x]) <= d
    OBVIOUS
  <2> HIDE DEF a, b, k
  <2>6. /\ u * (m[x] + a) = u * m[x] + u * a /\ d * (c[x] + b) = d * c[x] + d * b
        /\ d * (k + 1) = d * k + d
    <3>1. u * (m[x] + a) = u * m[x] + u * a
      BY <2>2, <2>5, Distr
    <3>2. d * (c[x] + b) = d * c[x] + d * b
      BY <2>2, <2>5, Distr
    <3>3. d * (k + 1) = d * k + d * 1 /\ d * 1 = d
      BY <2>3, Distr
    <3> QED
      BY <3>1, <3>2, <3>3
  <2>7. /\ u * m[x] \in Int /\ u * a \in Int /\ d * c[x] \in Int /\ d * b \in Int /\ d * k \in Int
    BY <2>2, <2>3, <2>5
  <2>8. \A um, ua, dc, db, dk \in Int :
          /\ -dk <= 2 * (ua - db) /\ 2 * (ua - db) <= dk
          /\ -d <= 2 * (um - dc) /\ 2 * (um - dc) <= d
          => /\ -(dk + d) <= 2 * ((um + ua) - (dc + db))
             /\ 2 * ((um + ua) - (dc + db)) <= dk + d
    OBVIOUS
  <2> DEFINE um == u * m[x]
             ua == u * a
             dc == d * c[x]
             db == d * b
             dk == d * k
  <2> HIDE DEF um, ua, dc, db, dk
  <2>11. /\ -(dk + d) <= 2 * ((um + ua) - (dc + db))
         /\ 2 * ((um + ua) - (dc + db)) <= dk + d
    <3>1. um \in Int /\ ua \in Int /\ dc \in Int /\ db \in Int /\ dk \in Int
      BY <2>7 DEF um, ua, dc, db, dk
    <3>2. -dk <= 2 * (ua - db) /\ 2 * (ua - db) <= dk
      BY <2>4 DEF ua, db, dk
    <3>3. -d <= 2 * (um - dc) /\ 2 * (um - dc) <= d
      BY <2>5 DEF um, dc
    <3> QED
      BY <2>8, <3>1, <3>2, <3>3
  <2>9. /\ -(d * (k + 1)) <= 2 * (u * (m[x] + a) - d * (c[x] + b))
        /\ 2 * (u * (m[x] + a) - d * (c[x] + b)) <= d * (k + 1)
    BY <2>6, <2>11, Zenon DEF um, ua, dc, db, dk
  <2>10. /\ -(d * Cardinality(T \cup {x})) <= off(T \cup {x})
         /\ off(T \cup {x}) <= d * Cardinality(T \cup {x})
    BY <2>2, <2>3, <2>9, Zenon
  <2> HIDE DEF off
  <2> QED
    BY <2>10
<1>3. S \in G
  <2> HIDE DEF G
  <2> QED
    BY <1>1, <1>2, SetOneByOne
<1> QED
  BY <1>3

(* A sum of numbers above zero is above zero.                              *)
LEMMA TotalAbove ==
  ASSUME NEW S, IsFiniteSet(S), S # {}, NEW m, \A i \in S : m[i] \in Nat \ {0}
  PROVE  Total(m, S) \in Nat \ {0}
<1> DEFINE G == {T \in SUBSET S : T # {} => Total(m, T) \in Nat \ {0}}
<1>1. {} \in G
  OBVIOUS
<1>2. ASSUME NEW T \in SUBSET S, NEW x \in S \ T, T \in G
      PROVE  T \cup {x} \in G
  <2>1. \A i \in T \cup {x} : m[i] \in Int
    OBVIOUS
  <2>2. IsFiniteSet(T)
    BY FS_Subset
  <2>3. Total(m, T \cup {x}) = m[x] + Total(m, T) /\ Total(m, T) \in Int
    BY <2>1, <2>2, TotalAdds
  <2>4. T = {} => Total(m, T) = 0
    BY TotalEmpty
  <2>5. m[x] \in Nat \ {0} /\ (T # {} => Total(m, T) \in Nat \ {0})
    BY <1>2
  <2>6. Total(m, T \cup {x}) \in Nat \ {0}
    BY <2>3, <2>4, <2>5
  <2> QED
    BY <2>6
<1>3. S \in G
  <2>1. \A T \in SUBSET S : \A x \in S \ T : T \in G => T \cup {x} \in G
    BY <1>2
  <2> HIDE DEF G
  <2> QED
    BY <1>1, <2>1, SetOneByOne
<1> QED
  BY <1>3

(* The shares of values above zero.                                        *)
LEMMA SharesOfTotal ==
  ASSUME NEW n \in Nat \ {0}, NEW m, \A i \in 1..n : m[i] \in Nat \ {0},
         NEW c, \A i \in 1..n : c[i] = IF Total(m, 1..n) = 0 THEN None
                                       ELSE RoundHalfEven(m[i] * RatioUnit, Total(m, 1..n))
  PROVE  Magnitude(Total(c, 1..n) - RatioUnit) * 2 <= n
<1> DEFINE d == Total(m, 1..n)
           C == Total(c, 1..n)
           U == RatioUnit
<1>1. IsFiniteSet(1..n) /\ Cardinality(1..n) = n /\ U \in Int
  BY UptoIsFinite, MoneyAssumption
<1>2. d \in Nat \ {0}
  <2>1. 1 \in 1..n
    OBVIOUS
  <2> DEFINE N == 1..n
  <2>2. IsFiniteSet(N) /\ N # {} /\ \A i \in N : m[i] \in Nat \ {0}
    BY <1>1, <2>1
  <2> HIDE DEF N
  <2>3. Total(m, N) \in Nat \ {0}
    BY <2>2, TotalAbove
  <2> QED
    BY <2>3 DEF N
<1> HIDE DEF d, U
<1>3. ASSUME NEW i \in 1..n
      PROVE  /\ m[i] \in Int /\ c[i] \in Int
             /\ -d <= 2 * (U * m[i] - d * c[i]) /\ 2 * (U * m[i] - d * c[i]) <= d
  <2>1. c[i] = RoundHalfEven(m[i] * U, d) /\ m[i] \in Int
    BY <1>2 DEF d, U
  <2> QED
    BY <1>1, <1>2, <2>1, RoundedShare
<1>4. LET off == 2 * (U * Total(m, 1..n) - d * Total(c, 1..n))
      IN -(d * Cardinality(1..n)) <= off /\ off <= d * Cardinality(1..n)
  BY <1>1, <1>2, <1>3, SharesNearWhole
<1>5. C \in Int
  BY <1>1, <1>3, TotalIsNumber
<1>6. -(d * n) <= 2 * (U * d - d * C) /\ 2 * (U * d - d * C) <= d * n
  BY <1>1, <1>4 DEF d
<1> HIDE DEF C
<1>7. U * d - d * C = d * (U - C) /\ U - C \in Int
  BY <1>1, <1>2, <1>5, Z3
<1>8. d * (2 * (U - C)) = 2 * (d * (U - C)) /\ d * (-n) = -(d * n)
  BY <1>1, <1>2, <1>7, Z3
<1>9. d * (-n) <= d * (2 * (U - C)) /\ d * (2 * (U - C)) <= d * n
  BY <1>6, <1>7, <1>8
<1>10. -n <= 2 * (U - C) /\ 2 * (U - C) <= n
  <2> DEFINE e == 2 * (U - C)
  <2>1. e \in Int /\ -n \in Int /\ n \in Int
    BY <1>7
  <2>2. d * (-n) <= d * e /\ d * e <= d * n
    BY <1>9
  <2> HIDE DEF e
  <2>3. d * (-n) \in Int /\ d * e \in Int /\ d * n \in Int
    BY <1>2, <2>1
  <2>4. ~(d * e < d * (-n)) /\ ~(d * n < d * e)
    BY <2>2, <2>3
  <2>5. ~(e < -n) /\ ~(n < e)
    BY <1>2, <2>1, <2>4, MulLess
  <2>6. -n <= e /\ e <= n
    BY <2>1, <2>5
  <2> QED
    BY <2>6 DEF e
<1>11. Magnitude(C - U) * 2 <= n
  BY <1>1, <1>5, <1>10 DEF Magnitude
<1> QED
  BY <1>11 DEF C, U

-----------------------------------------------------------------------------
(* The worst variances                                                     *)
LEMMA UnfavorableMoved ==
  ASSUME LedgerInv, NEW q, NEW by \in Groupings, NEW x \in _breakdown_items(q, by),
         x.metrics.favorability = "unfavorable"
  PROVE  Magnitude(x.metrics.variance) \in Nat \ {0}
<1>1. PICK g \in Kinds(q, by) : x = ItemOf(q, by, g)
  BY ItemsOfGroups
<1> DEFINE v == SumOf(RowsOf(q, by, g), "actual") - SumOf(RowsOf(q, by, g), "budget")
           types == {TypeOf[ledger[i].account] : i \in RowsOf(q, by, g)}
<1>2. x.metrics.variance = v
  BY <1>1, ItemFields
<1>3. x.metrics.favorability = favorability_for_account_types(v, types)
  BY <1>1, ItemFavorability
<1> HIDE DEF v, types
<1>4. v # 0
  BY <1>3, Zenon DEF favorability_for_account_types
<1>5. v \in Int
  BY <1>2, ItemNumbers DEF Sorts
<1> QED
  BY <1>2, <1>4, <1>5 DEF Magnitude

(* A share and the item it is of.                                          *)
SharesAreOf(p, m, n) ==
  /\ DOMAIN p = 1..n
  /\ \A i \in 1..n : p[i].contribution = IF Total(m, 1..n) = 0 THEN None
                                         ELSE RoundHalfEven(m[i] * RatioUnit, Total(m, 1..n))

LEMMA ContributionsAre ==
  ASSUME NEW items, NEW n \in Nat, DOMAIN items = 1..n
  PROVE  SharesAreOf(_with_contribution(items), [i \in 1..n |-> Magnitude(items[i].metrics.variance)], n)
<1> DEFINE m == [i \in 1..n |-> Magnitude(items[i].metrics.variance)]
           p == _with_contribution(items)
           total == SumFunction(m)
           share(i) == IF total = 0 THEN None
                       ELSE RoundHalfEven(Magnitude(items[i].metrics.variance) * RatioUnit, total)
<1>1. p = [i \in 1..n |-> [item |-> items[i], contribution |-> share(i)]]
  BY Zenon DEF _with_contribution
<1>2. \A i \in 1..n : m[i] = Magnitude(items[i].metrics.variance)
  OBVIOUS
<1>3. total = Total(m, 1..n)
  BY SumIsTotal
<1>4. DOMAIN p = 1..n /\ \A i \in 1..n : p[i].contribution = share(i)
  BY <1>1
<1> HIDE DEF p, m
<1>5. \A i \in 1..n : share(i) = IF Total(m, 1..n) = 0 THEN None
                                 ELSE RoundHalfEven(m[i] * RatioUnit, Total(m, 1..n))
  BY <1>2, <1>3, Zenon
<1> HIDE DEF share
<1>6. SharesAreOf(p, m, n)
  BY <1>4, <1>5, Zenon DEF SharesAreOf
<1> QED
  BY <1>6 DEF p, m

(* What the shares of some items come to.                                  *)
LEMMA SharesMakeWhole ==
  ASSUME NEW n \in Nat \ {0}, NEW m, \A i \in 1..n : m[i] \in Nat \ {0},
         NEW p, SharesAreOf(p, m, n)
  PROVE  Magnitude(Shares(p) - RatioUnit) * 2 <= n
<1> DEFINE c == [i \in 1..n |-> p[i].contribution]
<1>1. Shares(p) = SumFunction(c) /\ DOMAIN c = 1..n
  BY DEF Shares, SharesAreOf
<1>2. SumFunction(c) = Total(c, 1..n)
  BY <1>1, SumIsTotal
<1>3. \A i \in 1..n : c[i] = p[i].contribution
  OBVIOUS
<1> HIDE DEF c
<1>4. \A i \in 1..n : c[i] = IF Total(m, 1..n) = 0 THEN None
                             ELSE RoundHalfEven(m[i] * RatioUnit, Total(m, 1..n))
  BY <1>3, Zenon DEF SharesAreOf
<1>5. Magnitude(Total(c, 1..n) - RatioUnit) * 2 <= n
  BY <1>4, SharesOfTotal
<1> QED
  BY <1>1, <1>2, <1>5

LEMMA TopTold ==
  ASSUME LedgerInv, NEW F, SentValues(F), AcceptedBy("get_top_unfavorable_variances", F), NEW q,
         NEW items, items = RunTop(q, F).payload
  PROVE  /\ Len(items) <= 10
         /\ items # <<>> => Magnitude(Shares(items) - RatioUnit) * 2 <= Len(items)
<1> DEFINE name == "get_top_unfavorable_variances"
           by == argument(F, "group_by", "account")
           limit == argument(F, "limit", 10)
           bad == {x \in _breakdown_items(q, by) : x.metrics.favorability = "unfavorable"}
           o == sort_breakdown_items(bad, "absolute_variance", "desc")
           n == IF Len(o) > limit THEN limit ELSE Len(o)
           worst == top_unfavorable(q, by, limit)
<1>1. items = _with_contribution(worst)
  BY AnswerFields, Zenon DEF RunTop
<1>2. worst = SubSeq(o, 1, n)
  BY Zenon DEF top_unfavorable
<1>3. by \in Groupings
  BY GroupedBy
<1>4. limit \in 1..10
  <2>1. /\ built_in_tools[name].more["limit"] = Whole(1, 10)
        /\ "limit" \notin DOMAIN _SCOPE_PROPERTIES /\ 10 \in 1..20
    BY DEF built_in_tools, _SCOPE_PROPERTIES
  <2> QED
    BY <2>1, BoundedArgument
<1> HIDE DEF by, limit, worst
<1>5. \A x \in bad : Magnitude(x.metrics.variance) \in Nat \ {0}
  BY <1>3, UnfavorableMoved
<1>6. o \in Seq(bad)
  <2>1. bad \in SUBSET _breakdown_items(q, by) /\ "absolute_variance" \in Sorts
    BY DEF Sorts
  <2> HIDE DEF bad
  <2> QED
    BY <1>3, <2>1, BreakdownSorted DEF SortedBreakdown
<1> HIDE DEF bad, o
<1>7. n \in 0..Len(o) /\ n \in Nat /\ n <= 10
  BY <1>4, <1>6
<1> HIDE DEF n
<1>8. worst \in Seq(bad) /\ Len(worst) = n
  BY <1>2, <1>6, <1>7, FirstOnes
<1> DEFINE m == [i \in 1..n |-> Magnitude(worst[i].metrics.variance)]
<1>9. DOMAIN worst = 1..n /\ \A i \in 1..n : m[i] \in Nat \ {0}
  BY <1>5, <1>7, <1>8
<1>10. SharesAreOf(items, m, n)
  BY <1>1, <1>7, <1>9, ContributionsAre
<1> HIDE DEF m
<1>11. items = [i \in 1..n |-> items[i]]
  BY <1>1, <1>9, Zenon DEF _with_contribution
<1>12. items \in Seq({items[i] : i \in 1..n}) /\ Len(items) = n
  BY <1>7, <1>11
<1>13. items # <<>> => n # 0
  BY <1>7, <1>12
<1> QED
  BY <1>7, <1>9, <1>10, <1>12, <1>13, SharesMakeWhole

-----------------------------------------------------------------------------
(* Comparing periods                                                       *)
HasScope(q) == {"from", "to", "accounts", "departments", "centers"} \subseteq DOMAIN q

LEMMA QueriesHaveScope ==
  ASSUME NEW base, NEW F
  PROVE  HasScope(_query_from_tool_args(base, F))
BY DEF HasScope, _query_from_tool_args

(* No month is in two ranges that do not overlap.                          *)
LEMMA RangesApart ==
  ASSUME LedgerInv, NEW q, NEW p, q.from \in Int, q.to \in Int, p.from \in Int, p.to \in Int,
         ~_ranges_overlap(q.from, q.to, p.from, p.to)
  PROVE  Disjoint(q, p)
<1> SUFFICES ASSUME NEW i \in _apply_filters(q), i \in _apply_filters(p)
             PROVE  FALSE
  BY DEF Disjoint
<1>1. i \in DOMAIN ledger
  BY FilteredRows
<1> DEFINE month == ledger[i].period
<1>2. month \in Int
  BY <1>1, LedgerRows DEF IsRow
<1>3. month >= q.from /\ month <= q.to /\ month >= p.from /\ month <= p.to
  BY DEF _apply_filters
<1> HIDE DEF month
<1> QED
  BY <1>2, <1>3 DEF _ranges_overlap

LEMMA ComparedRanges ==
  ASSUME NEW q, NEW F, RunCompare(q, F).status = "succeeded"
  PROVE  LET range == _compare_range(q, F)
             from == IsoDate[range.from]
             to == IsoDate[range.to]
             left == IF _ranges_overlap(q.from, q.to, from, to)
                     THEN [q EXCEPT !.to = q.from] ELSE q
             compared == compare_periods(left, from, to)
         IN /\ {range.from, range.to} \subseteq DOMAIN IsoDate
            /\ ~_ranges_overlap(left.from, left.to, from, to)
            /\ RunCompare(q, F) =
                 Succeeded(left, [compared |-> compared, change |-> _period_change(compared),
                                  other |-> [left EXCEPT !.from = from, !.to = to]])
<1> DEFINE range == _compare_range(q, F)
           from == IsoDate[range.from]
           to == IsoDate[range.to]
           left == IF _ranges_overlap(q.from, q.to, from, to)
                   THEN [q EXCEPT !.to = q.from] ELSE q
           compared == compare_periods(left, from, to)
           told == Succeeded(left, [compared |-> compared, change |-> _period_change(compared),
                                    other |-> [left EXCEPT !.from = from, !.to = to]])
           answer == RunCompare(q, F)
<1>1. answer = IF {range.from, range.to} \subseteq DOMAIN IsoDate
               THEN IF _ranges_overlap(left.from, left.to, from, to) \/ from > to THEN Rejected ELSE told
               ELSE Failed
  BY Zenon DEF RunCompare
<1>2. Failed.status # "succeeded" /\ Rejected.status # "succeeded"
  BY DEF Failed, Rejected
<1>3. answer.status = "succeeded"
  OBVIOUS
<1> HIDE DEF answer, told, left, from, to, range
<1>4. /\ {range.from, range.to} \subseteq DOMAIN IsoDate
      /\ ~_ranges_overlap(left.from, left.to, from, to)
      /\ answer = told
  BY <1>1, <1>2, <1>3, Zenon
<1> QED
  BY <1>4, Zenon DEF answer, told, left, from, to, range

LEMMA CompareTold ==
  ASSUME LedgerInv, NEW base, NEW q, HasScope(q), KeepsScope(base, q), NEW F,
         NEW answer, answer = RunCompare(q, F), answer.status = "succeeded"
  PROVE  /\ KeepsScope(base, answer.scope)
         /\ Disjoint(answer.scope, answer.payload.other)
         /\ answer.payload.change.actual
              = summary(answer.payload.other).actual - summary(answer.scope).actual
<1> DEFINE range == _compare_range(q, F)
           from == IsoDate[range.from]
           to == IsoDate[range.to]
           left == IF _ranges_overlap(q.from, q.to, from, to)
                   THEN [q EXCEPT !.to = q.from] ELSE q
           other == [left EXCEPT !.from = from, !.to = to]
           compared == compare_periods(left, from, to)
           payload == [compared |-> compared, change |-> _period_change(compared), other |-> other]
<1>1. /\ {range.from, range.to} \subseteq DOMAIN IsoDate
      /\ ~_ranges_overlap(left.from, left.to, from, to)
      /\ answer = Succeeded(left, payload)
  BY ComparedRanges, Zenon
<1> HIDE DEF range
<1>2. from \in Int /\ to \in Int
  <2>1. from \in Month /\ to \in Month
    BY <1>1, ToolsAssumption
  <2> QED
    BY <2>1, MonthsAreNumbers
<1>3. compared = [baseline |-> summary(left), comparison |-> summary(other)]
  BY Zenon DEF compare_periods
<1> HIDE DEF from, to
<1>4. /\ HasScope(left) /\ left.from \in Int /\ left.to \in Int /\ left.from <= left.to
      /\ \A d \in {"accounts", "departments", "centers"} : left[d] = q[d]
  <2>1. q.from \in Int /\ q.to \in Int /\ q.from <= q.to
    BY DEF KeepsScope
  <2>2. CASE _ranges_overlap(q.from, q.to, from, to)
    <3> DEFINE s == [q EXCEPT !.to = q.from]
    <3>1. left = s
      BY <2>2, Zenon
    <3>2. /\ HasScope(s) /\ s.from = q.from /\ s.to = q.from
          /\ \A d \in {"accounts", "departments", "centers"} : s[d] = q[d]
      BY DEF HasScope
    <3> HIDE DEF s, left
    <3> QED
      BY <2>1, <3>1, <3>2
  <2>3. CASE ~_ranges_overlap(q.from, q.to, from, to)
    <3>1. left = q
      BY <2>3, Zenon
    <3> HIDE DEF left
    <3> QED
      BY <2>1, <3>1
  <2> QED
    BY <2>2, <2>3
<1> HIDE DEF left, compared
<1>5. other.from = from /\ other.to = to
  BY <1>4 DEF HasScope
<1> HIDE DEF other
<1>6. /\ payload.other = other /\ payload.change = _period_change(compared)
      /\ answer.scope = left /\ answer.payload = payload
  BY <1>1, AnswerFields
<1> HIDE DEF payload
<1>7. KeepsScope(base, left)
  BY <1>4 DEF KeepsScope
<1>8. Disjoint(left, other)
  BY <1>1, <1>2, <1>4, <1>5, RangesApart
<1>9. _period_change(compared).actual = summary(other).actual - summary(left).actual
  BY <1>3 DEF _period_change
<1> QED
  BY <1>6, <1>7, <1>8, <1>9

-----------------------------------------------------------------------------
(* Previews                                                                *)
LEMMA PreviewTold ==
  ASSUME LedgerInv, NEW F, AcceptedBy("calculate_scenario_preview", F), NEW q,
         NEW answer, answer = RunPreview(q, F), answer.status = "succeeded"
  PROVE  answer.scope = q /\ answer.payload.baseline \in {summary(q).budget, summary(q).actual}
<1> DEFINE name == "calculate_scenario_preview"
           type == argument(F, "baseline_type", "budget")
           list == IF "rules" \in DOMAIN F THEN F["rules"].items ELSE <<>>
           parsed == [i \in DOMAIN list |-> parse_rule(list[i])]
           whole == preview(q, type, parsed)
           first == FirstMonths(whole, built_in_tools[name].row_budget)
           told == Succeeded(q, first)
<1>1. type \in {"budget", "actual"}
  <2>1. /\ built_in_tools[name].more["baseline_type"] = OneOf({"budget", "actual"})
        /\ "baseline_type" \notin DOMAIN _SCOPE_PROPERTIES
    BY DEF built_in_tools, _SCOPE_PROPERTIES
  <2>2. {"budget", "actual"} # None
    BY NoneAssumption, Zenon
  <2> QED
    BY <2>1, <2>2, NamedArgument, Zenon
<1>2. answer \in {Failed, Rejected, told}
  BY Zenon DEF RunPreview
<1>3. Failed.status # "succeeded" /\ Rejected.status # "succeeded"
  BY DEF Failed, Rejected
<1> HIDE DEF told
<1>4. answer = told
  BY <1>2, <1>3
<1> HIDE DEF first
<1>5. answer.scope = q /\ answer.payload = first
  BY <1>4, AnswerFields DEF told
<1>6. whole = PreviewOf(_baseline_grains(q, type), parsed)
  BY PreviewOfGrains
<1> HIDE DEF type, parsed, whole
<1>7. answer.payload.baseline = BaselineOf(_baseline_grains(q, type))
  <2>1. whole.baseline = BaselineOf(_baseline_grains(q, type)) /\ "baseline" \in DOMAIN whole
    BY <1>6 DEF PreviewOf
  <2>2. first.baseline = whole.baseline
    BY <2>1 DEF FirstMonths, first
  <2> QED
    BY <1>5, <2>1, <2>2
<1>8. answer.payload.baseline = SumOf(_apply_filters(q), type)
  BY <1>7, GrainsTotal DEF BaselineOf
<1>9. /\ summary(q).budget = SumOf(_apply_filters(q), "budget")
      /\ summary(q).actual = SumOf(_apply_filters(q), "actual")
  BY SummaryFields
<1> QED
  BY <1>1, <1>5, <1>8, <1>9

-----------------------------------------------------------------------------
(* Answers                                                                 *)

(* Only what is left without the organization is checked and run.          *)
LEMMA OwnIsExecuted ==
  ASSUME NEW name, NEW fields, NEW base
  PROVE  _execute_registered_tool(name, [is |-> "object", fields |-> fields], base)
           = IF name \in DOMAIN built_in_tools /\ AcceptedBy(name, Own(fields))
             THEN _run_tool(name, Own(fields), base) ELSE Rejected
<1> DEFINE A == [is |-> "object", fields |-> fields]
           P == [is |-> "object", fields |-> Own(fields)]
<1>1. Payload(A) = P
  BY PayloadIsOwn
<1>2. P.fields = Own(fields)
  OBVIOUS
<1> HIDE DEF A
<1>3. validate_arguments(name, A) <=> AcceptedBy(name, Own(fields))
  BY <1>1, Zenon DEF validate_arguments, AcceptedBy
<1> HIDE DEF P
<1>4. _execute_registered_tool(name, A, base)
        = IF name \in DOMAIN built_in_tools /\ AcceptedBy(name, Own(fields))
          THEN _run_tool(name, Own(fields), base) ELSE Rejected
  BY <1>1, <1>2, <1>3, Zenon DEF _execute_registered_tool
<1> QED
  BY <1>4, Zenon DEF A

LEMMA TenantChangesNothing ==
  ASSUME NEW name, NEW fields, NEW base, NEW both, Own(both) = Own(fields)
  PROVE  _execute_registered_tool(name, [is |-> "object", fields |-> fields], base)
           = _execute_registered_tool(name, [is |-> "object", fields |-> both], base)
<1> QED
  BY OwnIsExecuted, Zenon

LEMMA RunTellsTheReports ==
  ASSUME LedgerInv, NEW name \in DOMAIN built_in_tools, NEW F, SentValues(F), AcceptedBy(name, F),
         NEW base \in Scopes, NEW answer, answer = _run_tool(name, F, base),
         answer.status = "succeeded"
  PROVE  TellsTheReports(name, base, answer)
<1> DEFINE q == _query_from_tool_args(base, F)
<1>1. Readable(F) /\ ~(q.from > q.to) /\ answer = Report(name, q, F)
  BY ToolRan
<1>2. KeepsScope(base, q) /\ HasScope(q)
  <2>1. ScopeArguments(F)
    BY ScopeIsTyped
  <2> QED
    BY <1>1, <2>1, ScopeMade, QueriesHaveScope
<1> HIDE DEF q
<1>3. CASE name = "get_variance_summary"
  <2>1. answer.scope = q /\ answer.payload = summary(q)
    BY <1>1, <1>3, ReportOf, AnswerFields
  <2> QED
    BY <1>2, <1>3, <2>1 DEF TellsTheReports, KeepsScope
<1>4. CASE name = "get_variance_breakdown"
  <2>1. answer = RunBreakdown(q, F)
    BY <1>1, <1>4, ReportOf
  <2>2. answer.scope = q
    BY <2>1, AnswerFields, Zenon DEF RunBreakdown
  <2> DEFINE items == answer.payload
  <2>3. /\ Len(items) <= 20 /\ Len(items) <= AiMaxResultRows
        /\ \A i, j \in DOMAIN items : items[i].group = items[j].group => i = j
    BY <1>4, <2>1, BreakdownTold
  <2>4. built_in_tools[name].row_budget = 20
    BY <1>4 DEF built_in_tools
  <2> QED
    BY <1>2, <1>4, <2>2, <2>3, <2>4 DEF TellsTheReports, KeepsScope
<1>5. CASE name = "get_top_unfavorable_variances"
  <2>1. answer = RunTop(q, F)
    BY <1>1, <1>5, ReportOf
  <2>2. answer.scope = q
    BY <2>1, AnswerFields, Zenon DEF RunTop
  <2> DEFINE items == answer.payload
  <2>3. /\ Len(items) <= 10
        /\ items # <<>> => Magnitude(Shares(items) - RatioUnit) * 2 <= Len(items)
    BY <1>5, <2>1, TopTold
  <2>4. built_in_tools[name].row_budget = 10
    BY <1>5 DEF built_in_tools
  <2> QED
    BY <1>2, <1>5, <2>2, <2>3, <2>4 DEF TellsTheReports, KeepsScope
<1>6. CASE name = "compare_periods"
  <2>1. answer = RunCompare(q, F)
    BY <1>1, <1>6, ReportOf
  <2>2. /\ KeepsScope(base, answer.scope)
        /\ Disjoint(answer.scope, answer.payload.other)
        /\ answer.payload.change.actual
             = summary(answer.payload.other).actual - summary(answer.scope).actual
    BY <1>2, <2>1, CompareTold
  <2> QED
    BY <1>6, <2>2 DEF TellsTheReports, KeepsScope
<1>7. CASE name = "calculate_scenario_preview"
  <2>1. answer = RunPreview(q, F)
    BY <1>1, <1>7, ReportOf
  <2>2. answer.scope = q /\ answer.payload.baseline \in {summary(q).budget, summary(q).actual}
    BY <1>7, <2>1, PreviewTold
  <2> QED
    BY <1>2, <1>7, <2>2 DEF TellsTheReports, KeepsScope
<1>8. DOMAIN built_in_tools = {"get_variance_summary", "get_variance_breakdown",
                               "get_top_unfavorable_variances", "compare_periods",
                               "calculate_scenario_preview"}
  BY DEF built_in_tools
<1> QED
  BY <1>3, <1>4, <1>5, <1>6, <1>7, <1>8

LEMMA InvGivesReports == ToolsInv => ToolsTellTheReports
<1> SUFFICES ASSUME ToolsInv PROVE ToolsTellTheReports
  OBVIOUS
<1>1. PICK name, fields : request = Requesting(name, fields) /\ SentValues(fields)
  BY DEF ToolsInv
<1> DEFINE A == request.arguments
           tenant == [organization_id |-> [is |-> "string", text |-> "x"]]
           both == Merged(tenant, fields)
           other == [request.arguments EXCEPT !.fields = Merged(tenant, @)]
<1>2. request.name = name /\ A = [is |-> "object", fields |-> fields]
  BY <1>1 DEF Requesting
<1>3. other = [is |-> "object", fields |-> both]
  BY <1>2
<1> HIDE DEF other
<1>4. ASSUME NEW base \in Scopes, NEW answer, answer = _execute_registered_tool(name, A, base)
      PROVE  /\ answer = _execute_registered_tool(name, other, base)
             /\ answer.status = "succeeded" => TellsTheReports(name, base, answer)
  <2>1. answer = _execute_registered_tool(name, other, base)
    <3> DEFINE x == [is |-> "string", text |-> "x"]
    <3>1. Own(both) = Own(fields)
      <4>1. Own(Merged([organization_id |-> x], fields)) = Own(fields)
        BY TenantUnheard
      <4> QED
        BY <4>1
    <3> HIDE DEF x, both
    <3>2. _execute_registered_tool(name, [is |-> "object", fields |-> fields], base)
            = _execute_registered_tool(name, [is |-> "object", fields |-> both], base)
      BY <3>1, TenantChangesNothing
    <3> QED
      BY <1>2, <1>3, <1>4, <3>2, Zenon
  <2>2. answer = IF name \in DOMAIN built_in_tools /\ AcceptedBy(name, Own(fields))
                 THEN _run_tool(name, Own(fields), base) ELSE Rejected
    BY <1>2, <1>4, OwnIsExecuted, Zenon
  <2>3. Rejected.status # "succeeded"
    BY DEF Rejected
  <2>4. ASSUME answer.status = "succeeded" PROVE TellsTheReports(name, base, answer)
    <3>1. /\ name \in DOMAIN built_in_tools /\ AcceptedBy(name, Own(fields))
          /\ answer = _run_tool(name, Own(fields), base)
      BY <2>2, <2>3, <2>4, Zenon
    <3>2. SentValues(Own(fields))
      BY <1>1, OwnValues
    <3>3. LedgerInv
      BY DEF ToolsInv
    <3> QED
      BY <2>4, <3>1, <3>2, <3>3, RunTellsTheReports
  <2> QED
    BY <2>1, <2>4
<1> HIDE DEF A
<1> QED
  BY <1>2, <1>4, Zenon DEF ToolsTellTheReports, A, other

(* Whatever arguments a provider sends, a tool refuses them or answers     *)
(* with the reports of the scope it names, for every ledger, and listens   *)
(* to no organization (ToolRegistry.validate_arguments, _run_tool).        *)
THEOREM ToolsAnswerTruly == ToolsSpec => []ToolsTellTheReports
<1>1. ToolsInv => ToolsTellTheReports
  BY InvGivesReports
<1> QED
  BY <1>1, ToolsInvariant, PTL
=============================================================================

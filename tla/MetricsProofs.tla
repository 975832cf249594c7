--------------------------- MODULE MetricsProofs ----------------------------
(***************************************************************************)
(* Facts about the numbers of Metrics, for counts of any size: the types   *)
(* of the ratios, their bound, and the agreement of the ones that MBI.py   *)
(* computes in two ways.                                                   *)
(***************************************************************************)
EXTENDS Metrics, TLAPS

Counts == [Lists -> Nat]

\* A quotient is what lies between two multiples of the divisor.
LEMMA Quotient ==
  ASSUME NEW a \in Nat, NEW b \in Nat \ {0}, NEW q \in Nat
  PROVE  a \div b = q <=> b * q <= a /\ a < b * (q + 1)
OBVIOUS

LEMMA QuotientType ==
  ASSUME NEW a \in Nat, NEW b \in Nat \ {0}
  PROVE  /\ a \div b \in Nat
         /\ b * (a \div b) <= a
         /\ a < b * (a \div b + 1)
OBVIOUS

LEMMA TimesGrows ==
  ASSUME NEW a \in Nat, NEW x \in Nat, NEW y \in Nat
  PROVE  /\ x <= y => a * x <= a * y
         /\ a # 0 /\ x < y => a * x < a * y
OBVIOUS

\* A common factor of both terms of a fraction does not matter.
LEMMA QuotientCancels ==
  ASSUME NEW a \in Nat \ {0}, NEW x \in Nat, NEW y \in Nat \ {0}
  PROVE  (a * x) \div (a * y) = x \div y
<1> DEFINE q == x \div y
<1>1. q \in Nat /\ y * q <= x /\ x < y * (q + 1)
  BY QuotientType
<1> HIDE DEF q
<1>2. a * x \in Nat /\ a * y \in Nat \ {0} /\ y * q \in Nat /\ y * (q + 1) \in Nat
  BY <1>1
<1>3. a * (y * q) <= a * x /\ a * x < a * (y * (q + 1))
  BY <1>1, <1>2, TimesGrows
<1>4. a * (y * q) = (a * y) * q /\ a * (y * (q + 1)) = (a * y) * (q + 1)
  BY <1>1
<1>5. (a * y) * q <= a * x /\ a * x < (a * y) * (q + 1)
  BY <1>3, <1>4
<1>6. (a * x) \div (a * y) = q
  BY <1>1, <1>2, <1>5, Quotient
<1> QED BY <1>6 DEF q

-----------------------------------------------------------------------------
(***************************************************************************)
(* percent()                                                               *)
(***************************************************************************)
\* A part of the whole is at most 100 percent.
LEMMA RoundType ==
  ASSUME NEW num \in Nat, NEW den \in Nat \ {0}
  PROVE  /\ Round(num, den) \in Nat
         /\ num <= den => Round(num, den) <= 10000
<1> DEFINE a == 20000 * num + den
           b == 2 * den
           q == a \div b
<1>1. a \in Nat /\ b \in Nat \ {0}
  OBVIOUS
<1>2. num <= den => a < b * 10001
  OBVIOUS
<1> HIDE DEF a, b
<1>3. q \in Nat /\ b * q <= a
  BY <1>1, QuotientType
<1> HIDE DEF q
<1>4. num <= den => q < 10001
  <2> SUFFICES ASSUME num <= den, 10001 <= q PROVE FALSE
    BY <1>3
  <2>1. b * 10001 <= b * q
    BY <1>1, <1>3, TimesGrows
  <2>2. b * 10001 \in Nat /\ b * q \in Nat
    BY <1>1, <1>3
  <2> QED BY <1>1, <1>2, <1>3, <2>1, <2>2
<1> QED BY <1>3, <1>4 DEF Round, q, a, b

LEMMA PercentType ==
  ASSUME NEW num \in Nat, NEW den \in Nat
  PROVE  percent(num, den) \in Percents
  BY RoundType DEF percent, Percents, One, Error

LEMMA PercentComplType ==
  ASSUME NEW num \in Nat, NEW den \in Nat, num <= den
  PROVE  percent_compl(num, den) \in Percents
<1>1. CASE den = 0
  BY <1>1 DEF percent_compl, Percents, Error
<1>2. CASE den # 0
  <2>1. Round(num, den) \in Nat /\ Round(num, den) <= 10000
    BY <1>2, RoundType
  <2>2. 10000 - Round(num, den) \in Nat
    BY <2>1
  <2> QED BY <1>2, <2>2 DEF percent_compl, Percents, One
<1> QED BY <1>1, <1>2

\* The text that percent() gives for 100 has the value of the number it replaces.
LEMMA PercentValue ==
  ASSUME NEW num \in Nat, NEW den \in Nat \ {0}, num <= den
  PROVE  percent(num, den).val = Round(num, den)
<1>1. Round(num, den) \in Nat /\ Round(num, den) <= 10000
  BY RoundType
<1>2. Round(num, den) \div 100 = 100 => Round(num, den) = 10000
  BY <1>1
<1> QED BY <1>2 DEF percent, One

\* A quotient is at least c when the dividend is c times the divisor.
LEMMA QuotientAtLeast ==
  ASSUME NEW a \in Nat, NEW b \in Nat \ {0}, NEW c \in Nat
  PROVE  c <= a \div b <=> b * c <= a
<1> DEFINE q == a \div b
<1>1. q \in Nat /\ b * q <= a /\ a < b * (q + 1)
  BY QuotientType
<1> HIDE DEF q
<1>2. b * q \in Nat /\ b * (q + 1) \in Nat /\ b * c \in Nat
  BY <1>1
<1>3. ASSUME c <= q PROVE b * c <= a
  BY <1>1, <1>2, <1>3, TimesGrows
<1>4. ASSUME b * c <= a PROVE c <= q
  <2> SUFFICES ASSUME q + 1 <= c PROVE FALSE
    BY <1>1
  <2>1. b * (q + 1) <= b * c
    BY <1>1, TimesGrows
  <2> QED BY <1>1, <1>2, <1>4, <2>1
<1> QED BY <1>3, <1>4 DEF q

\* When percent() gives a string.
LEMMA StringWhen ==
  ASSUME NEW num \in Nat, NEW den \in Nat
  PROVE  percent(num, den).is = "string" <=> den = 0 \/ RoundsToAll(num, den)
<1>1. CASE den = 0
  BY <1>1 DEF percent, Error
<1>2. CASE den # 0
  <2> DEFINE a == 20000 * num + den
             b == 2 * den
  <2>1. a \in Nat /\ b \in Nat \ {0}
    BY <1>2
  <2>2. /\ b * 10000 <= a <=> 19999 * den <= 20000 * num
        /\ b * 10100 <= a <=> ~ (20000 * num < 20199 * den)
    OBVIOUS
  <2> HIDE DEF a, b
  <2>3. a \div b \in Nat
    BY <2>1, QuotientType
  <2>4. (a \div b) \div 100 = 100 <=> 10000 <= a \div b /\ ~ (10100 <= a \div b)
    BY <2>3
  <2>5. (a \div b) \div 100 = 100 <=> RoundsToAll(num, den)
    BY <2>1, <2>2, <2>4, QuotientAtLeast DEF RoundsToAll
  <2>6. Round(num, den) = a \div b
    BY DEF Round, a, b
  <2> QED BY <1>2, <2>5, <2>6 DEF percent, One
<1> QED BY <1>1, <1>2

LEMMA RoundCancels ==
  ASSUME NEW a \in Nat \ {0}, NEW num \in Nat, NEW den \in Nat \ {0}
  PROVE  Round(a * num, a * den) = Round(num, den)
<1> DEFINE x == 20000 * num + den
           y == 2 * den
<1>1. x \in Nat /\ y \in Nat \ {0}
  OBVIOUS
<1>2. 20000 * (a * num) + a * den = a * x /\ 2 * (a * den) = a * y
  OBVIOUS
<1>3. Round(a * num, a * den) = (a * x) \div (a * y)
  BY <1>2 DEF Round
<1>4. Round(num, den) = x \div y
  BY DEF Round
<1> HIDE DEF x, y
<1> QED BY <1>1, <1>3, <1>4, QuotientCancels

-----------------------------------------------------------------------------
(***************************************************************************)
(* Counts                                                                  *)
(***************************************************************************)
LEMMA CountFields ==
  ASSUME NEW n \in Counts
  PROVE  /\ n["TRUE_POS"] \in Nat /\ n["TRUE_NEG"] \in Nat
         /\ n["FALSE_POS"] \in Nat /\ n["FALSE_NEG"] \in Nat
         /\ n["unimplemented"] \in Nat /\ n["failure"] \in Nat
         /\ n["timeout"] \in Nat /\ n["other"] \in Nat
  BY DEF Counts, Lists, Verdicts, Failures

LEMMA TotalType ==
  ASSUME NEW n \in Counts
  PROVE  Judgements(n) \in Nat /\ Total(n) \in Nat /\ Judgements(n) <= Total(n)
  BY CountFields DEF Total, Judgements

\* A result more is one more in the total.
LEMMA TotalAddOne ==
  ASSUME NEW n \in Counts, NEW c \in Lists
  PROVE  /\ [n EXCEPT ![c] = @ + 1] \in Counts
         /\ Total([n EXCEPT ![c] = @ + 1]) = Total(n) + 1
<1> DEFINE m == [n EXCEPT ![c] = @ + 1]
<1>1. m \in Counts
  BY DEF Counts
<1>2. \A d \in Lists : m[d] = IF d = c THEN n[d] + 1 ELSE n[d]
  BY DEF Counts
<1>3. \A d \in Lists : n[d] \in Nat
  BY DEF Counts
<1> HIDE DEF m
<1>4. Total(m) = Total(n) + 1
  BY <1>2, <1>3 DEF Total, Judgements, Lists, Verdicts, Failures
<1> QED BY <1>1, <1>4 DEF m

\* The tables per category leave no result out.
LEMMA CellsAddUp ==
  ASSUME NEW n \in Counts
  PROVE  LET l == landscape(n)
             p == portrait(n)
         IN  /\ l[1] + l[2] + l[3] + l[4] = Total(n)
             /\ p[1] + p[2] + p[3] + p[4] = Total(n)
  BY CountFields DEF landscape, portrait, good, bad, Total, Judgements

-----------------------------------------------------------------------------
(***************************************************************************)
(* What is computed twice                                                  *)
(***************************************************************************)
\* The two LaTeX tables show the same ratios.
LEMMA RowsAgree ==
  ASSUME NEW n \in Counts
  PROVE  metrics_row(n) = summary_row(n)
<1>1. Total(n) = Judgements(n) + n["timeout"] + n["unimplemented"]
                   + (n["failure"] + n["other"])
  BY CountFields, TotalType DEF Total
<1>2. n["unimplemented"] + n["failure"] + n["other"] + n["timeout"]
        = n["timeout"] + (n["failure"] + n["other"]) + n["unimplemented"]
  BY CountFields
<1> QED BY <1>1, <1>2 DEF metrics_row, summary_row, latex_accuracy

\* Page and console divide by the same number unless there are inconclusive runs.
LEMMA RobustnessAgrees ==
  ASSUME NEW n \in Counts, n["other"] = 0
  PROVE  html_robustness(n) = console_robustness(n)
<1>1. Judgements(n) + n["timeout"] + n["failure"] = Total(n) - n["unimplemented"]
  BY CountFields, TotalType DEF Total
<1> QED BY <1>1 DEF html_robustness, console_robustness

(***************************************************************************)
(* With as many true positives as true negatives, the F1 score of the code *)
(* is the usual one, 2 TP / (2 TP + FP + FN).                              *)
(***************************************************************************)
LEMMA F1Usual ==
  ASSUME NEW n \in Counts, n["TRUE_POS"] = n["TRUE_NEG"], n["TRUE_POS"] > 0
  PROVE  F1(n).val = Round(2 * n["TRUE_POS"],
                           2 * n["TRUE_POS"] + n["FALSE_POS"] + n["FALSE_NEG"])
<1> DEFINE a == n["TRUE_POS"]
           p == n["FALSE_POS"]
           q == n["FALSE_NEG"]
           num == 2 * a
           den == 2 * a + p + q
<1>1. a \in Nat \ {0} /\ p \in Nat /\ q \in Nat
  BY CountFields
<1>2. F1(n) = percent(2 * a * a, a * (a + q) + a * (a + p))
  BY DEF F1
<1> HIDE DEF a, p, q
<1>3. num \in Nat /\ den \in Nat \ {0} /\ num <= den
  BY <1>1
<1>4. 2 * a * a = a * num /\ a * (a + q) + a * (a + p) = a * den
  BY <1>1
<1> HIDE DEF num, den
<1>5. a * num \in Nat /\ a * den \in Nat \ {0} /\ a * num <= a * den
  BY <1>1, <1>3, TimesGrows
<1>6. F1(n).val = Round(a * num, a * den)
  BY <1>2, <1>4, <1>5, PercentValue
<1>7. F1(n).val = Round(num, den)
  BY <1>1, <1>3, <1>6, RoundCancels
<1> QED BY <1>7 DEF num, den, a, p, q

\* The ratios of a row have a value.
LEMMA RowType ==
  ASSUME NEW n \in Counts
  PROVE  /\ summary_row(n).coverage \in Percents
         /\ summary_row(n).completion \in Percents
         /\ summary_row(n).specificity \in Percents
         /\ summary_row(n).recall \in Percents
         /\ summary_row(n).precision \in Percents
         /\ summary_row(n).F1 \in Percents
         /\ summary_row(n).accuracy \in Percents
<1> USE CountFields
<1>1. Total(n) \in Nat /\ n["unimplemented"] <= Total(n)
  BY TotalType DEF Total
<1>2. n["unimplemented"] + n["failure"] + n["other"] + n["timeout"] <= Total(n)
  BY TotalType DEF Total
<1>3. percent_compl(n["unimplemented"], Total(n)) \in Percents
  BY <1>1, PercentComplType
<1>4. percent_compl(n["unimplemented"] + n["failure"] + n["other"] + n["timeout"], Total(n))
        \in Percents
  BY <1>1, <1>2, PercentComplType
<1>5. Specificity(n) \in Percents /\ Recall(n) \in Percents /\ Precision(n) \in Percents
  BY PercentType DEF Specificity, Recall, Precision
<1>6. F1(n) \in Percents
  <2>1. 2 * n["TRUE_NEG"] * n["TRUE_POS"] \in Nat
    OBVIOUS
  <2>2. n["TRUE_NEG"] * (n["TRUE_POS"] + n["FALSE_NEG"])
          + n["TRUE_POS"] * (n["TRUE_POS"] + n["FALSE_POS"]) \in Nat
    OBVIOUS
  <2> QED BY <2>1, <2>2, PercentType DEF F1
<1>7. F1Shown(n) \in Percents
  BY <1>6 DEF F1Shown, Error, Percents
<1>8. latex_accuracy(n) \in Percents
  BY <1>1, PercentType DEF latex_accuracy
<1> QED BY <1>3, <1>4, <1>5, <1>7, <1>8 DEF summary_row

-----------------------------------------------------------------------------
(***************************************************************************)
(* Times                                                                   *)
(***************************************************************************)
\* What seconds2human() writes adds up to the time, with no unit too large.
LEMMA HumanTime ==
  ASSUME NEW secs \in Nat
  PROVE  LET d == seconds2human(secs) IN
         /\ d.days \in Nat /\ d.hours \in Nat /\ d.minutes \in Nat /\ d.seconds \in Nat
         /\ d.days * 86400 + d.hours * 3600 + d.minutes * 60 + d.seconds = secs
         /\ d.hours < 24 /\ d.minutes < 60 /\ d.seconds < 60
         /\ secs < 86400 => d.days = 0
  BY DEF seconds2human
=============================================================================

------------------------------ MODULE Metrics -------------------------------
(***************************************************************************)
(* The numbers that MBI.py prints: percent() and the metrics made with it. *)
(*                                                                         *)
(* percent() rounds to 2 digits after the point of a percentage; it is a   *)
(* number of ten-thousandths here.  It returns a string where this number  *)
(* is 100 percent or the denominator is zero, and a float otherwise.       *)
(***************************************************************************)
EXTENDS Naturals

Percents == [is : {"number", "string"}, val : Nat]

One   == [is |-> "string", val |-> 10000]
Error == [is |-> "string", val |-> 0]

\* Rounded to the nearest.
Round(num, den) == (20000 * num + den) \div (2 * den)

\* percent(num, den, one=True); int(res) == 100 drops what follows the point.
percent(num, den) ==
  IF den = 0 THEN Error
  ELSE IF Round(num, den) \div 100 = 100 THEN One
  ELSE [is |-> "number", val |-> Round(num, den)]

\* What percent() takes for 100: from 99.995 percent on, and because int()
\* drops what follows the point, up to 100.995 percent.
RoundsToAll(num, den) == 19999 * den <= 20000 * num /\ 20000 * num < 20199 * den

\* percent(num, den, compl=True, one=True)
percent_compl(num, den) ==
  IF den = 0 THEN Error
  ELSE IF 10000 - Round(num, den) = 10000 THEN One
  ELSE [is |-> "number", val |-> 10000 - Round(num, den)]

(***************************************************************************)
(* A count n has a field for each list of results[...][toolname].          *)
(***************************************************************************)
Verdicts == {"TRUE_POS", "TRUE_NEG", "FALSE_POS", "FALSE_NEG"}
Failures == {"unimplemented", "failure", "timeout", "other"}
Lists    == Verdicts \cup Failures

NoResult == [c \in Lists |-> 0]

Judgements(n) == n["TRUE_POS"] + n["TRUE_NEG"] + n["FALSE_POS"] + n["FALSE_NEG"]

Total(n) ==
  Judgements(n) + n["unimplemented"] + n["failure"] + n["other"] + n["timeout"]

Specificity(n) == percent(n["TRUE_NEG"], n["TRUE_NEG"] + n["FALSE_POS"])
Recall(n)      == percent(n["TRUE_POS"], n["TRUE_POS"] + n["FALSE_NEG"])
Precision(n)   == percent(n["TRUE_POS"], n["TRUE_POS"] + n["FALSE_POS"])

(***************************************************************************)
(* The metrics of the HTML page and of the console.                        *)
(***************************************************************************)
html_robustness(n) ==
  percent_compl(n["timeout"] + n["failure"],
                Judgements(n) + n["timeout"] + n["failure"])

console_robustness(n) ==
  percent_compl(n["timeout"] + n["failure"], Total(n) - n["unimplemented"])

html_coverage(n) == percent_compl(n["unimplemented"], Total(n))

html_accuracy(n) == percent(n["TRUE_POS"] + n["TRUE_NEG"], Judgements(n))

(***************************************************************************)
(* The metrics of the LaTeX tables.  With P = TN/(TP+FP), R = TP/(TP+FN)   *)
(* the F1 score 2PR/(P+R) is 2 TN TP / (TN (TP+FN) + TP (TP+FP)).          *)
(***************************************************************************)
F1(n) ==
  percent(2 * n["TRUE_NEG"] * n["TRUE_POS"],
          n["TRUE_NEG"] * (n["TRUE_POS"] + n["FALSE_NEG"])
            + n["TRUE_POS"] * (n["TRUE_POS"] + n["FALSE_POS"]))

F1Shown(n) ==
  IF n["TRUE_POS"] + n["FALSE_POS"] > 0 /\ n["TRUE_POS"] + n["FALSE_NEG"] > 0
    THEN F1(n) ELSE Error

latex_accuracy(n) == percent(n["TRUE_POS"] + n["TRUE_NEG"], Total(n))

summary_row(n) ==
  [coverage    |-> percent_compl(n["unimplemented"], Total(n)),
   completion  |-> percent_compl(n["unimplemented"] + n["failure"] + n["other"]
                                   + n["timeout"], Total(n)),
   specificity |-> Specificity(n),
   recall      |-> Recall(n),
   precision   |-> Precision(n),
   F1          |-> F1Shown(n),
   accuracy    |-> latex_accuracy(n)]

\* Mutant: the inconclusive runs are forgotten.
metrics_row_partial(n) ==
  LET nFail == n["failure"]
      total == Judgements(n) + n["timeout"] + n["unimplemented"] + nFail
  IN  [coverage    |-> percent_compl(n["unimplemented"], total),
       completion  |-> percent_compl(n["timeout"] + nFail + n["unimplemented"], total),
       specificity |-> Specificity(n),
       recall      |-> Recall(n),
       precision   |-> Precision(n),
       F1          |-> F1Shown(n),
       accuracy    |-> percent(n["TRUE_POS"] + n["TRUE_NEG"], total)]

\* The second table adds up the failures and the inconclusive runs first.
metrics_row(n) ==
  LET nFail == n["failure"] + n["other"]
      total == Judgements(n) + n["timeout"] + n["unimplemented"] + nFail
  IN  [coverage    |-> percent_compl(n["unimplemented"], total),
       completion  |-> percent_compl(n["timeout"] + nFail + n["unimplemented"], total),
       specificity |-> Specificity(n),
       recall      |-> Recall(n),
       precision   |-> Precision(n),
       F1          |-> F1Shown(n),
       accuracy    |-> percent(n["TRUE_POS"] + n["TRUE_NEG"], total)]

(***************************************************************************)
(* The cells of the tables per category: build errors, runtime errors,     *)
(* wrong and right verdicts.                                               *)
(***************************************************************************)
good(n) == n["TRUE_POS"] + n["TRUE_NEG"]
bad(n)  == n["FALSE_POS"] + n["FALSE_NEG"]

landscape(n) ==
  <<n["unimplemented"] + n["other"], n["failure"] + n["timeout"], bad(n), good(n)>>

\* Mutant: the inconclusive runs are in no cell.
portrait_partial(n) ==
  <<n["unimplemented"], n["timeout"] + n["failure"], bad(n), good(n)>>

portrait(n) ==
  <<n["unimplemented"], n["timeout"] + n["other"] + n["failure"], bad(n), good(n)>>

(***************************************************************************)
(* Times in seconds, as the console and the LaTeX table show them.         *)
(***************************************************************************)
\* Mutant: the days are not taken away from the hours.
seconds2human_wrap(secs) ==
  LET hours   == secs \div 3600
      minutes == (secs - hours * 3600) \div 60
  IN  [days |-> secs \div 86400, hours |-> hours, minutes |-> minutes,
       seconds |-> secs - hours * 3600 - minutes * 60]

seconds2human(secs) ==
  LET days    == secs \div 86400
      hours   == (secs - days * 86400) \div 3600
      minutes == (secs - days * 86400 - hours * 3600) \div 60
  IN  [days |-> days, hours |-> hours, minutes |-> minutes,
       seconds |-> secs - days * 86400 - hours * 3600 - minutes * 60]

\* The days are computed and not written.
latex_time(secs) == [seconds2human(secs) EXCEPT !.days = 0]
=============================================================================

------------------------------- MODULE Stats --------------------------------
(***************************************************************************)
(* cmd_html() and cmd_latex() of MBI.py: the results of all the tests,     *)
(* gathered from the caches, counted, and turned into tables.              *)
(*                                                                         *)
(* Both commands go through the same tests; both are followed at once      *)
(* here.  A list of results is represented by its length.                  *)
(***************************************************************************)
EXTENDS Metrics, Sequences, FiniteSets, FiniteSetsExt

CONSTANTS
  used_toolnames,  \* the tools that have a logs directory, in order
  error_scope,     \* the categories of errors, with "FOK" for the correct codes
  Times,           \* the values that an .elapsed file may have, in seconds
  MaxTests         \* bound on the number of tests

\* cmd_latex() raises an IndexError when there is no tool at all.  A tool
\* that is named twice on the command line is not considered.
ASSUME StatsAssumption ==
  /\ used_toolnames \in Seq(STRING) /\ used_toolnames # <<>>
  /\ \A i, j \in DOMAIN used_toolnames : used_toolnames[i] = used_toolnames[j] => i = j
  /\ IsFiniteSet(error_scope)
  /\ "FOK" \in error_scope
  /\ "total" \notin error_scope /\ "error" \notin error_scope
  /\ Times \subseteq Nat
  /\ MaxTests \in Nat

VARIABLES
  phase,    \* "gather", "scan", "done" or "raised": a TypeError
  html,     \* html[tool][list]: results of cmd_html()
  results,  \* results[table][tool][list]: results of cmd_latex()
  expects,  \* expects[tool]: the tests of each expectation, "OK" and "error"
  secs,     \* total_elapsed of cmd_html() and sum of timing of cmd_latex()
  best,     \* the best values, see BestKeys
  pos       \* the tool that is looked at

vars == <<phase, html, results, expects, secs, best, pos>>

Tools  == {used_toolnames[i] : i \in DOMAIN used_toolnames}
Tables == error_scope \cup {"total", "error"}

Ratios   == {"coverage", "completion", "specificity", "recall", "precision",
             "F1", "accuracy"}
BestKeys == Verdicts \cup Ratios

Init ==
  /\ phase = "gather"
  /\ html = [t \in Tools |-> NoResult]
  /\ results = [e \in Tables |-> [t \in Tools |-> NoResult]]
  /\ expects = [t \in Tools |-> [OK |-> 0, error |-> 0]]
  /\ secs = [t \in Tools |-> [html |-> 0, latex |-> 0]]
  /\ best = [k \in BestKeys |-> CASE k = "FALSE_POS" -> 999999
                                  [] k = "FALSE_NEG" -> 9999999
                                  [] OTHER -> 0]
  /\ pos = 1

\* What categorize() may answer for a test of this scope.
Possible(scope) ==
  Failures \cup (IF scope = "FOK" THEN {"TRUE_NEG", "FALSE_POS"}
                                  ELSE {"TRUE_POS", "FALSE_NEG"})

\* The tables in which a test of this scope is counted.
TablesOf(scope) == {scope, "total"} \cup (IF scope = "FOK" THEN {} ELSE {"error"})

\* What a test adds, with the answers of all the tools.
CountTest(scope, time, answer) ==
  /\ html' = [t \in Tools |-> [html[t] EXCEPT ![answer[t]] = @ + 1]]
  /\ results' = [e \in Tables |-> [t \in Tools |->
                   IF e \in TablesOf(scope)
                     THEN [results[e][t] EXCEPT ![answer[t]] = @ + 1]
                     ELSE results[e][t]]]
  /\ expects' = [t \in Tools |->
                   IF scope = "FOK" THEN [expects[t] EXCEPT !.OK = @ + 1]
                                    ELSE [expects[t] EXCEPT !.error = @ + 1]]
  /\ secs' = [t \in Tools |->
                [html  |-> secs[t].html + (IF answer[t] = "timeout" THEN 0 ELSE time),
                 latex |-> secs[t].latex + time]]

\* One turn of the loops over the tests.
Gather ==
  /\ phase = "gather"
  /\ Total(html[used_toolnames[1]]) < MaxTests
  /\ \E scope \in error_scope, time \in Times :
       \E answer \in [Tools -> Possible(scope)] : CountTest(scope, time, answer)
  /\ UNCHANGED <<phase, best, pos>>

StartScan ==
  /\ phase = "gather"
  /\ phase' = "scan"
  /\ UNCHANGED <<html, results, expects, secs, best, pos>>

\* Tools for which a ratio has no value are not considered.
Considered(n) ==
  /\ n["TRUE_NEG"] + n["FALSE_POS"] # 0
  /\ n["TRUE_POS"] + n["FALSE_NEG"] # 0
  /\ n["TRUE_POS"] + n["FALSE_POS"] # 0

\* Mutant: tools for which a ratio has no value are compared as well.
Raises_all(n) == "string" \in {F1(n).is, latex_accuracy(n).is}

\* F1 and accuracy are compared as percent() returns them, the other ratios
\* after a conversion to float.
Raises(n) ==
  Considered(n) /\ "string" \in {F1(n).is, latex_accuracy(n).is}

\* Mutant: a tool for which a ratio has no value counts as -1.
Better_missing(k, old, n) ==
  IF k \in Ratios /\ ~ Considered(n) THEN -1 ELSE old

\* Mutant: the greatest number of false verdicts is the best.
Better_most(k, old, n) ==
  CASE k \in Verdicts -> Max({old, n[k]})
    [] k \in Ratios -> IF Considered(n) THEN Max({old, summary_row(n)[k].val}) ELSE old

Better(k, old, n) ==
  CASE k \in {"TRUE_POS", "TRUE_NEG"}   -> Max({old, n[k]})
    [] k \in {"FALSE_POS", "FALSE_NEG"} -> Min({old, n[k]})
    [] k \in Ratios -> IF Considered(n) THEN Max({old, summary_row(n)[k].val}) ELSE old

\* One turn of the loop that searches the best values.
Scan ==
  /\ phase = "scan"
  /\ pos <= Len(used_toolnames)
  /\ LET n == results["total"][used_toolnames[pos]] IN
       IF Raises(n)
         THEN phase' = "raised" /\ UNCHANGED <<best, pos>>
         ELSE /\ best' = [k \in BestKeys |-> Better(k, best[k], n)]
              /\ pos' = pos + 1
              /\ UNCHANGED phase
  /\ UNCHANGED <<html, results, expects, secs>>

Finish ==
  /\ phase = "scan"
  /\ pos > Len(used_toolnames)
  /\ phase' = "done"
  /\ UNCHANGED <<html, results, expects, secs, best, pos>>

Next == Gather \/ StartScan \/ Scan \/ Finish

Spec == Init /\ [][Next]_vars

-----------------------------------------------------------------------------
TypeOK ==
  /\ phase \in {"gather", "scan", "done", "raised"}
  /\ html \in [Tools -> [Lists -> Nat]]
  /\ results \in [Tables -> [Tools -> [Lists -> Nat]]]
  /\ expects \in [Tools -> [OK : Nat, error : Nat]]
  /\ secs \in [Tools -> [html : Nat, latex : Nat]]
  /\ best \in [BestKeys -> Nat]
  /\ pos \in 1 .. Len(used_toolnames) + 1

CellSum(row) == row[1] + row[2] + row[3] + row[4]

(***************************************************************************)
(* Every table accounts for every test, for all the tools alike: the cells *)
(* of the rows add up to the one of the ideal tool, which is computed from *)
(* the first tool's results, and the categories add up to the total, with  *)
(* and without the correct codes.                                          *)
(***************************************************************************)
TablesAddUp ==
  \A t \in Tools :
    /\ \A e \in error_scope :
         /\ CellSum(landscape(results[e][t])) = Total(results[e][used_toolnames[1]])
         /\ CellSum(portrait(results[e][t])) = Total(results[e][used_toolnames[1]])
    /\ \A c \in Lists :
         /\ results["total"][t][c] =
              SumFunction([e \in error_scope |-> results[e][t][c]])
         /\ results["error"][t][c] = results["total"][t][c] - results["FOK"][t][c]
    /\ Total(results["total"][t]) = expects[t].OK + expects[t].error
    /\ results["total"][t] = html[t]

(***************************************************************************)
(* The numbers that are computed in several places agree: the metrics of   *)
(* the two LaTeX tables and the API coverage always, the robustness of     *)
(* page and console unless there are inconclusive runs, the accuracy of    *)
(* page and tables when all the tests have a verdict, and F1 with its      *)
(* definition in the README when the precision is the same with TN.        *)
(***************************************************************************)
MetricsAgree ==
  \A t \in Tools :
    LET n == results["total"][t] IN
    /\ metrics_row(n) = summary_row(n)
    /\ html_coverage(html[t]) = summary_row(n).coverage
    /\ n["other"] = 0 => html_robustness(html[t]) = console_robustness(html[t])
    /\ Judgements(n) = Total(n) => html_accuracy(html[t]) = latex_accuracy(n)
    /\ n["TRUE_POS"] = n["TRUE_NEG"] /\ n["TRUE_POS"] > 0 =>
         F1(n).val = Round(2 * n["TRUE_POS"],
                           2 * n["TRUE_POS"] + n["FALSE_POS"] + n["FALSE_NEG"])

(***************************************************************************)
(* When the search does not fail, what it found is the best: some tool has *)
(* this value and no tool that was considered has a better one.            *)
(***************************************************************************)
BestIsBest ==
  phase = "done" =>
    LET n(t) == results["total"][t] IN
    /\ \A k \in Verdicts : \E t \in Tools : n(t)[k] = best[k]
    /\ \A t \in Tools :
         /\ \A k \in {"TRUE_POS", "TRUE_NEG"} : n(t)[k] <= best[k]
         /\ \A k \in {"FALSE_POS", "FALSE_NEG"} : n(t)[k] >= best[k]
         /\ \A k \in Ratios : Considered(n(t)) => summary_row(n(t))[k].val <= best[k]
    /\ \A k \in Ratios :
         best[k] = 0 \/ \E t \in Tools : summary_row(n(t))[k].val = best[k]

Seconds(d) == d.days * 86400 + d.hours * 3600 + d.minutes * 60 + d.seconds

(***************************************************************************)
(* The time that the console shows is the time that was added up, the one  *)
(* of the LaTeX table as well as long as it is less than a day; the latter *)
(* includes the timeouts and is never the shorter one.                     *)
(***************************************************************************)
TimesShown ==
  \A t \in Tools :
    LET d == seconds2human(secs[t].html)
        l == latex_time(secs[t].latex) IN
      /\ Seconds(d) = secs[t].html
      /\ d.hours < 24 /\ d.minutes < 60 /\ d.seconds < 60
      /\ secs[t].latex < 86400 => Seconds(l) = secs[t].latex
      /\ secs[t].html <= secs[t].latex

(***************************************************************************)
(* The row of the ideal tool: a tool that is right on every test has 1 for *)
(* each ratio.                                                             *)
(***************************************************************************)
IdealTool ==
  \A t \in Tools :
    LET n == results["total"][t] IN
      /\ phase \in {"done", "raised"}
      /\ n["TRUE_POS"] = expects[t].error /\ n["TRUE_NEG"] = expects[t].OK
      /\ Considered(n)
      => phase = "done" /\ \A k \in Ratios : summary_row(n)[k] = One

(***************************************************************************)
(* When the search fails.  Of a tool for which all the ratios have a value *)
(* it compares F1 and accuracy as percent() returns them, a string when    *)
(* they are taken for 100 percent or when F1 has no value.                 *)
(***************************************************************************)
F1Parts(n) == 2 * n["TRUE_NEG"] * n["TRUE_POS"]
F1Whole(n) ==
  n["TRUE_NEG"] * (n["TRUE_POS"] + n["FALSE_NEG"])
    + n["TRUE_POS"] * (n["TRUE_POS"] + n["FALSE_POS"])

FailsFor(n) ==
  /\ Considered(n)
  /\ \/ RoundsToAll(n["TRUE_POS"] + n["TRUE_NEG"], Total(n))
     \/ RoundsToAll(F1Parts(n), F1Whole(n))
     \/ n["TRUE_POS"] = 0 /\ n["TRUE_NEG"] = 0

\* A tool that is right on every test, of which there are of both kinds.
Perfect(t) ==
  /\ results["total"][t]["TRUE_POS"] = expects[t].error
  /\ results["total"][t]["TRUE_NEG"] = expects[t].OK
  /\ Considered(results["total"][t])

(***************************************************************************)
(* The search ends without its TypeError exactly when it comes across no   *)
(* tool whose accuracy or F1 is taken for 100 percent, or that is right on *)
(* no test at all.  A tool that is right on every test is one of these:    *)
(* where there is one, the search never ends well, and what the row of the *)
(* ideal tool promises (IdealTool) is false whenever it ends.              *)
(***************************************************************************)
SearchEnds ==
  /\ phase = "done" => \A t \in Tools : ~ FailsFor(results["total"][t])
  /\ phase = "raised" => \E t \in Tools : FailsFor(results["total"][t])
  /\ IdealTool <=> ~ (phase \in {"done", "raised"} /\ \E t \in Tools : Perfect(t))
=============================================================================

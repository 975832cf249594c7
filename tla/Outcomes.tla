------------------------------ MODULE Outcomes ------------------------------
(***************************************************************************)
(* From the cache to the verdict: the parse() methods of the tool wrappers *)
(* and categorize() of MBI.py.                                             *)
(*                                                                         *)
(* parse() searches the output of the tool (and the report, for MUST and   *)
(* MPI-SV) for one message after the other and returns the outcome of the  *)
(* first one it finds.  A message is represented by a mark.  Messages of a *)
(* tool that lead to the same outcome are one mark, unless a message of    *)
(* another outcome is searched for in between.  The outcomes that stand    *)
(* for an error are all "error" here: categorize() treats them alike.      *)
(***************************************************************************)
EXTENDS Naturals, Sequences, FiniteSets, FiniteSetsExt

CONSTANTS
  Tools,       \* the tools considered: a subset of AllTools
  MaxMarks,    \* bound on the number of messages of the tool in an output
  MaxWarnings  \* bound on the number of warnings that PARCOACH counts

AllTools == {"aislinn", "civl", "hermes", "isp", "itac", "mpisv", "must",
             "parcoach", "simgrid", "smpi", "smpivg"}

ASSUME OutcomesAssumption ==
  Tools \subseteq AllTools /\ MaxMarks \in Nat /\ MaxWarnings \in Nat

(***************************************************************************)
(* The messages, in the words of the tools or of the test itself (the      *)
(* race: MBI_MSG_RACE), and the ones that run_cmd() adds.                  *)
(***************************************************************************)
ToolMarks == {"race", "error", "leak", "ok", "doubt", "unsupported", "crash", "bug"}

RunMarks == {"compile error", "return code 0", "killed 15 at 300", "timeout file"}

On(mark, outcome) == [mark |-> mark, outcome |-> outcome]

Aislinn ==
  << On("race", "error"), On("ok", "OK"), On("error", "error"),
     On("unsupported", "UNIMPLEMENTED"), On("compile error", "UNIMPLEMENTED"),
     On("crash", "failure") >>

\* "doubt": the UNDEFINED_VALUE, DEREFERENCE and MPI_ERROR of CIVL.
Civl ==
  << On("compile error", "UNIMPLEMENTED"), On("error", "error"), On("race", "error"),
     On("leak", "error"), On("ok", "OK"), On("crash", "failure"), On("doubt", "error"),
     On("unsupported", "UNIMPLEMENTED"), On("bug", "failure") >>

Hermes ==
  << On("race", "error"), On("error", "error"), On("crash", "failure"),
     On("killed 15 at 300", "timeout") >>

Isp ==
  << On("compile error", "UNIMPLEMENTED"), On("error", "error"), On("race", "error"),
     On("leak", "error"), On("ok", "OK"), On("killed 15 at 300", "timeout") >>

\* "doubt": the warnings of ITAC.
Itac ==
  << On("compile error", "UNIMPLEMENTED"), On("race", "error"), On("error", "error"),
     On("doubt", "error"), On("return code 0", "OK"), On("killed 15 at 300", "timeout") >>

Mpisv ==
  << On("compile error", "UNIMPLEMENTED"), On("unsupported", "UNIMPLEMENTED"),
     On("error", "error"), On("race", "error"), On("crash", "failure"), On("ok", "OK") >>

\* Mutant: the .timeout file is looked for first.
Must_timeout ==
  << On("timeout file", "timeout"), On("error", "error"), On("leak", "error"),
     On("race", "error"), On("compile error", "UNIMPLEMENTED"), On("doubt", "error"),
     On("ok", "OK"), On("crash", "failure") >>

\* "error" and "leak" are in the report; "doubt": the MPI errors that were
\* caught by the test or are mentioned in the report.
Must ==
  << On("error", "error"), On("leak", "error"), On("race", "error"),
     On("compile error", "UNIMPLEMENTED"), On("doubt", "error"), On("ok", "OK"),
     On("crash", "failure"), On("timeout file", "timeout") >>

\* Mutant: compilation errors are not searched for.
Parcoach_blind ==
  << On("race", "error"), On("ok", "OK"), On("unsupported", "UNIMPLEMENTED") >>

\* "ok": 0 warning(s) issued.  What is not recognised is a deadlock.
Parcoach ==
  << On("race", "error"), On("compile error", "UNIMPLEMENTED"), On("ok", "OK"),
     On("unsupported", "UNIMPLEMENTED") >>

\* "bug": MC is currently not supported here.
Simgrid ==
  << On("compile error", "UNIMPLEMENTED"), On("race", "error"), On("bug", "failure"),
     On("error", "error"),
     On("unsupported", "UNIMPLEMENTED"), On("crash", "failure"), On("leak", "error"),
     On("ok", "OK") >>

\* Mutant: the return code is looked at first.
Smpi_code ==
  << On("return code 0", "OK"),
     On("compile error", "UNIMPLEMENTED"), On("bug", "failure"), On("race", "error"),
     On("error", "error"),
     On("unsupported", "UNIMPLEMENTED"), On("crash", "error"), On("leak", "error"),
     On("ok", "OK"), On("killed 15 at 300", "timeout") >>

Smpi ==
  << On("compile error", "UNIMPLEMENTED"), On("bug", "failure"), On("race", "error"),
     On("error", "error"),
     On("unsupported", "UNIMPLEMENTED"), On("crash", "error"), On("leak", "error"),
     On("ok", "OK"), On("return code 0", "OK"), On("killed 15 at 300", "timeout") >>

\* "doubt": the errors that Valgrind counts.
Smpivg ==
  << On("compile error", "UNIMPLEMENTED"), On("doubt", "failure"), On("bug", "failure"),
     On("race", "error"), On("error", "error"), On("unsupported", "UNIMPLEMENTED"), On("crash", "error"),
     On("leak", "error"), On("ok", "OK"), On("return code 0", "OK"),
     On("killed 15 at 300", "timeout") >>

Searches(t) ==
  CASE t = "aislinn"  -> Aislinn
    [] t = "civl"     -> Civl
    [] t = "hermes"   -> Hermes
    [] t = "isp"      -> Isp
    [] t = "itac"     -> Itac
    [] t = "mpisv"    -> Mpisv
    [] t = "must"     -> Must
    [] t = "parcoach" -> Parcoach
    [] t = "simgrid"  -> Simgrid
    [] t = "smpi"     -> Smpi
    [] t = "smpivg"   -> Smpivg

\* Mutant: every tool gets PARCOACH's default.
NotFound_error(t) == "error"

NotFound(t) == IF t = "parcoach" THEN "error" ELSE "other"

NeedsReport(t) == t \in {"must", "mpisv"}

\* What parse() looks for in the report.
ReportMarks(t) ==
  CASE t = "must"  -> {"error", "leak", "doubt", "ok"}
    [] t = "mpisv" -> {"ok"}
    [] OTHER       -> {}

-----------------------------------------------------------------------------
VARIABLES
  tool,        \* the tool
  ended,       \* how run_cmd() ended: see Endings
  late,        \* did the soft timeout stop the tool?
  prompt,      \* is the time 300 point something: -t 300, and no delay
  said,        \* the messages of this run: of the tool, and of the test
  warnings,    \* PARCOACH: the number of warnings it counts at its end
  report,      \* MUST, MPI-SV: which report is there: see Reports
  left,        \* the messages in a report that an earlier run left
  timeoutFile, \* is there a .timeout file, of this run or of an earlier one?
  hasElapsed,  \* is there an .elapsed file?
  expected,    \* what the header of the test says: "OK" or "ERROR"
  outcome,     \* what parse() returns
  category     \* what categorize() returns

inputs == <<tool, ended, late, prompt, said, warnings, report, left, timeoutFile,
            hasElapsed, expected>>
vars   == <<inputs, outcome, category>>

Endings == {"not run", "compile error", "return code 0", "failed", "killed 15", "killed 9"}

Executed == ended \notin {"not run", "compile error"}

\* '0 warning(s) issued' is found in the line that gives the number of
\* warnings when the number ends with this digit.
ZeroFound(n) == n % 10 = 0

Reports == {"none", "own", "old"}

(***************************************************************************)
(* The caches that run_cmd() may leave, with what it found there: nothing  *)
(* removes the report and the .timeout file of an earlier run.  A report   *)
(* of this run replaces the one of MUST, whereas the first one of MPI-SV   *)
(* stays.  Nothing is said of the messages that a tool combines.           *)
(***************************************************************************)
PossibleLog ==
  /\ late => Executed
  /\ ended = "killed 9" => late
  /\ ended = "killed 15" => late \/ tool = "must"
  /\ prompt => late
  /\ late => timeoutFile
  /\ said # {} => Executed
  /\ Cardinality(said) <= MaxMarks
  /\ report # "none" => NeedsReport(tool)
  /\ report = "own" => Executed
  /\ left # {} => report = "old"
  /\ tool = "must" /\ said \cap {"error", "leak", "ok"} # {} => report = "own"
  /\ tool = "mpisv" /\ "ok" \in said => report = "own"
  /\ ended # "not run" => hasElapsed
  /\ warnings # 0 => ended = "return code 0"
  /\ tool = "parcoach" => ("ok" \in said <=> ended = "return code 0" /\ ZeroFound(warnings))

\* All that is searched through.
Marks ==
  said \cup left
       \cup (IF ended \in RunMarks THEN {ended} ELSE {})
       \cup (IF ended = "killed 15" /\ prompt THEN {"killed 15 at 300"} ELSE {})
       \cup (IF timeoutFile THEN {"timeout file"} ELSE {})

Search ==
  LET s == Searches(tool)
      found == {i \in DOMAIN s : s[i].mark \in Marks}
  IN  IF found = {} THEN NotFound(tool) ELSE s[Min(found)].outcome

parse ==
  IF ended = "not run" \/ (NeedsReport(tool) /\ report = "none") THEN "failure" ELSE Search

Category(o) ==
  CASE o = "timeout"       -> "timeout"
    [] o = "failure"       -> "failure"
    [] o = "UNIMPLEMENTED" -> "unimplemented"
    [] o = "other"         -> "other"
    [] OTHER -> IF expected = "OK"
                  THEN IF o = "OK" THEN "TRUE_NEG" ELSE "FALSE_POS"
                  ELSE IF o = "OK" THEN "FALSE_NEG" ELSE "TRUE_POS"

Init ==
  /\ tool \in Tools
  /\ ended \in Endings
  /\ late \in BOOLEAN
  /\ prompt \in BOOLEAN
  /\ said \in SUBSET (ToolMarks \cap {Searches(tool)[i].mark : i \in DOMAIN Searches(tool)})
  /\ warnings \in 0 .. (IF tool = "parcoach" THEN MaxWarnings ELSE 0)
  /\ report \in Reports
  /\ left \in SUBSET ReportMarks(tool)
  /\ timeoutFile \in BOOLEAN
  /\ hasElapsed \in BOOLEAN
  /\ expected \in {"OK", "ERROR"}
  /\ PossibleLog
  /\ outcome = "none"
  /\ category = "none"

categorize ==
  /\ outcome = "none"
  /\ outcome' = parse
  /\ category' = IF ~ hasElapsed /\ parse # "failure" THEN "raised" ELSE Category(parse)
  /\ UNCHANGED inputs

Next == categorize

Spec == Init /\ [][Next]_vars

-----------------------------------------------------------------------------
Judged == {"TRUE_POS", "TRUE_NEG", "FALSE_POS", "FALSE_NEG"}

(***************************************************************************)
(* A test that did not compile, or was not run, never makes categorize()   *)
(* raise, and counts neither for nor against the tool, with one exception: *)
(* MUST's parse() searches the report before it looks for an error of      *)
(* compilation, so that an error in the report of an earlier version is    *)
(* held against (or for) the tool.                                         *)
(***************************************************************************)
NotRunUnjudged ==
  ~ Executed /\ outcome # "none" =>
    /\ category # "raised"
    /\ category \in Judged <=>
         tool = "must" /\ ended = "compile error" /\ left \cap {"error", "leak"} # {}

\* An error was found, by the tool or by the test itself.
Reported == said \cap {"race", "error", "leak", "doubt"} # {} \/ warnings # 0

(***************************************************************************)
(* The reported errors that a sign of success overrules: Aislinn's "No     *)
(* errors found" is searched before its errors, CIVL's "The standard       *)
(* properties hold" before the ones that it is not certain of, and         *)
(* PARCOACH's "0 warning(s) issued" is also found in "10 warning(s)".      *)
(***************************************************************************)
Overruled ==
  \/ tool = "aislinn" /\ {"ok", "error"} \subseteq said /\ "race" \notin said
  \/ tool = "civl" /\ {"ok", "doubt"} \subseteq said
       /\ said \cap {"race", "error", "leak"} = {}
  \/ tool = "parcoach" /\ warnings # 0 /\ ZeroFound(warnings) /\ "race" \notin said

(***************************************************************************)
(* A test is not accepted when an error was found in its run, whatever the *)
(* return code, the other messages and the reports left behind, except for *)
(* the errors of Overruled, for which it always is.                        *)
(***************************************************************************)
NoErrorAccepted ==
  Reported /\ outcome # "none" => (outcome = "OK" <=> Overruled)

(***************************************************************************)
(* A run that was stopped by the timeout before the tool said anything     *)
(* counts neither for nor against the tool, although most parse() methods  *)
(* drop the outcome 'timeout' that they set first.  The exceptions are     *)
(* PARCOACH, for which anything else is a deadlock, and the tools that     *)
(* find the report of an earlier run with something in it.                 *)
(***************************************************************************)
SilentTimeoutUnjudged ==
  late /\ ended \in {"killed 15", "killed 9"} /\ said = {} /\ outcome # "none" =>
    (category \in Judged <=> tool = "parcoach" \/ left # {})

(***************************************************************************)
(* The answer is a timeout although the run was not late exactly when the  *)
(* .timeout file of an earlier run is still there, and then for MUST only, *)
(* when there is nothing else to answer: a code that is run again and ends *)
(* in time gets its verdict, in spite of the stale file.                   *)
(***************************************************************************)
TimeoutsAreLate ==
  ~ late /\ outcome # "none" =>
    (outcome = "timeout" <=> /\ tool = "must" /\ timeoutFile /\ Executed
                             /\ report # "none" /\ said \cup left = {})
=============================================================================

------------------------------- MODULE CmdRun -------------------------------
(***************************************************************************)
(* cmd_run() of MBI.py, the loop over the tests, together with what the    *)
(* run() method of a tool wrapper does around run_cmd().                   *)
(*                                                                         *)
(* Each test is run by a child process that the loop waits for; a child    *)
(* that is still there timeout + 60 seconds after its start is terminated  *)
(* and the loop goes on with the next test.  A tool that leaves a report   *)
(* in the logs directory (MUST_Output.html, report.html, klee-last) has it *)
(* renamed after the test by its wrapper, once run_cmd() has returned.     *)
(*                                                                         *)
(* A run of MBI.py is a session in a container: the tools that survive     *)
(* their child end with it, the logs directory stays.  The codes are       *)
(* regenerated between sessions only.                                      *)
(***************************************************************************)
EXTENDS RunCmd, Sequences

CONSTANTS
  todo,        \* the tests, in the order of the loop
  ReportMode,  \* "overwrite": MUST, Aislinn, Hermes; "keep": MPI-SV; "none"
  KillBefore,  \* TRUE: the wrapper kills the tools still there (MUST)
  MaxRuns      \* bound on the number of sessions

ASSUME CmdRunAssumption ==
  /\ todo \in Seq(Tests)
  /\ ReportMode \in {"none", "overwrite", "keep"}
  /\ KillBefore \in BOOLEAN
  /\ MaxRuns \in Nat

VARIABLES
  phase,     \* "idle", "running" or "done": the last session came to its end
             \* and the codes were not regenerated since
  session,   \* number of sessions started
  at,        \* position in todo of the next test
  report,    \* the report in the logs directory: none or one element
  attached,  \* attached[t]: the report renamed for test t: none or one element
  orphans,   \* the tools that run without a child
  cut,       \* the tests of this session whose child was cut short
  dirty      \* was a child ever cut short?

loopVars   == <<phase, session, at>>
reportVars == <<report, attached, orphans>>
vars       == <<runVars, loopVars, reportVars, cut, dirty>>

\* A report tells of a test and of the version that was analysed.
Reports == [test : Tests, of : Versions]

Init ==
  /\ RunInit
  /\ phase = "idle"
  /\ session = 0
  /\ at = 1
  /\ report = {}
  /\ attached = [t \in Tests |-> {}]
  /\ orphans = {}
  /\ cut = {}
  /\ dirty = FALSE

(***************************************************************************)
(* The loop.                                                               *)
(***************************************************************************)
StartRun ==
  /\ phase # "running"
  /\ session < MaxRuns
  /\ phase' = "running"
  /\ session' = session + 1
  /\ at' = 1
  /\ cut' = {}
  /\ UNCHANGED <<runVars, reportVars, dirty>>

\* p.start(), with what the wrapper does before it calls run_cmd().
StartTest ==
  /\ phase = "running"
  /\ at <= Len(todo)
  /\ Begin(todo[at])
  /\ at' = at + 1
  /\ orphans' = IF KillBefore THEN {} ELSE orphans
  /\ UNCHANGED <<phase, session, report, attached, cut, dirty>>

FinishRun ==
  /\ phase = "running"
  /\ pc = "idle"
  /\ at > Len(todo)
  /\ phase' = "done"
  /\ orphans' = {}
  /\ UNCHANGED <<runVars, session, at, report, attached, cut, dirty>>

\* A child that ends before run_cmd() returns leaves its tool behind.
CutShort ==
  /\ cut' = cut \cup {test}
  /\ dirty' = TRUE

LeftBehind == IF leader = "alive" THEN {[test |-> test, of |-> ver]} ELSE {}

\* Mutant: only a child whose tool is still running is terminated.
HardTimeout_alive ==
  /\ phase = "running"
  /\ clock = 2
  /\ leader = "alive"
  /\ Killed
  /\ CutShort
  /\ orphans' = orphans \cup LeftBehind
  /\ UNCHANGED <<loopVars, report, attached>>

\* p.join(args.timeout+60) returns and the child is alive.
HardTimeout ==
  /\ phase = "running"
  /\ clock = 2
  /\ Killed
  /\ CutShort
  /\ orphans' = orphans \cup LeftBehind
  /\ UNCHANGED <<loopVars, report, attached>>

\* The job is cancelled: the container ends with everything that runs in it.
Abort ==
  /\ phase = "running"
  /\ Kills
  /\ IF pc = "idle" THEN UNCHANGED <<runVars, cut, dirty>> ELSE Killed /\ CutShort
  /\ phase' = "idle"
  /\ orphans' = {}
  /\ UNCHANGED <<session, at, report, attached>>

(***************************************************************************)
(* The child.                                                              *)
(***************************************************************************)
Work ==
  /\ ChildStep
  /\ IF pc' = "idle" THEN CutShort ELSE UNCHANGED <<cut, dirty>>
  /\ UNCHANGED <<loopVars, reportVars>>

\* Mutant: the report is copied and not renamed.
Attach_copy ==
  /\ attached' = IF report # {} THEN [attached EXCEPT ![test] = report] ELSE attached
  /\ report' = report

\* The end of run(): the report is renamed, whether or not the test was run.
Attach ==
  IF report # {} /\ (ReportMode = "keep" => attached[test] = {})
    THEN attached' = [attached EXCEPT ![test] = report] /\ report' = {}
    ELSE /\ attached' = attached
         /\ report' = IF ReportMode = "keep" /\ ran THEN {} ELSE report

EndTest ==
  /\ Return
  /\ Attach
  /\ UNCHANGED <<loopVars, orphans, cut, dirty>>

(***************************************************************************)
(* The tools, time and the generators.                                     *)
(***************************************************************************)
ToolActs ==
  /\ pc # "idle"
  /\ ToolStep
  /\ UNCHANGED <<loopVars, reportVars, cut, dirty>>

ToolReports ==
  /\ ReportMode # "none"
  /\ pc # "idle"
  /\ leader = "alive"
  /\ report' = {[test |-> test, of |-> ver]}
  /\ UNCHANGED <<runVars, loopVars, attached, orphans, cut, dirty>>

OrphanReports ==
  /\ ReportMode # "none"
  /\ \E o \in orphans : report' = {o} /\ orphans' = orphans \ {o}
  /\ UNCHANGED <<runVars, loopVars, attached, cut, dirty>>

TimePasses ==
  /\ Tick
  /\ UNCHANGED <<loopVars, reportVars, cut, dirty>>

cmd_gencodes ==
  /\ phase # "running"
  /\ \E f \in Files : Regenerate(f)
  /\ phase' = "idle"
  /\ UNCHANGED <<session, at, reportVars, cut, dirty>>

Next ==
  \/ StartRun \/ StartTest \/ FinishRun \/ HardTimeout \/ Abort
  \/ Work \/ EndTest
  \/ ToolActs \/ ToolReports \/ OrphanReports
  \/ TimePasses \/ cmd_gencodes

Spec == Init /\ [][Next]_vars

\* Time passes and the loop goes on.  Nothing is assumed of the child or of
\* the tool.
FairSpec ==
  /\ Spec
  /\ WF_vars(TimePasses)
  /\ WF_vars(StartTest \/ FinishRun)
  /\ WF_vars(HardTimeout)

-----------------------------------------------------------------------------
LoopTypeOK ==
  /\ TypeOK
  /\ phase \in {"idle", "running", "done"}
  /\ session \in 0 .. MaxRuns
  /\ at \in 1 .. Len(todo) + 1
  /\ report \in SUBSET Reports
  /\ attached \in [Tests -> SUBSET Reports]
  /\ orphans \in SUBSET Reports
  /\ cut \in SUBSET Tests
  /\ dirty \in BOOLEAN

(***************************************************************************)
(* A session that ends has given every test the complete result of its     *)
(* present source, be it a compilation error, except the tests whose child *)
(* was cut short in this very session.  What aborted sessions and hard     *)
(* timeouts of earlier sessions left in the logs directory does no harm.   *)
(***************************************************************************)
SessionComplete ==
  phase = "done" =>
    \A i \in 1 .. Len(todo) :
      \/ todo[i] \in cut
      \/ /\ txt[todo[i]].is = "full"
         /\ txt[todo[i]].of = Source(todo[i])
         /\ elapsed[todo[i]] = "full"

(***************************************************************************)
(* The loop always comes to its end, whatever the tools do and wherever a  *)
(* child is blocked.                                                       *)
(***************************************************************************)
RunEnds == phase = "running" ~> phase # "running"

(***************************************************************************)
(* As long as no child was ever cut short, the report renamed for a test   *)
(* was written for that test.                                              *)
(***************************************************************************)
ReportsInOrder ==
  ~ dirty => \A t \in Tests : \A r \in attached[t] : r.test = t

(***************************************************************************)
(* The report that parse() reads for a test was written for that test.     *)
(***************************************************************************)
ReportOwn == \A t \in Tests : \A r \in attached[t] : r.test = t

=============================================================================

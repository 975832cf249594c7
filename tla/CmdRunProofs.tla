---------------------------- MODULE CmdRunProofs ----------------------------
(***************************************************************************)
(* Proofs about CmdRun, for any list of tests and any number of sessions:  *)
(*   - LoopRunsRunCmd: what the loop does to one test is what RunCmd says, *)
(*     so that all that is proved of RunCmd holds of CmdRun;               *)
(*   - SessionIsComplete: SessionComplete, when the sources are only ever  *)
(*     replaced by new ones and not while a test runs;                     *)
(*   - LoopImplementsStore: then the logs directory implements Results;    *)
(*   - LoopTypeCorrect and ReportsStayInOrder.                             *)
(***************************************************************************)
EXTENDS CmdRun, RunCmdProofs

\* The test that is run next is one of the tests.
LEMMA TodoType == \A i \in 1 .. Len(todo) : todo[i] \in Tests
  BY CmdRunAssumption

\* The position of the loop.
AtOK == at \in 1 .. Len(todo) + 1

LEMMA AtStep == ASSUME AtOK, [Next]_vars PROVE AtOK'
<1>1. Len(todo) \in Nat
  BY CmdRunAssumption
<1>2. CASE StartRun
  BY <1>1, <1>2 DEF StartRun, AtOK
<1>3. CASE StartTest
  BY <1>1, <1>3 DEF StartTest, AtOK
<1>4. CASE UNCHANGED at
  BY <1>4 DEF AtOK
<1> QED
  BY <1>2, <1>3, <1>4
  DEF Next, FinishRun, HardTimeout, Abort, Work, EndTest, ToolActs, ToolReports,
      OrphanReports, TimePasses, cmd_gencodes, loopVars, vars

\* A step of the loop is a step of run_cmd() or leaves its state alone.
LEMMA LoopStep == ASSUME AtOK, [Next]_vars PROVE [RunNext]_runVars
<1>1. CASE StartTest
  <2>1. todo[at] \in Tests
    BY <1>1, TodoType DEF StartTest, AtOK
  <2> QED BY <1>1, <2>1 DEF StartTest, RunNext
<1>2. CASE StartRun \/ FinishRun \/ ToolReports \/ OrphanReports
  BY <1>2 DEF StartRun, FinishRun, ToolReports, OrphanReports
<1>3. CASE HardTimeout \/ Abort
  BY <1>3 DEF HardTimeout, Abort, RunNext
<1>4. CASE Work \/ EndTest \/ ToolActs \/ TimePasses \/ cmd_gencodes
  BY <1>4 DEF Work, EndTest, ToolActs, TimePasses, cmd_gencodes, RunNext
<1>5. CASE UNCHANGED vars
  BY <1>5 DEF vars
<1> QED BY <1>1, <1>2, <1>3, <1>4, <1>5 DEF Next

(***************************************************************************)
(* The loop over the tests, with its hard timeout, its aborted sessions    *)
(* and the reports that the wrappers rename, implements RunCmd.            *)
(***************************************************************************)
THEOREM LoopRunsRunCmd == Spec => RunSpec
<1>1. Init => RunInit /\ AtOK
  BY CmdRunAssumption DEF Init, AtOK
<1>2. AtOK /\ [Next]_vars => AtOK' /\ [RunNext]_runVars
  BY AtStep, LoopStep
<1> QED BY <1>1, <1>2, PTL DEF Spec, RunSpec

-----------------------------------------------------------------------------
(***************************************************************************)
(* Why a session that ends is complete.  A test behind the position of the *)
(* loop has its result, or its child was cut short, or it is the one whose *)
(* child runs now; a child that comes to the end of run_cmd() has given    *)
(* its test a result (ReturnInv), and no other test loses its own.         *)
(***************************************************************************)
\* Test t has the complete result of its source, be it a compilation error.
Done(t) ==
  /\ txt[t].is = "full"
  /\ txt[t].of = Source(t)
  /\ elapsed[t] = "full"

ReturnInv == pc = "returned" => Done(test)

LoopInv ==
  /\ pc # "idle" => phase = "running"
  /\ phase = "running" =>
       \A i \in 1 .. Len(todo) :
         i < at => \/ todo[i] \in cut
                   \/ Done(todo[i])
                   \/ pc # "idle" /\ todo[i] = test
  /\ phase = "done" =>
       \A i \in 1 .. Len(todo) : todo[i] \in cut \/ Done(todo[i])

LEMMA ReturnStep ==
  ASSUME FreshOnly, QuietGen, TypeOK, CacheInv, ReturnInv, [RunNext]_runVars
  PROVE  ReturnInv'
<1> USE DEF ReturnInv, TypeOK, files, childVars, toolVars, Done, Source
<1>1. ASSUME NEW t \in Tests, Begin(t) PROVE ReturnInv'
  BY <1>1 DEF Begin
<1>2. CASE LookUp
  <2>1. CASE CacheHit
    BY <2>1 DEF CacheHit, Cached, CacheInv, Complete
  <2>2. CASE CacheStale \/ CacheMiss
    BY <2>2 DEF CacheStale, CacheMiss
  <2> QED BY <1>2, <2>1, <2>2 DEF LookUp
<1>3. CASE Launch
  BY <1>3 DEF Launch, BuildOK, BuildFail, Exec
<1>4. CASE Watch
  BY <1>4 DEF Watch, must_filter, SoftTimeout, ToolEnded, Drain, KillGroup, KillGroupRace,
              ChildEnds
<1>5. CASE Save
  <2>1. CASE WriteTxt
    BY <2>1 DEF WriteTxt, CacheInv, AfterRead
  <2>2. CASE WriteMd5sum
    BY <2>2 DEF WriteMd5sum, CacheInv, Complete
  <2>3. CASE OpenElapsed \/ WriteElapsed \/ OpenTxt \/ OpenMd5sum
    BY <2>3 DEF OpenElapsed, WriteElapsed, OpenTxt, OpenMd5sum
  <2> QED BY <1>5, <2>1, <2>2, <2>3 DEF Save
<1>6. CASE Return \/ Killed
  BY <1>6 DEF Return, Killed, ChildEnds
<1>7. CASE ToolStep
  BY <1>7 DEF ToolStep, ToolWrites, ToolExits, ToolChildrenExit
<1>8. CASE Tick
  BY <1>8 DEF Tick
<1>9. ASSUME NEW f \in Files, Regenerate(f) PROVE ReturnInv'
  BY <1>9, QuietGen DEF Regenerate
<1>10. CASE UNCHANGED runVars
  BY <1>10 DEF runVars
<1> QED
  BY <1>1, <1>2, <1>3, <1>4, <1>5, <1>6, <1>7, <1>8, <1>9, <1>10
  DEF RunNext, ChildStep

\* A step of the child touches no other test than its own.
LEMMA OthersStayDone ==
  ASSUME TypeOK, ChildStep, NEW t \in Tests, Done(t), t # test
  PROVE  Done(t)'
<1> USE DEF TypeOK, files, childVars, toolVars, Done, Source
<1>1. CASE LookUp
  BY <1>1 DEF LookUp, CacheHit, CacheStale, CacheMiss
<1>2. CASE Launch
  BY <1>2 DEF Launch, BuildOK, BuildFail, Exec
<1>3. CASE Watch
  BY <1>3 DEF Watch, must_filter, SoftTimeout, ToolEnded, Drain, KillGroup, KillGroupRace,
              ChildEnds
<1>4. CASE Save
  BY <1>4 DEF Save, OpenElapsed, WriteElapsed, OpenTxt, WriteTxt, OpenMd5sum, WriteMd5sum
<1> QED BY <1>1, <1>2, <1>3, <1>4 DEF ChildStep

\* A step of the child stays with its test and comes from a child.
LEMMA ChildStays ==
  ASSUME ChildStep
  PROVE  test' = test /\ pc # "idle"
  BY DEF ChildStep, LookUp, Launch, Watch, Save, CacheHit, CacheStale, CacheMiss, BuildOK,
         BuildFail, Exec, must_filter, SoftTimeout, ToolEnded, Drain, KillGroup,
         KillGroupRace, ChildEnds, OpenElapsed, WriteElapsed, OpenTxt, WriteTxt,
         OpenMd5sum, WriteMd5sum, childVars

LEMMA LoopInvStep ==
  ASSUME TypeOK, AtOK, ReturnInv, LoopInv, [Next]_vars
  PROVE  LoopInv'
<1>0. \A i \in 1 .. Len(todo) : todo[i] \in Tests
  BY TodoType
<1>1. CASE StartRun
  BY <1>1, CmdRunAssumption DEF StartRun, LoopInv
<1>2. CASE StartTest
  <2>1. /\ UNCHANGED <<src, txt, elapsed, phase, cut>>
        /\ at' = at + 1 /\ at \in 1 .. Len(todo)
        /\ pc = "idle" /\ pc' = "check" /\ test' = todo[at] /\ phase = "running"
    BY <1>2, CmdRunAssumption DEF StartTest, Begin, files, AtOK
  <2>2. \A i \in 1 .. Len(todo) : i < at + 1 => i < at \/ i = at
    BY <2>1, CmdRunAssumption
  <2> QED BY <2>1, <2>2 DEF LoopInv, Done, Source
<1>3. CASE FinishRun
  <2>1. /\ UNCHANGED <<src, txt, elapsed, pc, test, cut, at>>
        /\ phase = "running" /\ phase' = "done" /\ pc = "idle" /\ at > Len(todo)
    BY <1>3 DEF FinishRun, runVars, files, childVars
  <2>2. \A i \in 1 .. Len(todo) : i < at
    BY <2>1, CmdRunAssumption DEF AtOK
  <2> QED BY <2>1, <2>2 DEF LoopInv, Done, Source
<1>4. CASE HardTimeout
  <2>1. /\ UNCHANGED <<src, txt, elapsed, test, phase, at>>
        /\ cut' = cut \cup {test} /\ pc' = "idle" /\ phase = "running"
    BY <1>4 DEF HardTimeout, Killed, ChildEnds, CutShort, files, loopVars
  <2> QED BY <2>1 DEF LoopInv, Done, Source
<1>5. CASE Abort
  <2>1. phase' = "idle" /\ pc' = "idle"
    BY <1>5 DEF Abort, Killed, ChildEnds, runVars
  <2> QED BY <2>1 DEF LoopInv
<1>6. CASE Work
  <2>1. /\ ChildStep
        /\ UNCHANGED <<phase, at>>
        /\ IF pc' = "idle" THEN cut' = cut \cup {test} ELSE cut' = cut
    BY <1>6 DEF Work, CutShort, loopVars
  <2>2. test' = test /\ phase = "running"
    BY <2>1, ChildStays DEF LoopInv
  <2>3. ASSUME NEW i \in 1 .. Len(todo), i < at
        PROVE  \/ todo[i] \in cut'
               \/ Done(todo[i])'
               \/ pc' # "idle" /\ todo[i] = test'
    <3>1. CASE todo[i] \in cut \/ todo[i] = test
      BY <2>1, <2>2, <3>1
    <3>2. CASE Done(todo[i]) /\ todo[i] # test
      BY <1>0, <2>1, <3>2, OthersStayDone
    <3> QED BY <2>2, <2>3, <3>1, <3>2 DEF LoopInv
  <2> QED BY <2>1, <2>2, <2>3 DEF LoopInv
<1>7. CASE EndTest
  <2>1. /\ UNCHANGED <<src, txt, elapsed, test, phase, at, cut>>
        /\ pc = "returned" /\ pc' = "idle"
    BY <1>7 DEF EndTest, Return, ChildEnds, files, loopVars
  <2>2. Done(test)
    BY <2>1 DEF ReturnInv
  <2> QED BY <2>1, <2>2 DEF LoopInv, Done, Source
<1>8. CASE cmd_gencodes
  <2>1. phase # "running" /\ phase' = "idle" /\ pc' = pc
    BY <1>8 DEF cmd_gencodes, Regenerate
  <2> QED BY <2>1 DEF LoopInv
<1>9. CASE ToolActs \/ ToolReports \/ OrphanReports \/ TimePasses \/ UNCHANGED vars
  <2>1. UNCHANGED <<src, txt, elapsed, pc, test, phase, at, cut>>
    BY <1>9 DEF ToolActs, ToolStep, ToolWrites, ToolExits, ToolChildrenExit, ToolReports,
                OrphanReports, TimePasses, Tick, files, childVars, runVars, loopVars, vars
  <2> QED BY <2>1 DEF LoopInv, Done, Source
<1> QED BY <1>1, <1>2, <1>3, <1>4, <1>5, <1>6, <1>7, <1>8, <1>9 DEF Next

(***************************************************************************)
(* A session that comes to its end has given every test the result of its  *)
(* present source, except those whose child was cut short in that session, *)
(* whatever earlier sessions left in the logs directory.                   *)
(***************************************************************************)
THEOREM SessionIsComplete == FreshOnly /\ QuietGen /\ Spec => []SessionComplete
<1> SUFFICES ASSUME FreshOnly, QuietGen PROVE Spec => []SessionComplete
  OBVIOUS
<1>1. Init => AtOK /\ ReturnInv /\ LoopInv
  BY CmdRunAssumption DEF Init, RunInit, AtOK, ReturnInv, LoopInv
<1>2. TypeOK /\ CacheInv /\ AtOK /\ ReturnInv /\ LoopInv /\ [Next]_vars
        => AtOK' /\ ReturnInv' /\ LoopInv'
  BY AtStep, LoopStep, ReturnStep, LoopInvStep
<1>3. LoopInv => SessionComplete
  BY DEF LoopInv, SessionComplete, Done
<1> QED BY <1>1, <1>2, <1>3, LoopRunsRunCmd, CacheInvHolds, PTL DEF Spec

(***************************************************************************)
(* The files in the logs directory, written by children that the hard      *)
(* timeout terminates and in sessions that are aborted, implement the      *)
(* store of results.                                                       *)
(***************************************************************************)
THEOREM LoopImplementsStore == FreshOnly /\ QuietGen /\ Spec => ImplementsStore
  BY LoopRunsRunCmd, CacheImplementsStore, PTL

-----------------------------------------------------------------------------
\* The type of the variables of the loop but the position.
LoopVarsOK ==
  /\ phase \in {"idle", "running", "done"}
  /\ session \in 0 .. MaxRuns
  /\ report \in SUBSET Reports
  /\ attached \in [Tests -> SUBSET Reports]
  /\ orphans \in SUBSET Reports
  /\ cut \in SUBSET Tests
  /\ dirty \in BOOLEAN

\* What is written of the tool of the present child is a report.
LEMMA OwnReport ==
  ASSUME TypeOK
  PROVE  [test |-> test, of |-> ver] \in Reports /\ LeftBehind \in SUBSET Reports
  BY DEF TypeOK, Reports, LeftBehind

LEMMA LoopTypeStep == ASSUME TypeOK, LoopVarsOK, [Next]_vars PROVE LoopVarsOK'
<1> USE DEF LoopVarsOK
<1>0. test \in Tests
  BY DEF TypeOK
<1>1. CASE StartRun
  BY <1>1, CmdRunAssumption DEF StartRun, reportVars
<1>2. CASE StartTest \/ FinishRun
  BY <1>2 DEF StartTest, FinishRun
<1>3. CASE HardTimeout
  BY <1>0, <1>3, OwnReport DEF HardTimeout, CutShort, loopVars
<1>4. CASE Abort
  BY <1>0, <1>4 DEF Abort, CutShort
<1>5. CASE Work
  BY <1>0, <1>5 DEF Work, CutShort, loopVars, reportVars
<1>6. CASE EndTest
  BY <1>0, <1>6 DEF EndTest, Attach, loopVars
<1>7. CASE ToolActs \/ TimePasses \/ cmd_gencodes
  BY <1>7 DEF ToolActs, TimePasses, cmd_gencodes, loopVars, reportVars
<1>8. CASE ToolReports
  BY <1>8, OwnReport DEF ToolReports, loopVars
<1>9. CASE OrphanReports
  BY <1>9 DEF OrphanReports, loopVars
<1>10. CASE UNCHANGED vars
  BY <1>10 DEF vars, loopVars, reportVars
<1> QED
  BY <1>1, <1>2, <1>3, <1>4, <1>5, <1>6, <1>7, <1>8, <1>9, <1>10 DEF Next

(***************************************************************************)
(* CmdRun keeps its type.                                                  *)
(***************************************************************************)
THEOREM LoopTypeCorrect == Spec => []LoopTypeOK
<1>1. Init => AtOK /\ LoopVarsOK
  <2> SUFFICES ASSUME Init PROVE AtOK /\ LoopVarsOK
    OBVIOUS
  <2>1. AtOK /\ session \in 0 .. MaxRuns
    BY CmdRunAssumption DEF Init, AtOK
  <2>2. {} \in SUBSET Reports /\ {} \in SUBSET Tests
    OBVIOUS
  <2> QED BY <2>1, <2>2 DEF Init, LoopVarsOK
<1>2. TypeOK /\ AtOK /\ LoopVarsOK /\ [Next]_vars => AtOK' /\ LoopVarsOK'
  BY AtStep, LoopTypeStep
<1>3. TypeOK /\ AtOK /\ LoopVarsOK => LoopTypeOK
  BY DEF AtOK, LoopVarsOK, LoopTypeOK
<1> QED BY <1>1, <1>2, <1>3, LoopRunsRunCmd, RunTypeCorrect, PTL DEF Spec
-----------------------------------------------------------------------------
(***************************************************************************)
(* Why reports are attached in order.  As long as no child was cut short   *)
(* there is no tool but that of the present child, so a report that waits  *)
(* is that of the present test; it waits only once the tool was started,   *)
(* and then run_cmd() returns that it ran the test, so that the wrapper    *)
(* leaves nothing behind for the next one.                                 *)
(***************************************************************************)
\* The tool runs while the child reads its output, and a child that saves
\* the digest has run the test.
ToolInv ==
  /\ leader = "alive" => pc \in {"loop", "drain", "killpg"}
  /\ pc \in {"open md5sum", "write md5sum"} => ran

NotStarted == {"idle", "check", "build", "exec"}

OrderInv ==
  ~ dirty =>
    /\ orphans = {}
    /\ \A r \in report : r.test = test
    /\ report # {} => pc \notin NotStarted /\ (pc = "returned" => ran)
    /\ \A t \in Tests : \A r \in attached[t] : r.test = t

LEMMA ToolInvStep ==
  ASSUME TypeOK, ToolInv, [RunNext]_runVars
  PROVE  ToolInv'
<1> USE DEF ToolInv, TypeOK, files, childVars, toolVars
<1>1. ASSUME NEW t \in Tests, Begin(t) PROVE ToolInv'
  BY <1>1 DEF Begin
<1>2. CASE LookUp
  BY <1>2 DEF LookUp, CacheHit, CacheStale, CacheMiss
<1>3. CASE Launch
  BY <1>3 DEF Launch, BuildOK, BuildFail, Exec
<1>4. CASE Watch
  BY <1>4 DEF Watch, must_filter, SoftTimeout, ToolEnded, Drain, KillGroup, KillGroupRace,
              ChildEnds
<1>5. CASE Save
  BY <1>5 DEF Save, OpenElapsed, WriteElapsed, OpenTxt, WriteTxt, OpenMd5sum, WriteMd5sum
<1>6. CASE Return \/ Killed
  BY <1>6 DEF Return, Killed, ChildEnds
<1>7. CASE ToolStep
  BY <1>7 DEF ToolStep, ToolWrites, ToolExits, ToolChildrenExit
<1>8. CASE Tick
  BY <1>8 DEF Tick
<1>9. ASSUME NEW f \in Files, Regenerate(f) PROVE ToolInv'
  BY <1>9 DEF Regenerate
<1>10. CASE UNCHANGED runVars
  BY <1>10 DEF runVars
<1> QED
  BY <1>1, <1>2, <1>3, <1>4, <1>5, <1>6, <1>7, <1>8, <1>9, <1>10
  DEF RunNext, ChildStep

\* A child that started its tool goes on to the end of run_cmd(), which
\* returns that the test was run, or is cut short.
LEMMA StartedGoesOn ==
  ASSUME ToolInv, ChildStep, pc \notin NotStarted, pc = "returned" => ran, pc' # "idle"
  PROVE  pc' \notin NotStarted /\ (pc' = "returned" => ran')
<1>1. CASE LookUp \/ Launch
  BY <1>1 DEF LookUp, Launch, CacheHit, CacheStale, CacheMiss, BuildOK, BuildFail, Exec,
              NotStarted
<1>2. CASE Watch
  BY <1>2 DEF Watch, must_filter, SoftTimeout, ToolEnded, Drain, KillGroup, KillGroupRace,
              ChildEnds, NotStarted
<1>3. CASE Save
  <2>1. CASE WriteTxt
    BY <2>1 DEF WriteTxt, NotStarted
  <2>2. CASE WriteMd5sum
    BY <2>2 DEF WriteMd5sum, ToolInv, NotStarted, childVars
  <2>3. CASE OpenElapsed \/ WriteElapsed \/ OpenTxt \/ OpenMd5sum
    BY <2>3 DEF OpenElapsed, WriteElapsed, OpenTxt, OpenMd5sum, NotStarted
  <2> QED BY <1>3, <2>1, <2>2, <2>3 DEF Save
<1> QED BY <1>1, <1>2, <1>3 DEF ChildStep

LEMMA OrderStep ==
  ASSUME TypeOK, LoopVarsOK, ToolInv, OrderInv, [Next]_vars
  PROVE  OrderInv'
<1> SUFFICES ASSUME ~ dirty' PROVE OrderInv'
  BY DEF OrderInv
<1>1. CASE StartTest
  <2>1. /\ report = {} /\ orphans' = {} /\ UNCHANGED <<report, attached, dirty>>
    BY <1>1 DEF StartTest, Begin, OrderInv, NotStarted
  <2> QED BY <2>1 DEF OrderInv
<1>2. CASE HardTimeout
  BY <1>2 DEF HardTimeout, CutShort
<1>3. CASE Abort
  <2>1. /\ pc = "idle" /\ orphans' = {} /\ UNCHANGED <<pc, test, ran, report, attached, dirty>>
    BY <1>3 DEF Abort, CutShort, runVars, childVars
  <2> QED BY <2>1 DEF OrderInv
<1>4. CASE Work
  <2>1. /\ ChildStep /\ pc' # "idle" /\ UNCHANGED <<report, attached, orphans, dirty>>
    BY <1>4 DEF Work, CutShort, reportVars
  <2>2. test' = test
    BY <2>1, ChildStays
  <2> QED BY <2>1, <2>2, StartedGoesOn DEF OrderInv
<1>5. CASE EndTest
  <2>1. /\ pc = "returned" /\ pc' = "idle" /\ Attach
        /\ UNCHANGED <<test, orphans, dirty>> /\ test \in Tests
    BY <1>5 DEF EndTest, Return, ChildEnds, TypeOK
  <2>2. report' = {}
    BY <2>1 DEF Attach, OrderInv
  <2>3. ASSUME NEW t \in Tests, NEW r \in attached'[t] PROVE r.test = t
    <3>1. \/ attached' = attached
          \/ attached' = [attached EXCEPT ![test] = report]
      BY <2>1 DEF Attach
    <3>2. CASE attached' = attached
      BY <2>1, <2>3, <3>2 DEF OrderInv
    <3>3. CASE attached' = [attached EXCEPT ![test] = report]
      <4>1. CASE t = test
        BY <2>1, <2>3, <3>3, <4>1 DEF OrderInv, LoopVarsOK
      <4>2. CASE t # test
        BY <2>1, <2>3, <3>3, <4>2 DEF OrderInv, LoopVarsOK
      <4> QED BY <4>1, <4>2
    <3> QED BY <3>1, <3>2, <3>3
  <2> QED BY <2>1, <2>2, <2>3 DEF OrderInv
<1>6. CASE ToolReports
  <2>1. /\ pc \in {"loop", "drain", "killpg"} /\ report' = {[test |-> test, of |-> ver]}
        /\ UNCHANGED <<pc, test, ran, attached, orphans, dirty>>
    BY <1>6 DEF ToolReports, ToolInv, runVars, childVars
  <2> QED BY <2>1 DEF OrderInv, NotStarted
<1>7. CASE OrphanReports
  BY <1>7 DEF OrphanReports, OrderInv
<1>8. CASE FinishRun
  BY <1>8 DEF FinishRun, OrderInv, runVars, childVars
<1>9. CASE StartRun \/ ToolActs \/ TimePasses \/ cmd_gencodes \/ UNCHANGED vars
  <2>1. UNCHANGED <<pc, test, ran, report, attached, orphans, dirty>>
    BY <1>9 DEF StartRun, ToolActs, ToolStep, ToolWrites, ToolExits, ToolChildrenExit,
                TimePasses, Tick, cmd_gencodes, Regenerate, vars, runVars, childVars,
                reportVars
  <2> QED BY <2>1 DEF OrderInv
<1> QED BY <1>1, <1>2, <1>3, <1>4, <1>5, <1>6, <1>7, <1>8, <1>9 DEF Next

(***************************************************************************)
(* As long as no child was ever cut short, the wrapper renames for a test  *)
(* the report that was written for it, in the three modes of renaming.     *)
(***************************************************************************)
THEOREM ReportsStayInOrder == Spec => []ReportsInOrder
<1>1. Init => AtOK /\ ToolInv /\ OrderInv
  BY CmdRunAssumption DEF Init, RunInit, AtOK, ToolInv, OrderInv
<1>2. LoopTypeOK /\ AtOK /\ ToolInv /\ OrderInv /\ [Next]_vars
        => AtOK' /\ ToolInv' /\ OrderInv'
  <2>1. LoopTypeOK => TypeOK /\ LoopVarsOK
    BY DEF LoopTypeOK, LoopVarsOK
  <2> QED BY <2>1, AtStep, LoopStep, ToolInvStep, OrderStep
<1>3. OrderInv => ReportsInOrder
  BY DEF OrderInv, ReportsInOrder
<1> QED BY <1>1, <1>2, <1>3, LoopTypeCorrect, PTL DEF Spec
=============================================================================

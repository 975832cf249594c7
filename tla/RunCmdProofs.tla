---------------------------- MODULE RunCmdProofs ----------------------------
(***************************************************************************)
(* Proofs about RunCmd, for any set of tests, files and versions:          *)
(*   - RunTypeCorrect: RunCmd keeps its type;                              *)
(*   - TxtComesWithElapsed: TxtImpliesElapsed, in every environment;       *)
(*   - CacheIsSound: CacheSound, when the sources are only ever replaced   *)
(*     by new ones and not while a test runs, wherever a child is killed;  *)
(*   - CacheIsKept: KeepCached, under the same conditions;                 *)
(*   - LateIsMarked: LateHasTimeoutFile, in every environment;             *)
(*   - DigestIsOfCompiled: DigestOfCompiled, when the sources are not      *)
(*     replaced while a test runs;                                         *)
(*   - CacheImplementsStore: ImplementsStore, under the conditions of      *)
(*     CacheIsSound.                                                       *)
(***************************************************************************)
EXTENDS RunCmd, TLAPS

\* What stands in a field without meaning is a version.
LEMMA BlankTypes ==
  /\ Blank \in Versions
  /\ \A is \in FileStates : BareTxt(is) \in Outputs /\ BareMd5sum(is) \in Digests
<1>1. Blank \in Versions
  BY RunCmdAssumption DEF Blank
<1> QED BY <1>1 DEF BareTxt, BareMd5sum, Outputs, Digests, Endings

\* Every test has a source.
LEMMA SourceType ==
  ASSUME TypeOK, NEW t \in Tests
  PROVE  Source(t) \in Versions /\ Source(t) \in Nat
  BY RunCmdAssumption DEF TypeOK, Source

\* The end of a child keeps the type.
LEMMA ChildEndsType == ASSUME TypeOK, ChildEnds PROVE TypeOK'
<1>1. Blank \in Versions
  BY BlankTypes
<1>2. /\ UNCHANGED <<src, txt, elapsed, md5sum, timedout, test>>
      /\ pc' \in PCs /\ ver' \in Versions /\ how' \in Endings
      /\ clock' = 0 /\ leader' = "none" /\ pipe' = "closed"
  BY <1>1 DEF ChildEnds, files, PCs, Endings
<1>3. late' \in BOOLEAN /\ ran' \in BOOLEAN
  BY Zenon DEF ChildEnds
<1> QED BY <1>2, <1>3 DEF TypeOK, Pipes

(***************************************************************************)
(* Every step of RunCmd keeps the type of its variables.                   *)
(***************************************************************************)
LEMMA TypeStep == ASSUME TypeOK, [RunNext]_runVars PROVE TypeOK'
<1> USE DEF files, childVars, toolVars
<1>1. ASSUME NEW t \in Tests, Begin(t) PROVE TypeOK'
  BY <1>1 DEF Begin, TypeOK, PCs
<1>2. CASE LookUp
  <2>1. CASE CacheHit
    BY <2>1 DEF CacheHit, TypeOK, PCs
  <2>2. CASE CacheStale
    BY <2>2, BlankTypes DEF CacheStale, TypeOK, PCs, FileStates
  <2>3. CASE CacheMiss
    BY <2>3 DEF CacheMiss, TypeOK, PCs
  <2> QED BY <1>2, <2>1, <2>2, <2>3 DEF LookUp
<1>3. CASE Launch
  <2>0. Source(test) \in Versions
    BY SourceType DEF TypeOK
  <2>2. CASE BuildOK
    BY <2>0, <2>2 DEF BuildOK, TypeOK, PCs
  <2>3. CASE BuildFail
    BY <2>0, <2>3 DEF BuildFail, TypeOK, PCs, Endings
  <2>4. CASE Exec
    BY <2>0, <2>4 DEF Exec, TypeOK, PCs, Pipes
  <2> QED BY <1>3, <2>2, <2>3, <2>4 DEF Launch
<1>4. CASE Watch
  <2>1. CASE SoftTimeout
    BY <2>1 DEF SoftTimeout, TypeOK, PCs
  <2>2. CASE ToolEnded
    BY <2>2 DEF ToolEnded, TypeOK, PCs
  <2>3. CASE Drain
    BY <2>3 DEF Drain, TypeOK, PCs
  <2>4. CASE KillGroup
    BY <2>4 DEF KillGroup, TypeOK, PCs, Endings, Pipes
  <2>5. CASE KillGroupRace
    BY <2>5, ChildEndsType DEF KillGroupRace
  <2>6. CASE must_filter
    BY <2>6 DEF must_filter, TypeOK, Endings, Pipes
  <2> QED BY <1>4, <2>1, <2>2, <2>3, <2>4, <2>5, <2>6 DEF Watch
<1>5. CASE Save
  <2>0. Source(test) \in Versions
    BY SourceType DEF TypeOK
  <2>1. CASE OpenElapsed
    BY <2>1 DEF OpenElapsed, TypeOK, PCs, FileStates
  <2>2. CASE WriteElapsed
    BY <2>2 DEF WriteElapsed, TypeOK, PCs, FileStates
  <2>3. CASE OpenTxt
    BY <2>3, BlankTypes DEF OpenTxt, TypeOK, PCs, FileStates
  <2>4. CASE WriteTxt
    <3>1. [is |-> "full", of |-> ver, how |-> how, late |-> late] \in Outputs
      BY DEF TypeOK, Outputs, FileStates
    <3> QED BY <2>4, <3>1 DEF WriteTxt, TypeOK, PCs
  <2>5. CASE OpenMd5sum
    BY <2>5, BlankTypes DEF OpenMd5sum, TypeOK, PCs, FileStates
  <2>6. CASE WriteMd5sum
    <3>1. [is |-> "full", of |-> Source(test)] \in Digests
      BY <2>0 DEF Digests, FileStates
    <3> QED BY <2>6, <3>1 DEF WriteMd5sum, TypeOK, PCs
  <2> QED BY <1>5, <2>1, <2>2, <2>3, <2>4, <2>5, <2>6 DEF Save
<1>6. CASE Return
  BY <1>6, ChildEndsType DEF Return
<1>7. CASE ToolStep
  BY <1>7 DEF ToolStep, ToolWrites, ToolExits, ToolChildrenExit, TypeOK, Pipes
<1>8. CASE Tick
  BY <1>8 DEF Tick, TypeOK
<1>9. CASE Killed
  BY <1>9, ChildEndsType DEF Killed
<1>10. ASSUME NEW f \in Files, Regenerate(f) PROVE TypeOK'
  BY <1>10 DEF Regenerate, TypeOK
<1>11. CASE UNCHANGED runVars
  BY <1>11 DEF runVars, TypeOK
<1> QED
  BY <1>1, <1>2, <1>3, <1>4, <1>5, <1>6, <1>7, <1>8, <1>9, <1>10, <1>11
  DEF RunNext, ChildStep

(***************************************************************************)
(* RunCmd keeps its type.                                                  *)
(***************************************************************************)
THEOREM RunTypeCorrect == RunSpec => []TypeOK
<1>1. RunInit => TypeOK
  <2>1. Blank \in Versions /\ BareTxt("none") \in Outputs /\ BareMd5sum("none") \in Digests
    BY BlankTypes DEF FileStates
  <2> SUFFICES ASSUME RunInit PROVE TypeOK
    OBVIOUS
  <2>2. late \in BOOLEAN /\ ran \in BOOLEAN /\ timedout \in [Tests -> BOOLEAN]
    BY Zenon DEF RunInit
  <2> QED BY <2>1, <2>2 DEF RunInit, TypeOK, FileStates, Endings, PCs, Pipes
<1>2. TypeOK /\ [RunNext]_runVars => TypeOK'
  BY TypeStep
<1> QED BY <1>1, <1>2, PTL DEF RunSpec

-----------------------------------------------------------------------------
(***************************************************************************)
(* The .elapsed is there as soon as the .txt is about to be written.       *)
(***************************************************************************)
ElapsedInv ==
  /\ TxtImpliesElapsed
  /\ pc \in {"write elapsed", "open txt", "write txt"} => elapsed[test] # "none"

LEMMA ElapsedStep ==
  ASSUME TypeOK, ElapsedInv, [RunNext]_runVars
  PROVE  ElapsedInv'
<1> USE DEF ElapsedInv, TxtImpliesElapsed, TypeOK, files, childVars, toolVars
<1>1. ASSUME NEW t \in Tests, Begin(t) PROVE ElapsedInv'
  BY <1>1 DEF Begin
<1>2. CASE LookUp
  <2>1. CASE CacheHit \/ CacheMiss
    BY <2>1 DEF CacheHit, CacheMiss
  <2>2. CASE CacheStale
    BY <2>2 DEF CacheStale, BareTxt
  <2> QED BY <1>2, <2>1, <2>2 DEF LookUp
<1>3. CASE Launch
  BY <1>3 DEF Launch, BuildOK, BuildFail, Exec
<1>4. CASE Watch
  BY <1>4 DEF Watch, must_filter, SoftTimeout, ToolEnded, Drain, KillGroup, KillGroupRace, ChildEnds
<1>5. CASE Save
  <2>1. CASE OpenElapsed
    BY <2>1 DEF OpenElapsed
  <2>2. CASE WriteElapsed
    BY <2>2 DEF WriteElapsed
  <2>3. CASE OpenTxt
    BY <2>3 DEF OpenTxt
  <2>4. CASE WriteTxt
    BY <2>4 DEF WriteTxt
  <2>5. CASE OpenMd5sum \/ WriteMd5sum
    BY <2>5 DEF OpenMd5sum, WriteMd5sum
  <2> QED BY <1>5, <2>1, <2>2, <2>3, <2>4, <2>5 DEF Save
<1>6. CASE Return \/ Killed
  BY <1>6 DEF Return, Killed, ChildEnds
<1>7. CASE ToolStep
  BY <1>7 DEF ToolStep, ToolWrites, ToolExits, ToolChildrenExit
<1>8. CASE Tick
  BY <1>8 DEF Tick
<1>9. ASSUME NEW f \in Files, Regenerate(f) PROVE ElapsedInv'
  BY <1>9 DEF Regenerate
<1>10. CASE UNCHANGED runVars
  BY <1>10 DEF runVars
<1> QED
  BY <1>1, <1>2, <1>3, <1>4, <1>5, <1>6, <1>7, <1>8, <1>9, <1>10
  DEF RunNext, ChildStep

(***************************************************************************)
(* A test with an output has a time, wherever children are killed and      *)
(* whenever the codes are regenerated.                                     *)
(***************************************************************************)
THEOREM TxtComesWithElapsed == RunSpec => []TxtImpliesElapsed
<1>1. RunInit => ElapsedInv
  BY DEF RunInit, ElapsedInv, TxtImpliesElapsed, BareTxt
<1>2. TypeOK /\ ElapsedInv /\ [RunNext]_runVars => ElapsedInv'
  BY ElapsedStep
<1>3. ElapsedInv => TxtImpliesElapsed
  BY DEF ElapsedInv
<1> QED BY <1>1, <1>2, <1>3, RunTypeCorrect, PTL DEF RunSpec

-----------------------------------------------------------------------------
(***************************************************************************)
(* Why the cache is sound.  A digest that matches the source is never      *)
(* older than the result: it only matches once the .elapsed and the .txt   *)
(* of that source are complete, a child that runs the test works on a      *)
(* source whose digest does not match yet, and a new source does not match *)
(* the digest of an earlier one (OldDigests).                              *)
(***************************************************************************)
\* The result of test t is complete and comes from its present source.
Complete(t) ==
  /\ txt[t].is = "full"
  /\ txt[t].of = Source(t)
  /\ txt[t].how # "compile error"
  /\ elapsed[t] = "full"

\* The places where the source has been read by the compiler or the tool.
AfterRead ==
  \/ pc = "exec" /\ Compiled
  \/ pc \in {"loop", "drain", "killpg", "open elapsed", "write elapsed",
             "open txt", "write txt", "open md5sum", "write md5sum"}

\* The digests are those of present or earlier sources.
OldDigests ==
  \A t \in Tests : md5sum[t].is = "full" => md5sum[t].of <= Source(t)

CacheInv ==
  /\ \A t \in Tests : DigestMatches(t) => Complete(t)
  /\ pc \notin {"idle", "check", "returned"} => ~ DigestMatches(test)
  /\ AfterRead => ver = Source(test)
  /\ pc \in {"open txt", "write txt"} => elapsed[test] = "full"
  /\ pc \in {"open md5sum", "write md5sum"} => Complete(test)

\* A new source is newer than every digest of the earlier ones.
LEMMA NewSource ==
  ASSUME FreshOnly, TypeOK, OldDigests, NEW f \in Files, Regenerate(f),
         NEW t \in Tests, md5sum'[t].is = "full"
  PROVE  /\ md5sum'[t].of <= Source(t)'
         /\ FileOf[t] = f => md5sum'[t].of # Source(t)'
<1>1. md5sum' = md5sum
  BY DEF Regenerate, files
<1>2. PICK v \in Versions : v > src[f] /\ src' = [src EXCEPT ![f] = v]
  BY FreshOnly DEF Regenerate
<1>3. v \in Nat /\ src[FileOf[t]] \in Nat /\ md5sum[t].of \in Nat /\ FileOf[t] \in Files
  BY RunCmdAssumption DEF TypeOK, Digests
<1>4. md5sum[t].of <= src[FileOf[t]]
  BY <1>1 DEF OldDigests, Source
<1>5. src'[FileOf[t]] = IF FileOf[t] = f THEN v ELSE src[FileOf[t]]
  BY <1>2, <1>3 DEF TypeOK
<1>6. CASE FileOf[t] = f
  <2>1. \A m, n, k \in Nat : m <= n /\ k > n => m <= k /\ m # k
    OBVIOUS
  <2>2. md5sum[t].of <= v /\ md5sum[t].of # v
    BY <1>2, <1>3, <1>4, <1>6, <2>1
  <2> QED BY <1>1, <1>5, <1>6, <2>2 DEF Source
<1>7. CASE FileOf[t] # f
  BY <1>1, <1>4, <1>5, <1>7 DEF Source
<1> QED BY <1>6, <1>7

LEMMA OldDigestsStep ==
  ASSUME FreshOnly, TypeOK, OldDigests, [RunNext]_runVars
  PROVE  OldDigests'
<1>1. ASSUME NEW f \in Files, Regenerate(f) PROVE OldDigests'
  BY <1>1, NewSource, FreshOnly DEF OldDigests
<1>2. CASE OpenMd5sum
  <2>1. UNCHANGED src /\ md5sum' = [md5sum EXCEPT ![test] = BareMd5sum("partial")]
    BY <1>2 DEF OpenMd5sum
  <2> QED BY <2>1 DEF OldDigests, Source, TypeOK, BareMd5sum
<1>3. CASE WriteMd5sum
  <2>1. /\ UNCHANGED src
        /\ md5sum' = [md5sum EXCEPT ![test] = [is |-> "full", of |-> Source(test)]]
    BY <1>3 DEF WriteMd5sum
  <2>2. \A n \in Nat : n <= n
    OBVIOUS
  <2>3. Source(test) <= Source(test) /\ test \in Tests
    BY <2>2, SourceType DEF TypeOK
  <2>4. ASSUME NEW t \in Tests, md5sum'[t].is = "full"
        PROVE  md5sum'[t].of <= Source(t)
    <3>1. CASE t = test
      BY <2>1, <2>3, <3>1 DEF TypeOK
    <3>2. CASE t # test
      BY <2>1, <2>4, <3>2 DEF TypeOK, OldDigests
    <3> QED BY <3>1, <3>2
  <2> QED BY <2>1, <2>4 DEF OldDigests, Source
<1>4. CASE UNCHANGED <<src, md5sum>>
  BY <1>4 DEF OldDigests, Source
<1> QED
  <2>1. \/ \E f \in Files : Regenerate(f)
        \/ OpenMd5sum
        \/ WriteMd5sum
        \/ UNCHANGED <<src, md5sum>>
    BY DEF RunNext, ChildStep, LookUp, Launch, Watch, Save, ToolStep, Begin, CacheHit,
        CacheStale, CacheMiss, BuildOK, BuildFail, Exec, must_filter, SoftTimeout, ToolEnded,
        Drain, KillGroup, KillGroupRace, OpenElapsed, WriteElapsed, OpenTxt, WriteTxt,
        Return, ToolWrites, ToolExits, ToolChildrenExit, Tick, Killed, ChildEnds, files, runVars
  <2> QED BY <1>1, <1>2, <1>3, <1>4, <2>1

\* A step that leaves the source and the files alone, and takes the child
\* to the end or past no place of the invariant, keeps it.
LEMMA CacheInvEnds == ASSUME TypeOK, CacheInv, ChildEnds PROVE CacheInv'
  BY DEF CacheInv, ChildEnds, files, TypeOK, Source, DigestMatches, Complete, AfterRead

LEMMA CacheStep ==
  ASSUME FreshOnly, QuietGen, TypeOK, OldDigests, CacheInv, [RunNext]_runVars
  PROVE  CacheInv'
<1>0. ASSUME NEW f \in Files, Regenerate(f), NEW t \in Tests, FileOf[t] = f
      PROVE  ~ DigestMatches(t)'
  BY <1>0, NewSource, FreshOnly DEF DigestMatches
<1> USE DEF CacheInv, TypeOK, files, childVars, toolVars, Source, DigestMatches,
            Complete, AfterRead
<1>1. ASSUME NEW t \in Tests, Begin(t) PROVE CacheInv'
  BY <1>1 DEF Begin
<1>2. CASE LookUp
  <2>1. CASE CacheHit
    BY <2>1 DEF CacheHit
  <2>2. CASE CacheStale
    BY <2>2 DEF CacheStale
  <2>3. CASE CacheMiss
    BY <2>3 DEF CacheMiss, CacheFiles
  <2> QED BY <1>2, <2>1, <2>2, <2>3 DEF LookUp
<1>3. CASE Launch
  BY <1>3 DEF Launch, BuildOK, BuildFail, Exec
<1>4. CASE Watch
  <2>1. CASE must_filter \/ SoftTimeout \/ ToolEnded \/ Drain \/ KillGroup
    BY <2>1 DEF must_filter, SoftTimeout, ToolEnded, Drain, KillGroup
  <2>2. CASE KillGroupRace
    BY <2>2, CacheInvEnds DEF KillGroupRace
  <2> QED BY <1>4, <2>1, <2>2 DEF Watch
<1>5. CASE Save
  <2>1. CASE OpenElapsed
    BY <2>1 DEF OpenElapsed
  <2>2. CASE WriteElapsed
    BY <2>2 DEF WriteElapsed
  <2>3. CASE OpenTxt
    BY <2>3 DEF OpenTxt
  <2>4. CASE WriteTxt
    BY <2>4 DEF WriteTxt
  <2>5. CASE OpenMd5sum
    BY <2>5 DEF OpenMd5sum, BareMd5sum
  <2>6. CASE WriteMd5sum
    BY <2>6 DEF WriteMd5sum
  <2> QED BY <1>5, <2>1, <2>2, <2>3, <2>4, <2>5, <2>6 DEF Save
<1>6. CASE Return \/ Killed
  BY <1>6, CacheInvEnds DEF Return, Killed
<1>7. CASE ToolStep
  BY <1>7 DEF ToolStep, ToolWrites, ToolExits, ToolChildrenExit
<1>8. CASE Tick
  BY <1>8 DEF Tick
<1>9. ASSUME NEW f \in Files, Regenerate(f) PROVE CacheInv'
  <2>1. pc = "idle" /\ pc' = "idle"
    BY <1>9, QuietGen DEF Regenerate
  <2>2. /\ \A g \in Files \ {f} : src'[g] = src[g]
        /\ UNCHANGED <<txt, elapsed, md5sum, test, ver>>
        /\ \A t \in Tests : FileOf[t] \in Files
    BY <1>9, RunCmdAssumption DEF Regenerate
  <2>3. ASSUME NEW t \in Tests PROVE DigestMatches(t)' => Complete(t)'
    BY <1>0, <1>9, <2>2
  <2> QED BY <2>1, <2>2, <2>3
<1>10. CASE UNCHANGED runVars
  BY <1>10 DEF runVars
<1> QED
  BY <1>1, <1>2, <1>3, <1>4, <1>5, <1>6, <1>7, <1>8, <1>9, <1>10
  DEF RunNext, ChildStep

\* The invariants hold of RunCmd.
LEMMA CacheInvHolds ==
  FreshOnly /\ QuietGen /\ RunSpec => [](TypeOK /\ OldDigests /\ CacheInv)
<1> SUFFICES ASSUME FreshOnly, QuietGen
             PROVE  RunSpec => [](TypeOK /\ OldDigests /\ CacheInv)
  OBVIOUS
<1>1. RunInit => OldDigests /\ CacheInv
  BY DEF RunInit, OldDigests, CacheInv, BareMd5sum, DigestMatches, AfterRead
<1>2. TypeOK /\ OldDigests /\ CacheInv /\ [RunNext]_runVars => OldDigests' /\ CacheInv'
  BY OldDigestsStep, CacheStep
<1> QED BY <1>1, <1>2, RunTypeCorrect, PTL DEF RunSpec

(***************************************************************************)
(* What the cache delivers is the complete result of a tool run on the     *)
(* source as it is now, when the sources are only replaced by new ones and *)
(* not while a test runs, and wherever a child is killed.                  *)
(***************************************************************************)
THEOREM CacheIsSound == FreshOnly /\ QuietGen /\ RunSpec => []CacheSound
<1>1. CacheInv => CacheSound
  BY DEF CacheInv, CacheSound, Cached, Complete
<1> QED BY <1>1, CacheInvHolds, PTL

-----------------------------------------------------------------------------
\* While the source stays the same, a step keeps a result that matches it.
LEMMA KeepStep ==
  ASSUME TypeOK, CacheInv, [RunNext]_runVars,
         NEW t \in Tests, Cached(t), Source(t)' = Source(t)
  PROVE  txt'[t] = txt[t] /\ elapsed'[t] = elapsed[t] /\ Cached(t)'
<1> USE DEF CacheInv, TypeOK, files, childVars, toolVars, DigestMatches, Cached, CacheFiles
<1>1. CASE Save
  <2>1. test # t
    BY <1>1 DEF Save, OpenElapsed, WriteElapsed, OpenTxt, WriteTxt, OpenMd5sum, WriteMd5sum
  <2>2. txt'[t] = txt[t] /\ elapsed'[t] = elapsed[t] /\ md5sum'[t] = md5sum[t]
    BY <1>1, <2>1
    DEF Save, OpenElapsed, WriteElapsed, OpenTxt, WriteTxt, OpenMd5sum, WriteMd5sum
  <2> QED BY <2>2
<1>2. CASE CacheStale
  <2>1. test # t
    BY <1>2 DEF CacheStale
  <2> QED BY <1>2, <2>1 DEF CacheStale
<1>3. CASE ~ Save /\ ~ CacheStale
  <2>1. UNCHANGED <<txt, elapsed, md5sum>>
    BY <1>3
    DEF RunNext, ChildStep, LookUp, Launch, Watch, ToolStep, Begin, CacheHit, CacheMiss,
        BuildOK, BuildFail, Exec, must_filter, SoftTimeout, ToolEnded, Drain, KillGroup,
        KillGroupRace, Return, ToolWrites, ToolExits, ToolChildrenExit, Tick, Killed,
        Regenerate, ChildEnds, runVars
  <2> QED BY <2>1
<1> QED BY <1>1, <1>2, <1>3

(***************************************************************************)
(* Under the same conditions a result in the cache is never touched before *)
(* its source changes.                                                     *)
(***************************************************************************)
THEOREM CacheIsKept == FreshOnly /\ QuietGen /\ RunSpec => KeepCached
<1>1. TypeOK /\ CacheInv /\ [RunNext]_runVars
        => [\A t \in Tests :
              Cached(t) /\ Source(t)' = Source(t)
                => txt'[t] = txt[t] /\ elapsed'[t] = elapsed[t] /\ Cached(t)']_runVars
  BY KeepStep
<1> QED BY <1>1, CacheInvHolds, PTL DEF RunSpec, KeepCached

-----------------------------------------------------------------------------
(***************************************************************************)
(* The mark of a timeout is there before the output is, and a child that   *)
(* starts has met no timeout.                                              *)
(***************************************************************************)
LateInv ==
  /\ LateHasTimeoutFile
  /\ late => timedout[test] /\ pc # "idle"

\* A step that touches neither outputs nor marks.
LEMMA LateKeeps ==
  ASSUME LateInv, UNCHANGED <<txt, timedout, test, late>>, pc' = "idle" => pc = "idle"
  PROVE  LateInv'
  BY DEF LateInv, LateHasTimeoutFile

LEMMA LateStep ==
  ASSUME TypeOK, LateInv, [RunNext]_runVars
  PROVE  LateInv'
<1> USE DEF LateInv, LateHasTimeoutFile, TypeOK, files, childVars, toolVars
<1>1. ASSUME NEW t \in Tests, Begin(t) PROVE LateInv'
  BY <1>1 DEF Begin
<1>2. CASE LookUp
  <2>1. CASE CacheHit \/ CacheMiss
    BY <2>1 DEF CacheHit, CacheMiss
  <2>2. CASE CacheStale
    BY <2>2 DEF CacheStale, BareTxt
  <2> QED BY <1>2, <2>1, <2>2 DEF LookUp
<1>3. CASE Launch
  BY <1>3, LateKeeps DEF Launch, BuildOK, BuildFail, Exec
<1>4. CASE Watch
  <2>1. CASE SoftTimeout
    BY <2>1 DEF SoftTimeout
  <2>2. CASE must_filter \/ ToolEnded \/ Drain \/ KillGroup
    BY <2>2, LateKeeps DEF must_filter, ToolEnded, Drain, KillGroup
  <2>3. CASE KillGroupRace
    BY <2>3 DEF KillGroupRace, ChildEnds
  <2> QED BY <1>4, <2>1, <2>2, <2>3 DEF Watch
<1>5. CASE Save
  <2>1. CASE OpenTxt
    BY <2>1 DEF OpenTxt, BareTxt
  <2>2. CASE WriteTxt
    BY <2>2 DEF WriteTxt
  <2>3. CASE OpenElapsed \/ WriteElapsed \/ OpenMd5sum \/ WriteMd5sum
    BY <2>3, LateKeeps DEF OpenElapsed, WriteElapsed, OpenMd5sum, WriteMd5sum
  <2> QED BY <1>5, <2>1, <2>2, <2>3 DEF Save
<1>6. CASE Return \/ Killed
  BY <1>6 DEF Return, Killed, ChildEnds
<1>7. CASE ToolStep
  BY <1>7, LateKeeps DEF ToolStep, ToolWrites, ToolExits, ToolChildrenExit
<1>8. CASE Tick
  BY <1>8 DEF Tick
<1>9. ASSUME NEW f \in Files, Regenerate(f) PROVE LateInv'
  BY <1>9 DEF Regenerate
<1>10. CASE UNCHANGED runVars
  BY <1>10 DEF runVars
<1> QED
  BY <1>1, <1>2, <1>3, <1>4, <1>5, <1>6, <1>7, <1>8, <1>9, <1>10
  DEF RunNext, ChildStep

\* The invariant holds of RunCmd.
LEMMA LateInvHolds == RunSpec => []LateInv
<1>1. RunInit => LateInv
  BY DEF RunInit, LateInv, LateHasTimeoutFile, BareTxt
<1>2. TypeOK /\ LateInv /\ [RunNext]_runVars => LateInv'
  BY LateStep
<1> QED BY <1>1, <1>2, RunTypeCorrect, PTL DEF RunSpec

(***************************************************************************)
(* An output that was cut by the soft timeout has its .timeout file,       *)
(* wherever children are killed and whenever the codes are regenerated.    *)
(***************************************************************************)
THEOREM LateIsMarked == RunSpec => []LateHasTimeoutFile
<1>1. LateInv => LateHasTimeoutFile
  BY DEF LateInv
<1> QED BY <1>1, LateInvHolds, PTL

-----------------------------------------------------------------------------
(***************************************************************************)
(* The source that was read is still there when its digest is computed,    *)
(* and only a child that saves its output returns that it ran the test.    *)
(***************************************************************************)
CompiledInv ==
  /\ AfterRead => ver = Source(test)
  /\ pc \notin {"open md5sum", "write md5sum", "returned"} => ran = FALSE
  /\ DigestOfCompiled

\* A step that stays where the child is.
LEMMA CompiledKeeps ==
  ASSUME CompiledInv, UNCHANGED <<src, md5sum, pc, test, ver, how, ran>>
  PROVE  CompiledInv'
  BY DEF CompiledInv, DigestOfCompiled, AfterRead, Source

LEMMA CompiledStep ==
  ASSUME QuietGen, TypeOK, CompiledInv, [RunNext]_runVars
  PROVE  CompiledInv'
<1> USE DEF CompiledInv, DigestOfCompiled, AfterRead, Source, TypeOK, files, childVars, toolVars
<1>1. ASSUME NEW t \in Tests, Begin(t) PROVE CompiledInv'
  BY <1>1 DEF Begin
<1>2. CASE LookUp
  <2>1. /\ pc = "check" /\ pc' \in {"returned", "build"}
        /\ UNCHANGED <<src, md5sum, test, ver, how, ran>>
    BY <1>2 DEF LookUp, CacheHit, CacheStale, CacheMiss
  <2>2. ran = FALSE
    BY <2>1
  <2> QED BY <2>1, <2>2
<1>3. CASE Launch
  BY <1>3 DEF Launch, BuildOK, BuildFail, Exec
<1>4. CASE Watch
  BY <1>4 DEF Watch, must_filter, SoftTimeout, ToolEnded, Drain, KillGroup, KillGroupRace,
              ChildEnds
<1>5. CASE Save
  <2>1. CASE WriteTxt
    BY <2>1 DEF WriteTxt
  <2>2. CASE WriteMd5sum
    BY <2>2 DEF WriteMd5sum
  <2>3. CASE OpenElapsed \/ WriteElapsed \/ OpenTxt \/ OpenMd5sum
    BY <2>3 DEF OpenElapsed, WriteElapsed, OpenTxt, OpenMd5sum
  <2> QED BY <1>5, <2>1, <2>2, <2>3 DEF Save
<1>6. CASE Return \/ Killed
  BY <1>6 DEF Return, Killed, ChildEnds
<1>7. CASE ToolStep
  BY <1>7, CompiledKeeps DEF ToolStep, ToolWrites, ToolExits, ToolChildrenExit
<1>8. CASE Tick
  BY <1>8 DEF Tick
<1>9. ASSUME NEW f \in Files, Regenerate(f) PROVE CompiledInv'
  BY <1>9, QuietGen DEF Regenerate
<1>10. CASE UNCHANGED runVars
  BY <1>10 DEF runVars
<1> QED
  BY <1>1, <1>2, <1>3, <1>4, <1>5, <1>6, <1>7, <1>8, <1>9, <1>10
  DEF RunNext, ChildStep

(***************************************************************************)
(* A child that has run a test leaves the digest of what it compiled, when *)
(* the codes are not regenerated while a test runs.                        *)
(***************************************************************************)
THEOREM DigestIsOfCompiled == QuietGen /\ RunSpec => []DigestOfCompiled
<1> SUFFICES ASSUME QuietGen PROVE RunSpec => []DigestOfCompiled
  OBVIOUS
<1>1. RunInit => CompiledInv
  BY DEF RunInit, CompiledInv, DigestOfCompiled, AfterRead
<1>2. TypeOK /\ CompiledInv /\ [RunNext]_runVars => CompiledInv'
  BY CompiledStep
<1>3. CompiledInv => DigestOfCompiled
  BY DEF CompiledInv
<1> QED BY <1>1, <1>2, <1>3, RunTypeCorrect, PTL DEF RunSpec

-----------------------------------------------------------------------------
(***************************************************************************)
(* The refinement.  What is served changes in two kinds of steps only: the *)
(* writing of a digest adds a result, a new source removes those of its    *)
(* tests.                                                                  *)
(***************************************************************************)
\* A digest that matches belongs to a result that is served.
LEMMA MatchIsServed ==
  ASSUME CacheInv, NEW t \in Tests
  PROVE  Cached(t) <=> DigestMatches(t)
  BY DEF CacheInv, Complete, Cached, CacheFiles, DigestMatches

\* All the other steps leave what is served alone.
LEMMA ServedStays ==
  ASSUME TypeOK, CacheInv, [RunNext]_runVars, ~ WriteMd5sum, UNCHANGED src, NEW t \in Tests
  PROVE  Served(t)' = Served(t)
<1>1. Source(t)' = Source(t)
  BY DEF Source
<1>2. CASE Cached(t)
  <2>1. txt'[t] = txt[t] /\ Cached(t)'
    BY <1>1, <1>2, KeepStep
  <2>2. timedout'[t] = timedout[t]
    <3>1. CASE SoftTimeout
      <4>1. test # t
        BY <1>2, <3>1 DEF SoftTimeout, CacheInv, Cached
      <4> QED BY <3>1, <4>1 DEF SoftTimeout, TypeOK
    <3>2. CASE ~ SoftTimeout
      <4>1. UNCHANGED timedout
        BY <3>2
        DEF RunNext, ChildStep, LookUp, Launch, Watch, Save, ToolStep, Begin, CacheHit,
            CacheStale, CacheMiss, BuildOK, BuildFail, Exec, must_filter, ToolEnded, Drain,
            KillGroup, KillGroupRace, OpenElapsed, WriteElapsed, OpenTxt, WriteTxt,
            OpenMd5sum, WriteMd5sum, Return, ToolWrites, ToolExits, ToolChildrenExit,
            Tick, Killed, Regenerate, ChildEnds, files, runVars
      <4> QED BY <4>1
    <3> QED BY <3>1, <3>2
  <2> QED BY <1>2, <2>1, <2>2 DEF Served
<1>3. CASE ~ Cached(t)
  <2>1. ~ DigestMatches(t)
    BY <1>3, MatchIsServed
  <2>2. \/ md5sum'[t] = md5sum[t]
        \/ md5sum'[t] = BareMd5sum("partial")
    <3>1. CASE OpenMd5sum
      BY <3>1 DEF OpenMd5sum, TypeOK
    <3>2. CASE ~ OpenMd5sum
      <4>1. UNCHANGED md5sum
        BY <3>2
        DEF RunNext, ChildStep, LookUp, Launch, Watch, Save, ToolStep, Begin, CacheHit,
            CacheStale, CacheMiss, BuildOK, BuildFail, Exec, must_filter, SoftTimeout,
            ToolEnded, Drain, KillGroup, KillGroupRace, OpenElapsed, WriteElapsed, OpenTxt,
            WriteTxt, Return, ToolWrites, ToolExits, ToolChildrenExit, Tick, Killed,
            Regenerate, ChildEnds, files, runVars
      <4> QED BY <4>1
    <3> QED BY <3>1, <3>2
  <2>3. ~ Cached(t)'
    BY <1>1, <2>1, <2>2 DEF Cached, DigestMatches, BareMd5sum
  <2> QED BY <1>3, <2>3 DEF Served
<1> QED BY <1>2, <1>3

\* The digest of a test that had no result is written.
LEMMA StoreKeeps ==
  ASSUME TypeOK, CacheInv, LateInv, [RunNext]_runVars, WriteMd5sum
  PROVE  Store!Keep(test)
<1>1. /\ test \in Tests
      /\ UNCHANGED <<src, txt, elapsed, timedout, test>>
      /\ md5sum' = [md5sum EXCEPT ![test] = [is |-> "full", of |-> Source(test)]]
      /\ pc = "write md5sum"
  BY DEF WriteMd5sum, TypeOK, childVars
<1>2. Complete(test) /\ ~ DigestMatches(test)
  BY <1>1 DEF CacheInv
<1>3. Served(test) = {}
  BY <1>2 DEF Served, Cached
<1> DEFINE new == [of |-> txt[test].of, how |-> txt[test].how, late |-> txt[test].late,
                   marked |-> timedout[test]]
<1>4. Served(test)' = {new}
  <2>1. md5sum'[test] = [is |-> "full", of |-> src[FileOf[test]]]
    BY <1>1 DEF TypeOK, Source
  <2>2. md5sum'[test].is = "full" /\ md5sum'[test].of = src[FileOf[test]]
    BY <2>1
  <2>3. DigestMatches(test)'
    BY <1>1, <2>2 DEF DigestMatches, Source
  <2>4. CacheFiles(test)'
    BY <1>1, <1>2, <2>2 DEF CacheFiles, Complete
  <2> QED BY <1>1, <2>3, <2>4 DEF Served, Cached
<1>5. new \in Store!NewResult(test)
  <2>1. txt[test] \in Outputs /\ timedout[test] \in BOOLEAN
    BY <1>1 DEF TypeOK
  <2>2. txt[test].of = src[FileOf[test]] /\ txt[test].how \in Store!Ends
    BY <1>2, <2>1 DEF Complete, Source, Outputs, Endings, Store!Ends
  <2>3. txt[test].late \in BOOLEAN /\ (txt[test].late => timedout[test])
    BY <1>1, <1>2, <2>1 DEF LateInv, LateHasTimeoutFile, Complete, Outputs
  <2> QED BY <2>1, <2>2, <2>3 DEF Store!NewResult
<1>6. ASSUME NEW t \in Tests, t # test PROVE Served(t)' = Served(t)
  BY <1>1, <1>6 DEF Served, Cached, CacheFiles, DigestMatches, Source, TypeOK
<1>7. [t \in Tests |-> Served(t)]' = [[t \in Tests |-> Served(t)] EXCEPT ![test] = {new}]
  BY <1>1, <1>4, <1>6
<1> QED BY <1>1, <1>3, <1>5, <1>7 DEF Store!Keep

\* A new source removes the results of its tests.
LEMMA StoreForgets ==
  ASSUME FreshOnly, TypeOK, OldDigests, NEW f \in Files, Regenerate(f)
  PROVE  Store!NewCode(f)
<1>1. /\ UNCHANGED <<txt, elapsed, md5sum, timedout>>
      /\ \E v \in Versions \ {src[f]} : src' = [src EXCEPT ![f] = v]
  BY DEF Regenerate, files
<1>2. ASSUME NEW t \in Tests
      PROVE  Served(t)' = IF FileOf[t] = f THEN {} ELSE Served(t)
  <2>1. CASE FileOf[t] = f
    <3>1. ~ DigestMatches(t)'
      BY <2>1, NewSource, FreshOnly DEF DigestMatches
    <3> QED BY <2>1, <3>1 DEF Served, Cached
  <2>2. CASE FileOf[t] # f
    <3>1. Source(t)' = Source(t)
      BY <1>1, <2>2, RunCmdAssumption DEF Source, TypeOK
    <3> QED BY <1>1, <2>2, <3>1 DEF Served, Cached, CacheFiles, DigestMatches
  <2> QED BY <2>1, <2>2
<1> QED BY <1>1, <1>2 DEF Store!NewCode

(***************************************************************************)
(* The four files of each test, opened and written one by one by children  *)
(* that may be killed between any two steps, implement the store of        *)
(* results, when the sources are only replaced by new ones and not while a *)
(* test runs.                                                              *)
(***************************************************************************)
THEOREM CacheImplementsStore == FreshOnly /\ QuietGen /\ RunSpec => ImplementsStore
<1> SUFFICES ASSUME FreshOnly, QuietGen PROVE RunSpec => ImplementsStore
  OBVIOUS
<1>1. RunInit => Store!Init
  BY DEF RunInit, Store!Init, Served, Cached, CacheFiles, BareTxt
<1>2. TypeOK /\ OldDigests /\ CacheInv /\ LateInv /\ [RunNext]_runVars
        => [Store!Next]_<<src, [t \in Tests |-> Served(t)]>>
  <2> SUFFICES ASSUME TypeOK, OldDigests, CacheInv, LateInv, [RunNext]_runVars
               PROVE  [Store!Next]_<<src, [t \in Tests |-> Served(t)]>>
    OBVIOUS
  <2>1. CASE WriteMd5sum
    BY <2>1, StoreKeeps DEF Store!Next, TypeOK
  <2>2. ASSUME NEW f \in Files, Regenerate(f) PROVE Store!Next
    BY <2>2, StoreForgets, FreshOnly DEF Store!Next
  <2>3. CASE ~ WriteMd5sum /\ UNCHANGED src
    <3>1. \A t \in Tests : Served(t)' = Served(t)
      BY <2>3, ServedStays
    <3> QED BY <2>3, <3>1
  <2>4. (\E f \in Files : Regenerate(f)) \/ UNCHANGED src
    BY DEF RunNext, ChildStep, LookUp, Launch, Watch, Save, ToolStep, Begin, CacheHit,
        CacheStale, CacheMiss, BuildOK, BuildFail, Exec, must_filter, SoftTimeout, ToolEnded,
        Drain, KillGroup, KillGroupRace, OpenElapsed, WriteElapsed, OpenTxt, WriteTxt,
        OpenMd5sum, WriteMd5sum, Return, ToolWrites, ToolExits, ToolChildrenExit, Tick,
        Killed, ChildEnds, runVars
  <2> QED BY <2>1, <2>2, <2>3, <2>4
<1> QED
  BY <1>1, <1>2, CacheInvHolds, LateInvHolds, PTL
  DEF RunSpec, ImplementsStore, Store!Spec
=============================================================================

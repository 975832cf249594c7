------------------------------- MODULE RunCmd -------------------------------
(***************************************************************************)
(* run_cmd() of MBIutils.py: the function that runs one test of the        *)
(* benchmark with the tool under evaluation, with its cache of results.    *)
(*                                                                         *)
(* The cache of a test is three files in logs/<tool>/, each opened with    *)
(* mode 'w' and then written:                                              *)
(*    .elapsed  the time taken                                             *)
(*    .txt      the output of the tool                                     *)
(*    .md5sum   the digest of the source file                              *)
(* A fourth file, .timeout, marks a test that was stopped by the soft      *)
(* timeout.                                                                *)
(*                                                                         *)
(* run_cmd() is executed by a child process of MBI.py, one at a time, that *)
(* may be killed between any two steps (by the hard timeout of cmd_run()   *)
(* or with the whole job), and that watches a process group of its own:    *)
(* the tool.  The digest of a source is represented by the source itself,  *)
(* a source by a version number, and the output by what is told apart when *)
(* it is parsed: the version analysed and the way the run ended.           *)
(***************************************************************************)
EXTENDS Naturals

CONSTANTS
  Tests,      \* the tests: the {binary}_{id} that name the cache files
  Files,      \* the source files in gencodes/
  FileOf,     \* FileOf[t]: the file that test t compiles
  Versions,   \* the contents that the generators may give to a file
  Compiled,   \* TRUE: there is a buildcmd; FALSE: buildcmd == None (CIVL)
  Filter,     \* TRUE: there is a read_line_lambda, must_filter() (MUST)
  FreshOnly,  \* TRUE: a regenerated file never gets back an earlier content
  QuietGen,   \* TRUE: the codes are not regenerated while a test runs
  Kills       \* TRUE: the child may be killed by somebody

ASSUME RunCmdAssumption ==
  /\ FileOf \in [Tests -> Files]
  /\ Versions \subseteq Nat
  /\ Versions # {}
  /\ Compiled \in BOOLEAN
  /\ Filter \in BOOLEAN
  /\ FreshOnly \in BOOLEAN
  /\ QuietGen \in BOOLEAN
  /\ Kills \in BOOLEAN

VARIABLES
  src,       \* src[f]: the content of file f
  txt,       \* txt[t]: the .txt file of test t, see Outputs
  elapsed,   \* elapsed[t]: the .elapsed file of test t, see FileStates
  md5sum,    \* md5sum[t]: the .md5sum file of test t, see Digests
  timedout,  \* timedout[t]: is there a .timeout file for test t?
  pc,        \* where the child is in run_cmd()
  test,      \* the test that the child handles
  ver,       \* the content that was compiled or analysed
  how,       \* how the run ended
  late,      \* did the loop end with outcome = 'timeout'?
  ran,       \* the value that run_cmd() returns
  clock,     \* 0; 1: the soft timeout is over; 2: the hard one is over too
  leader,    \* the process of the tool: "none", "alive" or "gone"
  pipe       \* its output, see Pipes

files     == <<txt, elapsed, md5sum, timedout>>
childVars == <<test, ver, how, late, ran>>
toolVars  == <<leader, pipe>>
runVars   == <<src, files, pc, childVars, clock, toolVars>>

\* A file that was opened with mode 'w' and not closed is "partial".
FileStates == {"none", "partial", "full"}

Endings == {"compile error", "exited", "killed 15", "killed 9"}

Digests == [is : FileStates, of : Versions]

Outputs == [is : FileStates, of : Versions, how : Endings, late : BOOLEAN]

PCs == {"idle", "check", "build", "exec", "loop", "drain", "killpg",
        "open elapsed", "write elapsed", "open txt", "write txt",
        "open md5sum", "write md5sum", "returned"}

\* "midline": the tool wrote the beginning of a line; "closed": no process
\* holds the pipe any more.
Pipes == {"open", "midline", "closed"}

\* What stands in a field that has no meaning.
Blank == CHOOSE v \in Versions : TRUE

\* A .txt or a .md5sum that is missing, or open and not written yet.
BareTxt(is) == [is |-> is, of |-> Blank, how |-> "exited", late |-> FALSE]
BareMd5sum(is) == [is |-> is, of |-> Blank]

-----------------------------------------------------------------------------
RunInit ==
  /\ src \in [Files -> Versions]
  /\ txt = [t \in Tests |-> BareTxt("none")]
  /\ elapsed = [t \in Tests |-> "none"]
  /\ md5sum = [t \in Tests |-> BareMd5sum("none")]
  /\ timedout = [t \in Tests |-> FALSE]
  /\ pc = "idle"
  /\ test \in Tests
  /\ ver = Blank
  /\ how = "exited"
  /\ late = FALSE
  /\ ran = FALSE
  /\ clock = 0
  /\ leader = "none"
  /\ pipe = "closed"

Source(t) == src[FileOf[t]]

\* The condition of the first line of run_cmd().
CacheFiles(t) ==
  /\ txt[t].is # "none"
  /\ elapsed[t] # "none"
  /\ md5sum[t].is # "none"

\* Mutant: the digests are not compared.
DigestMatches_any(t) == md5sum[t].is = "full"

\* olddigest == newdigest
DigestMatches(t) == md5sum[t].is = "full" /\ md5sum[t].of = Source(t)

Cached(t) == CacheFiles(t) /\ DigestMatches(t)

(***************************************************************************)
(* The call and the look-up in the cache.                                  *)
(***************************************************************************)
Begin(t) ==
  /\ pc = "idle"
  /\ pc' = "check"
  /\ test' = t
  /\ UNCHANGED <<src, files, ver, how, late, ran, clock, toolVars>>

\* The end of the child and of its local variables.  A tool that is still
\* there has a session of its own and survives, but nobody watches it.
ChildEnds ==
  /\ pc' = "idle"
  /\ ver' = Blank
  /\ how' = "exited"
  /\ late' = FALSE
  /\ ran' = FALSE
  /\ clock' = 0
  /\ leader' = "none"
  /\ pipe' = "closed"
  /\ UNCHANGED <<src, files, test>>

CacheHit ==
  /\ pc = "check"
  /\ Cached(test)
  /\ pc' = "returned"
  /\ UNCHANGED <<src, files, childVars, clock, toolVars>>

\* Mutant: the wrong file is removed.
CacheStale_elapsed ==
  /\ pc = "check"
  /\ CacheFiles(test)
  /\ ~ DigestMatches(test)
  /\ elapsed' = [elapsed EXCEPT ![test] = "none"]
  /\ pc' = "build"
  /\ UNCHANGED <<src, txt, md5sum, timedout, childVars, clock, toolVars>>

\* A digest that does not match removes the .txt before the test is rerun.
CacheStale ==
  /\ pc = "check"
  /\ CacheFiles(test)
  /\ ~ DigestMatches(test)
  /\ txt' = [txt EXCEPT ![test] = BareTxt("none")]
  /\ pc' = "build"
  /\ UNCHANGED <<src, elapsed, md5sum, timedout, childVars, clock, toolVars>>

\* Mutant: the test is run whatever the cache holds.
CacheMiss_always ==
  /\ pc = "check"
  /\ pc' = "build"
  /\ UNCHANGED <<src, files, childVars, clock, toolVars>>

CacheMiss ==
  /\ pc = "check"
  /\ ~ CacheFiles(test)
  /\ pc' = "build"
  /\ UNCHANGED <<src, files, childVars, clock, toolVars>>

(***************************************************************************)
(* The compilation, which has no timeout of its own.                       *)
(***************************************************************************)
\* There is nothing to compile, or the compilation succeeds.
BuildOK ==
  /\ pc = "build"
  /\ ver' = IF Compiled THEN Source(test) ELSE ver
  /\ pc' = "exec"
  /\ UNCHANGED <<src, files, test, how, late, ran, clock, toolVars>>

BuildFail ==
  /\ pc = "build"
  /\ Compiled
  /\ ver' = Source(test)
  /\ how' = "compile error"
  /\ pc' = "open elapsed"
  /\ UNCHANGED <<src, files, test, late, ran, clock, toolVars>>

(***************************************************************************)
(* The tool and the loop that reads its output.                            *)
(***************************************************************************)
Exec ==
  /\ pc = "exec"
  /\ ver' = IF Compiled THEN ver ELSE Source(test)
  /\ leader' = "alive"
  /\ pipe' = "open"
  /\ pc' = "loop"
  /\ UNCHANGED <<src, files, test, how, late, ran, clock>>

\* What the tool does: begin a line, finish it, exit with all its children
\* or leave some behind that hold the pipe, until they end too.
ToolWrites ==
  /\ leader # "none"
  /\ \/ pipe = "open" /\ pipe' = "midline"
     \/ pipe = "midline" /\ pipe' = "open"
  /\ UNCHANGED <<src, files, pc, childVars, clock, leader>>

ToolExits ==
  /\ leader = "alive"
  /\ leader' = "gone"
  /\ pipe' \in {pipe, "closed"}
  /\ UNCHANGED <<src, files, pc, childVars, clock>>

ToolChildrenExit ==
  /\ leader = "gone"
  /\ pipe # "closed"
  /\ pipe' = "closed"
  /\ UNCHANGED <<src, files, pc, childVars, clock, leader>>

\* readline() gets nothing but a whole line or the end of the output.
Blocked == pipe = "midline"

\* A line reports a deadlock: must_filter() sends SIGTERM to the group.  The
\* loop goes on, and finds the tool ended or not.
must_filter ==
  /\ pc = "loop"
  /\ ~ Blocked
  /\ Filter
  /\ leader = "alive"
  /\ leader' = "gone"
  /\ pipe' \in {pipe, "closed"}
  /\ how' \in {"exited", "killed 15"}
  /\ UNCHANGED <<src, files, pc, test, ver, late, ran, clock>>

\* Mutant: the .timeout file is not written.
SoftTimeout_unmarked ==
  /\ pc = "loop"
  /\ ~ Blocked
  /\ clock > 0
  /\ late' = TRUE
  /\ pc' = "killpg"
  /\ UNCHANGED <<src, files, test, ver, how, ran, clock, toolVars>>

\* The timeout is looked at before the end of the tool is.
SoftTimeout ==
  /\ pc = "loop"
  /\ ~ Blocked
  /\ clock > 0
  /\ late' = TRUE
  /\ timedout' = [timedout EXCEPT ![test] = TRUE]
  /\ pc' = "killpg"
  /\ UNCHANGED <<src, txt, elapsed, md5sum, test, ver, how, ran, clock, toolVars>>

ToolEnded ==
  /\ pc = "loop"
  /\ ~ Blocked
  /\ clock = 0
  /\ leader = "gone"
  /\ pc' = "drain"
  /\ UNCHANGED <<src, files, childVars, clock, toolVars>>

\* The rest of the output is read up to its end.
Drain ==
  /\ pc = "drain"
  /\ pipe = "closed"
  /\ pc' = "killpg"
  /\ UNCHANGED <<src, files, childVars, clock, toolVars>>

\* Mutant: the status of a tool that is still there is saved.
KillGroup_unpolled ==
  /\ pc = "killpg"
  /\ how' = IF leader = "gone" THEN how ELSE "running"
  /\ pc' = "open elapsed"
  /\ UNCHANGED <<src, files, test, ver, late, ran, clock, toolVars>>

\* SIGTERM to the group, then SIGKILL to what is left of it.
KillGroup ==
  /\ pc = "killpg"
  /\ how' \in IF leader = "gone" THEN {how}
                               ELSE {"exited", "killed 15", "killed 9"}
  /\ leader' = "gone"
  /\ pipe' = "closed"
  /\ pc' = "open elapsed"
  /\ UNCHANGED <<src, files, test, ver, late, ran, clock>>

\* process.poll() just after SIGKILL may still return None: then rc < 0
\* raises a TypeError and the child ends without any file written.
KillGroupRace ==
  /\ pc = "killpg"
  /\ leader = "alive"
  /\ ChildEnds

(***************************************************************************)
(* The three files of the result.                                          *)
(***************************************************************************)
OpenElapsed ==
  /\ pc = "open elapsed"
  /\ elapsed' = [elapsed EXCEPT ![test] = "partial"]
  /\ pc' = "write elapsed"
  /\ UNCHANGED <<src, txt, md5sum, timedout, childVars, clock, toolVars>>

WriteElapsed ==
  /\ pc = "write elapsed"
  /\ elapsed' = [elapsed EXCEPT ![test] = "full"]
  /\ pc' = "open txt"
  /\ UNCHANGED <<src, txt, md5sum, timedout, childVars, clock, toolVars>>

OpenTxt ==
  /\ pc = "open txt"
  /\ txt' = [txt EXCEPT ![test] = BareTxt("partial")]
  /\ pc' = "write txt"
  /\ UNCHANGED <<src, elapsed, md5sum, timedout, childVars, clock, toolVars>>

\* Mutant: no return after a compilation error.
WriteTxt_fallthrough ==
  /\ pc = "write txt"
  /\ txt' = [txt EXCEPT ![test] =
               [is |-> "full", of |-> ver, how |-> how, late |-> late]]
  /\ ran' = TRUE
  /\ pc' = "open md5sum"
  /\ UNCHANGED <<src, elapsed, md5sum, timedout, test, ver, how, late, clock, toolVars>>

\* Mutant: the return after a compilation error is always taken.
WriteTxt_return ==
  /\ pc = "write txt"
  /\ txt' = [txt EXCEPT ![test] =
               [is |-> "full", of |-> ver, how |-> how, late |-> late]]
  /\ ran' = TRUE
  /\ pc' = "returned"
  /\ UNCHANGED <<src, elapsed, md5sum, timedout, test, ver, how, late, clock, toolVars>>

\* After a compilation error run_cmd() returns here.
WriteTxt ==
  /\ pc = "write txt"
  /\ txt' = [txt EXCEPT ![test] =
               [is |-> "full", of |-> ver, how |-> how, late |-> late]]
  /\ ran' = TRUE
  /\ pc' = IF how = "compile error" THEN "returned" ELSE "open md5sum"
  /\ UNCHANGED <<src, elapsed, md5sum, timedout, test, ver, how, late, clock, toolVars>>

OpenMd5sum ==
  /\ pc = "open md5sum"
  /\ md5sum' = [md5sum EXCEPT ![test] = BareMd5sum("partial")]
  /\ pc' = "write md5sum"
  /\ UNCHANGED <<src, txt, elapsed, timedout, childVars, clock, toolVars>>

\* The digest is that of the source file as it is now.
WriteMd5sum ==
  /\ pc = "write md5sum"
  /\ md5sum' = [md5sum EXCEPT ![test] = [is |-> "full", of |-> Source(test)]]
  /\ pc' = "returned"
  /\ UNCHANGED <<src, txt, elapsed, timedout, childVars, clock, toolVars>>

Return == pc = "returned" /\ ChildEnds

(***************************************************************************)
(* The environment: time, the death of the child, new codes.               *)
(***************************************************************************)
Tick ==
  /\ pc # "idle"
  /\ clock < 2
  /\ clock' = clock + 1
  /\ UNCHANGED <<src, files, pc, childVars, toolVars>>

Killed == Kills /\ pc # "idle" /\ ChildEnds

Regenerate(f) ==
  /\ QuietGen => pc = "idle"
  /\ \E v \in Versions \ {src[f]} :
       /\ FreshOnly => v > src[f]
       /\ src' = [src EXCEPT ![f] = v]
  /\ UNCHANGED <<files, pc, childVars, clock, toolVars>>

ToolStep == ToolWrites \/ ToolExits \/ ToolChildrenExit

LookUp == CacheHit \/ CacheStale \/ CacheMiss

Launch == BuildOK \/ BuildFail \/ Exec

Watch == must_filter \/ SoftTimeout \/ ToolEnded \/ Drain \/ KillGroup \/ KillGroupRace

Save == \/ OpenElapsed \/ WriteElapsed \/ OpenTxt \/ WriteTxt
        \/ OpenMd5sum \/ WriteMd5sum

ChildStep == LookUp \/ Launch \/ Watch \/ Save

RunNext ==
  \/ \E t \in Tests : Begin(t)
  \/ ChildStep
  \/ Return
  \/ ToolStep
  \/ Tick
  \/ Killed
  \/ \E f \in Files : Regenerate(f)

RunSpec == RunInit /\ [][RunNext]_runVars

-----------------------------------------------------------------------------
TypeOK ==
  /\ src \in [Files -> Versions]
  /\ txt \in [Tests -> Outputs]
  /\ elapsed \in [Tests -> FileStates]
  /\ md5sum \in [Tests -> Digests]
  /\ timedout \in [Tests -> BOOLEAN]
  /\ pc \in PCs
  /\ test \in Tests
  /\ ver \in Versions
  /\ how \in Endings
  /\ late \in BOOLEAN
  /\ ran \in BOOLEAN
  /\ clock \in 0 .. 2
  /\ leader \in {"none", "alive", "gone"}
  /\ pipe \in Pipes

(***************************************************************************)
(* A test with an output has a time, whenever the child is killed: this is *)
(* what categorize() relies on when it raises "Invalid test result".       *)
(***************************************************************************)
TxtImpliesElapsed ==
  \A t \in Tests : txt[t].is # "none" => elapsed[t] # "none"

(***************************************************************************)
(* What the cache delivers is the complete result of a tool run on the     *)
(* source as it is now, wherever a child was killed before.  It holds when *)
(* FreshOnly and QuietGen do.                                              *)
(***************************************************************************)
CacheSound ==
  \A t \in Tests :
    Cached(t) => /\ txt[t].is = "full"
                 /\ txt[t].of = Source(t)
                 /\ txt[t].how # "compile error"
                 /\ elapsed[t] = "full"

(***************************************************************************)
(* A result in the cache stays there until the source changes: no later    *)
(* run of the test, cut short or not, touches it.                          *)
(***************************************************************************)
KeepCached ==
  [][\A t \in Tests :
       Cached(t) /\ Source(t)' = Source(t)
         => txt'[t] = txt[t] /\ elapsed'[t] = elapsed[t] /\ Cached(t)']_runVars

(***************************************************************************)
(* The files of a result that was saved by a run: its digest is that of    *)
(* the code that was compiled.  It needs QuietGen.                         *)
(***************************************************************************)
DigestOfCompiled ==
  pc = "returned" /\ ran /\ how # "compile error" => md5sum[test].of = ver

(***************************************************************************)
(* What MUST's parse() relies on when it finds nothing else: an output     *)
(* that was cut by the soft timeout has its .timeout file, wherever the    *)
(* child was killed.  (The converse fails: the file is never removed.)     *)
(***************************************************************************)
LateHasTimeoutFile ==
  \A t \in Tests : txt[t].is = "full" /\ txt[t].late => timedout[t]

(***************************************************************************)
(* The four files of all the tests implement the store of module Results:  *)
(* what the cache would serve for a test appears at once, when the digest  *)
(* is written, comes from the present source, is never altered, and is     *)
(* lost only when the source changes, wherever children are killed.  It    *)
(* needs FreshOnly and QuietGen.                                           *)
(***************************************************************************)
Served(t) ==
  IF Cached(t)
  THEN {[of |-> txt[t].of, how |-> txt[t].how, late |-> txt[t].late,
         marked |-> timedout[t]]}
  ELSE {}

Store == INSTANCE Results WITH store <- [t \in Tests |-> Served(t)]

ImplementsStore == Store!Spec
=============================================================================

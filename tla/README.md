# A TLA+ development for the MPI Bugs Initiative

The MPI Bugs Initiative (MBI) is a benchmark: a few thousand small MPI programs, correct or
with one known error, and the machinery that runs verification tools on them and counts
how often each tool is right. This directory models the programs and that machinery. The
question behind all the modules is: **can the numbers that MBI publishes be trusted?** That
is, do the programs have the error they are said to have, does every test get run, does the
result in the cache belong to the program it is filed under, is it read the way it was meant,
and is it counted once?

## 1. Inventory

| Component | Source | State it keeps | Operations | What makes it correct |
|---|---|---|---|---|
| code generation | `MBI.py` `cmd_gencodes`, `scripts/*Generator.py`, `scripts/generator_utils.py` | the dictionary `patterns` of an iteration, the files of `gencodes/` | fill the patterns, change them, make a file | the expectation in the header is true of the code under every schedule, no file is overwritten |
| test headers | `MBI.py` `parse_one_code` | position in the file, state of the header | one step per line | accepts exactly the well-formed headers, returns all the tests |
| batching | `MBI.py` `extract_all_todo`, `.gitlab-ci.yml` | the list of files of a job | slice, run, gather | batches are disjoint, nothing is lost in the end |
| test loop | `MBI.py` `cmd_run` | position in `todo`, the child process | start, wait, hard timeout | always ends; a finished session is complete |
| `run_cmd` and its cache | `scripts/MBIutils.py` | `.txt`, `.elapsed`, `.md5sum`, `.timeout` of each test; the tool's process group and pipe | look-up, compile, execute, watch, kill, save | delivers only complete results of the present source |
| tool wrappers, `run()` | `scripts/tools/*.py` | the report left by the tool | rename the report | a report belongs to its test |
| tool wrappers, `parse()`, and `categorize` | `scripts/tools/*.py`, `MBI.py` | none (reads the cache) | search for messages in order | no error is overruled, nothing that did not run is judged |
| `cmd_html` | `MBI.py` | counts per tool, the page under construction | count, lay out, print metrics | tables add up |
| `cmd_latex` | `MBI.py` | counts per tool and category, best values | count, search the best, print tables | tables agree, best is best |
| command line | `MBI.py` main | none | dispatch | not modelled: its values are constants of the modules |
| hand-written codes | `codes/*.c` | the requests, messages and objects of each rank | MPI calls | what the header excludes never happens, what it announces can happen |
| verification tools | `tools/` | - | - | third-party, external |

How they interact: `cmd_gencodes` writes the files that `extract_all_todo` lists and
`parse_one_code` reads into `todo`. `cmd_run` forks a child for each test; the child calls the
wrapper's `run()`, which calls `run_cmd`, which forks the tool in a process group of its own
and reads its output through a pipe. The result goes to files that outlive the process, are
carried from job to job by the continuous integration, and are read by `parse()`,
`categorize`, `cmd_html` and `cmd_latex` in a later process. All communication between the
components is through files.

What is hard in it:

* programs whose error, or whose correctness, depends on the schedule of two to four ranks and on
  how much MPI buffers, made by dictionaries that are changed from file to file and never copied;
* three processes per test (loop, child, tool) and the tool's own children, with two
  timeouts, of which the outer one kills the child at any point;
* files that are opened, then written, one after the other, without any atomicity;
* a cache that survives all that, and regenerated sources that it must notice;
* reports that are left under one name for all the tests;
* counts and off-by-one bounds (batches, percentages, times) that are right for most sizes.

`PROJECT.json` lists these hazards with their lines.

## 2. Modules

| Module | Models | Size of the state |
|---|---|---|
| `Batches` | runners `1..M` and the gather job, each with its listing, its slice and its logs | per job |
| `RunCmd` | one child in `run_cmd`, its tool, time, and the cache of all the tests | per test, plus one child |
| `Results` | the abstract store of results that `RunCmd` implements | one result per test |
| `CmdRun` | sessions of `cmd_run` over `todo`; EXTENDS `RunCmd`, and every step of it is a step of `RunCmd` or leaves its variables alone | |
| `Header` | `parse_one_code` on every file up to a length | one file |
| `Outcomes` | the ordered searches of the eleven `parse()` methods, and `categorize` | one log |
| `Calls` | the tables of `generator_utils.py`: a fragment of C is a sequence of instructions | |
| `CollGenerators`, `P2PGenerators`, `RMAGenerators` | the eighteen generators: templates, patterns, the list of files; each EXTENDS the one before | |
| `HandWritten`, `HandCorrect`, `HandErroneous` | 51 of the 57 codes in `codes/`: the calls and headers in general, the codes expected to be correct, the erroneous ones | |
| `Mpi` | a machine that runs such a file (external: as much of MPI as the codes use) | one file, all its ranks |
| `Metrics` | `percent`, `seconds2human` and the formulas of all the metrics, without state | |
| `Stats` | gathering of the results by `cmd_html` and `cmd_latex`, search of the best values | counts |
| `MCRunCmd`, `MCCmdRun`, `MCStats`, `MCCodes` | values of constants for TLC | |
| `BatchesProofs`, `RunCmdProofs`, `CmdRunProofs`, `HeaderProofs`, `OutcomesProofs`, `StatsProofs`, `MpiProofs` | theorems about the module of that name | |
| `MetricsProofs` | lemmas about the operators of `Metrics` that `StatsProofs` uses | |

Operators whose name ends with an underscore and a word (`max_rank_over`, `WriteTxt_return`)
are mutants: a definition as a plausible bug would have it. No module uses them. Each property
of each passing run fails when the definition is replaced by the mutant that `PROJECT.json`
names for it.

### Batches

`extract_all_todo(j)` computes the slice `filenames[min_rank:max_rank]`; the upper bound of a
Python slice is exclusive and clipped, which is `stop_rank`. `RunTest(j)` handles the next
file of the slice and `Finish(j)` ends the job. The gather job waits for the runners, starts
with the union of their logs and is started as `1/1`. `SameListing` says whether `glob.glob`
lists the files in the same order everywhere. The code sorts the list into a variable that it
then overwrites, so this is an assumption on the machines and not a property of the code.

### RunCmd

One action per step of `run_cmd` between which something else can be observed: the look-up
(`CacheHit`, `CacheStale`, `CacheMiss`), compilation (`BuildOK`, `BuildFail`), `Exec`,
the loop (`must_filter`, `SoftTimeout`, `ToolEnded`, `Drain`), the end of the process group (`KillGroup`, and
`KillGroupRace` for a `poll()` that still returns `None`), and an `Open` and a `Write` for each
of the three files. `pc` is the place in the function. A file is `none`, `partial` (opened
with mode `w`) or `full`. A digest is the version it was computed from, and an output is
reduced to the version that was analysed, how the run ended, and whether it was cut.

The environment: the tool writes lines (a line may be begun and not finished, which blocks
`readline`), exits, with or without children that hold the pipe (`ToolWrites`, `ToolExits`,
`ToolChildrenExit`); time passes (`clock` 1: soft timeout over; 2: hard timeout over); the
child is killed (`Killed`); codes are regenerated (`Regenerate`). Two constants say how:
`FreshOnly`, a file never gets back a content it had before; `QuietGen`, no regeneration while
a test runs. The second is how MBI is used; the first is not guaranteed by anything, and the
run `runcmd_revert` shows what happens without it.

### Results

What the cache promises to its readers: for each test no result or one (`store[t]`), which appears
as a whole (`Keep`), is that of the present source and never a compilation error, is marked as a
timeout if it was cut by one, never changes, and is lost when the source changes (`NewCode`). The
refinement mapping is `Served(t)` of `RunCmd`: what the look-up of `run_cmd` would deliver now. All
the steps of `RunCmd` but two are stuttering steps of `Results`: the writing of the digest is `Keep`,
regeneration is `NewCode`. This needs `FreshOnly` (else an old digest may come back to life,
`runcmd_revert`) and `QuietGen` (else the digest may be that of a source that was never compiled).

### CmdRun

A session is one execution of `MBI.py -c run` in its container. `StartTest` is `p.start()`,
`HardTimeout` is what follows `p.join(args.timeout+60)`, `Abort` is a cancelled job, `EndTest`
is the return of `run_cmd` with what `run()` does after it: rename the report that is there
(`Attach`). `ReportMode` is `overwrite` for MUST, Aislinn and Hermes, `keep` for MPI-SV, which
renames only if there is no report yet. A child that is cut short leaves a tool that may
still write its report (`OrphanReports`); MUST's wrapper kills such tools first (`KillBefore`).

### Calls, the generators, and Mpi

A generator consists of a template and of loops over lists of calls. In each iteration a
dictionary `patterns` is filled with fragments, and for each file some entries are changed;
since `replace = patterns` does not copy, later files inherit the changes, which the records
show as an `EXCEPT` of the record before. A template is an operator of the patterns and of the
rank: the sequence of instructions that the rank executes, with the conditions on the rank
already decided. The arguments of the calls are C variables that an instruction `set` may change
and that the machine reads when it makes the call. `make_file` is the record of the name, the
expectation in the header, the number of ranks and the programs. `cmd_gencodes` is the sequence of
all the 1691 files. (The names, expectations and numbers of ranks, and for each rank the
sequence of calls with their arguments, agree with the files that the scripts write, compiled
against a library that only records the calls. Two differences are wanted: the race codes end by
themselves, and `MPI_Comm_free(MPI_COMM_WORLD)` of one code is never reached.)

`Mpi` executes one file. Communications are posted (`Post`), met (`Match`, `MatchColl`) and left
(`Return`, `Wait`); messages do not overtake one another; collectives are matched in order per
communicator. `buffered` is how much MPI buffers: with `"none"` no call returns before its
counterpart is there; with `"all"` standard sends and the ranks of a collective that need nothing
from the others may go on at once; `"small"` leaves out the sends that a code makes larger than its
others. Generated OK codes are run with `"none"` and `"all"`, generated ERROR codes without
buffering, because their deadlocks may disappear with it. Invalid arguments and collectives that do not match end the
run, as MPI's default error handler does; other errors are noted in `diag` and the run goes on. One-sided
calls are accesses to a local buffer and to a window that last until the end of the epoch.
`Unmatched` is the name of what a hanging run tells: the tag, the communicator or the calls
do not match.

`WellFormedCode` is what can be seen in a code without running it: the numbers of ranks and of the
requests that calls name; that local calls report neither leaks nor errors of requests; that jumps
stay in the program and skip nothing that concerns objects or requests; that an operation with its
arguments written out has not met yet; and that wherever a program frees an object it has created
more of its kind than it has freed. `TypeOK` looks at it at the beginning of each run, so that the run
`codes` checks it for all the files; the theorems of `MpiProofs` need nothing else of a code.

The last part of `Mpi` reads the errors of objects and requests off the texts, for each instruction
of a program: which objects are not freed there, which requests are active, persistent or started
(`TextErrors`). A run that hangs or is aborted by the announced error does not get to the second one
behind it; `NothingHidden` says that there is none, for all the generated codes but those that announce
`InvalidCommunicator` or `CommunicatorMatching`. Some of these (`CollComNull`, `CollComMatching`,
`P2PComMatching` and the `Cart` codes) overwrite `newcom` and never free what was in it.

### The hand-written codes

A hand-written code is written down as the calls of each rank, with their arguments (`Literal`), and
as its header: which kinds of errors (`Kinds`) occur never. It is run with all three kinds of
buffering, and a wildcard receive takes any message that fits; nothing that the header excludes may
be observed (`NeverIsNever`). For a code that announces an error, "deadlock: transient" say, the
error need not occur in every run, so the code is there a second time as a witness: with an
implementation that buffers as given and that chooses as given among the messages of a wildcard
receive (`picks`), the error has to occur (`ErrorIsThere`). For most of the deadlocks no choice has to
be fixed: they occur in every run even with full buffering.

Loops on `MPI_Test` are waits, loops over independent requests are cut to `Reps` = 2 rounds, and the
assertions on computed values are left out. An observation of `Mpi` is translated into the words of
these headers by `KindOf`.

### Header, Outcomes, Stats

`Header` is a machine over the kinds of lines that the regular expressions of
`parse_one_code` tell apart; the reference it is compared with, `WellFormed`, speaks of the
whole file at once. `Outcomes` has one table per tool: the messages in the order in which
`parse()` looks for them and the outcome of each; messages next to one another with the same
outcome are one entry. A log may contain any combination of messages, and next to it may lie what an
earlier run of the test left: nothing removes a `.timeout` file or a report (`left` are the messages in
an old report; a report of this run replaces the one of MUST, while the first one of MPI-SV stays). `Stats` counts tests whose results are chosen arbitrarily for each tool, and then
follows the loop over the tools that searches the best values, including the comparison of a
string with a number that makes it fail. `StatsAssumption` says that there is a tool (`cmd_latex`
raises an `IndexError` if there is none), that no tool is named twice, and that no category has the name
of one of the two totals.

## 3. Runs

| Run | Bounds | Properties |
|---|---|---|
| `batches` | 5 files, 4 runners: a full batch, a batch of one file, and a batch that begins after the last file | `DisjointBatches`, `GatherComplete`, `GatherLeftovers`, `LastFilesLeftOut`, `PipelineEnds` |
| `batches_cover` | 4 files, 2 runners | violates `BatchesCoverFiles` |
| `runcmd_revert` | 1 test, 2 contents that may come back | violates `CacheSound` |
| `cmdrun_must` | 2 tests of one file, 2 contents, 2 sessions: an interrupted session and the one that repairs it, a stale entry of one test while the other one runs | `TxtImpliesElapsed`, `CacheSound`, `DigestOfCompiled`, `LateHasTimeoutFile`, `SessionComplete`, `ImplementsStore` |
| `cmdrun_ends` | 2 tests, 2 sessions, no compilation, reports kept | `RunEnds`, `KeepCached`, `ReportsInOrder` |
| `cmdrun_leftover` | 2 tests | violates `ReportOwn` |
| `header` | all the files of up to 6 lines of 7 kinds: the shortest with two tests has 6 | `AcceptsWellFormed`, `ReturnsAllTests` |
| `outcomes` | 11 tools, up to 3 messages of the run in any combination and 10 warnings (the first number that ends with 0), any old report and `.timeout` file | `NotRunUnjudged`, `NoErrorAccepted`, `SilentTimeoutUnjudged`, `TimeoutsAreLate` |
| `stats` | 2 tools, 3 tests of 2 categories, times that add up to more than a day | `TablesAddUp`, `MetricsAgree`, `BestIsBest`, `TimesShown`, `SearchEnds` |
| `stats_ideal` | 1 tool, 3 tests | violates `IdealTool` |
| `codes` | all the 1691 generated files and 51 hand-written codes, with the number of ranks of their header; 2 iterations instead of 100 in the loops of `ResleakGenerator.py`, 2 rounds in loops over independent requests | `OkIsClean`, `ErrorIsThere`, `AnnouncedOnly`, `NeverIsNever`, `WrittenOnce`, and for the 20 files of `Mislabelled` instead `MislabelledIsWrong`; `NothingHidden` for the generated files |
| `codes_rmap2p` | the 8 files of `RMAP2PGlobalConcurrencyGenerator.py` | violates `ErrorIsThere` |

Two contents are enough for `CacheSound`: the cache compares one stored digest with the
present one, and a third content would be either of them. Two tests are enough for the
reports: a report passes from one test to the next. The codes are run with the number of ranks
that MBI runs them with; a loop that leaks an object in each iteration does so in the first.

Deadlock is not checked where the modelled program ends (a pipeline, a session, a file that was
read, a code that ends or hangs as its header says); `RunCmd` by itself has no final state, and
`runcmd_revert` checks it for deadlock.

**Fairness.** `PipelineEnds` assumes that a job that may go on does. `RunEnds` assumes that
time passes, that `cmd_run` starts the next test when the previous child is gone, and that it
terminates a child whose time is over: these are steps of the operating system and of the
loop itself. Nothing is assumed of the child or the tool, which may block for ever.

### What the violations show

* `batches_cover`: `max_rank` is computed as if the slice included it. Each full batch loses
  its last file; the gather job of the continuous integration runs these files by itself
  (`GatherLeftovers`: at most one per runner), but with `-b` alone they are never run.
* `runcmd_revert`: contents A, then B that does not compile, then A again: the output of B is
  there, the digest of A is there, and the cache delivers the compilation error as the result of A.
* `cmdrun_leftover`: a child that is terminated after its tool wrote the report leaves the report
  to the next test, where it is renamed, even when that test is found in the cache.
* `stats_ideal`: `percent` returns the string `"1"` for 100%, which `cmd_latex` compares with
  a number. The same row also shows that F1 is computed from TN/(TP+FP): for an ideal tool it is 1
  only if there are as many correct codes as incorrect ones.
* `codes_rmap2p`: process 1 receives into `buf3` and not into its window, which only process 0
  accesses, under an exclusive lock. The codes end without any error, but their header says
  GlobalConcurrency: a tool that reports the error is credited and one that reports none is not.

Twelve more files do not do what their header says. `codes` runs all twenty of them, and
`MislabelledIsWrong` shows that none of their runs, under any schedule, ends as the header tells: the seven
`CallParamCorrect` codes of `ResleakGenerator.py` are said to be correct but keep their handle at
index `j` = 1 of an array of `size` = 1; the four `P2PCallMatching` codes with `MPI_Bsend` send
128 integers with an attached buffer for one, and fail there instead of at the announced mismatch;
`p2p-any-src-wait-deadlock4.c` sends `buf1` (line 95) while the request of line 93 receives into
it, although its header says "datarace: never".

Met while modelling, and reflected in the premises of the properties: PARCOACH's `parse()`
takes a run killed by the timeout for a deadlock (`SilentTimeoutUnjudged`) and "10 warning(s)
issued" for none; the methods of Aislinn and CIVL answer OK to an error, or to an uncertain one, if the
tool also prints its sign of success (`NoErrorAccepted`: these three cases and no others); MUST's judges
a code that does not compile by the report of its earlier version (`NotRunUnjudged`), and takes a run
that ended in time, and about which nothing is known, for a timeout if an earlier one was (`TimeoutsAreLate`);
five `P2PLocalConcurrency` codes also leak a persistent request, the codes of `P2PMatchingGenerator.py`
send 128 integers from a buffer of one, and ERROR codes of `ResleakGenerator.py` leave the bounds of their arrays of handles (`AnnouncedOnly`);
codes that replace a communicator lose it (`NothingHidden`); `CollP2PMatchingGenerator2.py` is never
run; page and console divide the robustness differently (`MetricsAgree`); the
days of the LaTeX total time are not written (`TimesShown`); `line_num` of `parse_one_code`
counts tests and not lines. Among the hand-written codes that are not modelled,
`no-error-p2P-rma.c` never frees its window although its header says "resleak: never", and
`medium-heat.c` waits for three of its four requests.

## 4. Proofs

All theorems hold for every value of the constants, under the named `ASSUME` of the module.

* `BatchesProofs`: `TypeCorrect`; `BatchesAreDisjoint` (with `SameListing`), from the invariant
  that what a runner has in its logs lies at ranks between its `min_rank` and its position, and
  the lemma that the slices are ordered; `GatherIsComplete`, for any listings, from the
  invariant that the gather job has handled all the ranks below its position and that the slice
  `1/1` is the whole list; `LeftoversAreFew` (with `SameListing`): the invariant `LeftoverInv` says that
  a runner that is done has logged all of its slice, so that a file that nobody logged is the last of
  a batch (`RankInBatch`: Euclidean division gives its batch and place), and there is one last file
  per batch (`LastFilesCount`); `LastFilesAreLeftOut` (with `SameListing`), the converse: these files are
  left out, for no other runner reaches them, and a benchmark with a file and several runners has one.
* `RunCmdProofs`: `RunTypeCorrect`; `TxtComesWithElapsed`, with the invariant that `.elapsed` is
  there whenever `pc` is past its opening; `CacheIsSound` and `CacheIsKept`, which need
  `FreshOnly` and `QuietGen`. `CacheSound` is not inductive: between the writing of `.txt` and that
  of `.md5sum` the old digest stands next to the new output. The invariant `CacheInv` adds that
  digests are never newer than the source (`OldDigests`), that while a test is being rerun its
  digest differs from the present source, and that what is about to be written is of the
  version that was compiled. `LateIsMarked`, in every environment, from the invariant that a child
  past its soft timeout has written the mark; `DigestIsOfCompiled`, with `QuietGen`; and
  `CacheImplementsStore`, the refinement of `Results`: the initial states map to initial states, the
  writing of a digest is `Keep` (`StoreKeeps`: by `CacheInv` nothing was served before, by `LateInv` a
  cut output is marked), regeneration is `NewCode` (`StoreForgets`: by `OldDigests` no digest is of
  the new source), and every other step leaves what is served as it is (`ServedStays`).
* `CmdRunProofs`: `LoopRunsRunCmd`, that `CmdRun` implements `RunCmd` (the variables map to
  themselves; the step needs that the position of the loop is in `todo`), so that the theorems of
  `RunCmdProofs` hold of whole sessions; `SessionIsComplete`, for any list of tests and any number
  of sessions. Its invariant `LoopInv` says that a test behind the position of the loop has its
  result, was cut short, or is the one being run; `ReturnInv` that a child at the end of `run_cmd`
  has given its test a result, which for a hit in the cache is `CacheInv`. `LoopImplementsStore`
  follows from `LoopRunsRunCmd` and `CacheImplementsStore`. `LoopTypeCorrect`; `ReportsStayInOrder`,
  whose invariant `OrderInv` says that, as long as no child was cut short, there are no orphans, a
  report that waits is that of the test being run, and it waits only between the start of the tool
  and the return of `run_cmd`, which then returns that the test was run.
* `HeaderProofs`: `HeaderTypeCorrect`, `ParserIsRight` (`AcceptsWellFormed` and
  `ReturnsAllTests`) and `ParserReturnsAllTests`, for files of any length. The invariant `ReadInv` says of the lines read so
  far what `WellFormed` says of the file: in the header there is one beginning and no end yet, each
  test so far is followed by its expectation, and the result is exactly these tests, numbered in
  order; `EndedInv` keeps for each exception the line that caused it, which refutes `WellFormed`.
* `OutcomesProofs`: `NotRunIsUnjudged`, `AcceptedErrorsAreOverruled`, `SilentTimeoutIsUnjudged` and
  `StaleTimeoutsAreRare`, for any combination of messages and whatever earlier runs left. Each says
  exactly when the answer is wrong, in both directions: it is so in the cases named, and in no others. The
  invariant `AnswerInv` says that the log is a possible one and the answer the one of
  `parse()` and `categorize()` for it. The search returns the outcome of the first message that is
  there (`SearchFindsFirst`); one lemma per tool (`AislinnInOrder`, ...) says which errors are searched
  before its signs of success and which after (`Early`), and the theorems follow from these.
* `MetricsProofs`, lemmas only: rounding (`RoundType`, `RoundCancels`), percentages (`PercentValue`), rows
  that add up (`CellsAddUp`), rows computed twice that agree (`RowsAgree`, `RobustnessAgrees`), F1
  (`F1Usual`), what `percent` takes for 100 (`StringWhen`: from 99.995 to below 100.995 percent), and days, hours, minutes and seconds (`HumanTime`).
* `StatsProofs`: `StatsTypeCorrect`; `TablesAlwaysAddUp`, whose invariant `CountInv` says that the counts
  per category add up to the total, with and without the correct codes, that all the tools have as many
  results in a category, and that their total is the number of tests; `MetricsAlwaysAgree`; `TimesAreShown` (invariant `TimeInv`: the time
  of the page, without the timeouts, is never more than that of the tables); `BestIsAlwaysBest`, whose invariant `BestInv`
  says of the tools seen so far what `BestIsBest` says of all. Its hypothesis `MaxTests <= Unset` is that
  there are no more tests than the 999999 false positives from which the search starts (`src/MBI.py`
  line 775); with more, a best value could be one that no tool has. `WhenTheSearchFails` says when the search raises its
  `TypeError` (invariant `SearchInv`: no tool behind its position made it fail, the one at its position
  did): when a tool has an accuracy or F1 that `percent` takes for 100, or no right verdict. The
  conditions of `SearchEnds` are in whole numbers and do not mention `percent`. The sums over the
  categories are proved without an induction theorem: a least set of categories for which a claim
  about sums fails (`LeastSubset`) cannot exist.
* `MpiProofs`: `MpiTypeCorrect`, that a well-formed code (`WellFormedCodes`) keeps its types under every
  schedule, any buffering and any matching. The invariant has one part per kind of state: `PlaceInv` (a
  rank whose call is posted is at a communication, so that no other step can pass it), `ObjectInv` (a
  rank holds exactly what its program has created and not freed before its position, and `newcom` is
  an object exactly where the last instruction that changed it made it one), `PostedInv` (every
  operation tells a rank, and the position of an active request is one of a posted operation) and
  `EpochInv`. That nothing is freed twice is thereby a matter of the text of a program, and the
  interleavings that TLC explores do not matter for it. `HeadersHoldInAllRuns` carries `NothingHidden`,
  which the run `codes` checks for the text of every generated file, over to all their runs: a code that its generator
  labels ERROR has no error of its objects or requests but the announced one, under any schedule, matching
  and buffering, and has that one when its ranks get to their end; one labelled OK has none. The run
  itself does not buffer in ERROR codes. The theorem rests on two lemmas. `LeaksAreInTheText`: a leak is
  found exactly when a rank passes an `MPI_Finalize` before which its program creates more objects of a
  kind than it frees (from `ObjectInv`). `RequestsAreInTheText` does it for requests: its invariant
  `RequestInv` says that the state of request `n` of a rank is the one that the instructions before its
  position tell (`IsAsTold`), which `RequestNext` computes for one more instruction and `RequestSkip` for
  a jump. `MPI_Waitany` is left out because which request it completes is not in the text, one-sided
  calls because `LocalConcurrency` is then also about their accesses.

Only model-checked: liveness (`PipelineEnds`, `RunEnds`), which needs fairness; the labels of the codes
(`OkIsClean`, `ErrorIsThere`, `AnnouncedOnly`, `NeverIsNever`, `MislabelledIsWrong`), which say that a run
is over by `ENABLED` and which are about these very codes, all of which are in the instance;
`WrittenOnce` and `NothingHidden`, which are about the list of files and its texts. The generators make sequences of instructions by
concatenation; that the files they make are well-formed is checked for each file and not proved.
Five properties are violated by the code. Of two of them it is proved when exactly they fail:
`BatchesCoverFiles` in `LastFilesAreLeftOut`, `IdealTool` in `WhenTheSearchFails`. The other three
depend on a schedule of the processes (`ReportOwn`), on what is edited when (`CacheSound` without
`FreshOnly`) or on the codes themselves (`ErrorIsThere` of the `RMAP2P` codes).

## 5. Not modelled

The text and the layout of pages, tables and messages; the substitution of text and the line numbers
of `make_file`; the command lines of the tools and that of `MBI.py`; mean and standard deviation of
the times. Of MPI: buffered generated ERROR codes, truncation, cancellation, the order of locks (the
locks of the codes never exclude one another), and what a tool would see of it.

Six hand-written codes. `p2p-pers-deadlock2` uses a request that it freed, which has no defined
meaning. `medium-BTbroadcast` is a busy loop around `MPI_Get` that waits for what another rank's
`MPI_Get` brings. The one-sided accesses of `medium-lockopts` and `no-error-p2P-rma` are ordered by
barriers and messages, while the window of `Mpi` orders accesses by fences and locks only.
`medium-p2p-mismatch` makes 512 rounds of 16 requests, and the interleavings of the four ranks of
`medium-heat` are out of TLC's reach. The codes in `codes/MayBeRemoved/` are not part of the benchmark,
nor are the deprecated and ongoing generators and `CollP2PMatchingGenerator2.py`, which nothing runs.

The third-party tools in `tools/` (Valgrind, MUST, ISP, SimGrid, ...). They are the bulk of the
repository: of its 891,609 lines of C all but the 10,384 of `codes/` (4,000 of them in `MayBeRemoved/`) belong to them.
MBI's own logic is in Python and in the codes; the model covers those, and its share of all the C in
the repository is therefore, and will stay, below one percent.

## 6. Plan

Done: the generators and the hand-written codes on a small MPI, the execution chain with its abstract
store, the statistics, and a theorem for every safety property that is checked and does not depend on
the list of codes. What is left, in this order:

1. Readers of the cache that meet files of a test that was cut short (an empty `.elapsed`).
2. One-sided accesses ordered by barriers in `Mpi`, for the two codes that rely on it.

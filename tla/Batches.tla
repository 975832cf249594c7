------------------------------ MODULE Batches ------------------------------
(***************************************************************************)
(* How the benchmark is shared between several runners (option -b of       *)
(* MBI.py) and put together again by the gather job of the continuous      *)
(* integration.                                                            *)
(*                                                                         *)
(* Job j \in Runners runs `MBI.py -c run -b j/M`: extract_all_todo() lists *)
(* the files of gencodes/, keeps the slice of ranks of its batch, and      *)
(* cmd_run() goes through that slice.  Job Gather starts from the logs of  *)
(* all the runners and runs `-b 1/1`: run_cmd() finds the result of a file *)
(* that a runner already handled in its cache and launches the others.     *)
(***************************************************************************)
EXTENDS Naturals, FiniteSets

CONSTANTS
  N,           \* number of files in gencodes/
  M,           \* number of runners: the M of -b N/M
  SameListing  \* TRUE: glob.glob() lists the files in one order on all jobs

ASSUME BatchesAssumption ==
  /\ N \in Nat
  /\ M \in Nat \ {0}
  /\ SameListing \in BOOLEAN

Files   == 1 .. N
Ranks   == 0 .. N - 1
Runners == 1 .. M
Gather  == 0
Jobs    == Runners \cup {Gather}

VARIABLES
  stage,    \* stage[j]: "waiting", "running" or "done"
  listing,  \* listing[j]: the order in which job j's glob.glob() gave the files
  at,       \* at[j]: rank of the next file that job j handles
  logs,     \* logs[j]: the files with a result in the logs/ directory of job j
  launched  \* launched[j]: the files whose tests job j had to launch

vars == <<stage, listing, at, logs, launched>>

(***************************************************************************)
(* The slice filenames[min_rank:max_rank] of extract_all_todo().  Python   *)
(* excludes the upper bound of a slice and clips it to the list.           *)
(***************************************************************************)
batch(count) == N \div count + 1

min_rank(pos, count) == batch(count) * (pos - 1)

\* Mutant: one added to the end of the slice instead of subtracted.
max_rank_over(pos, count) == (batch(count) * pos) + 1

max_rank(pos, count) == (batch(count) * pos) - 1

stop_rank(pos, count) ==
  IF max_rank(pos, count) < N THEN max_rank(pos, count) ELSE N

\* The N and the M of the -b option that job j is started with.
Pos(j)   == IF j = Gather THEN 1 ELSE j
\* Mutant: the gather job is started as one of the runners.
Count_runner(j) == M

Count(j) == IF j = Gather THEN 1 ELSE M

(***************************************************************************)
(* glob.glob() returns the directory entries in an order of its own: the   *)
(* sorted copy made in extract_all_todo() is assigned to a variable that   *)
(* the next loop overwrites.  With SameListing the runners are assumed to  *)
(* see the same order, as on one disk image.                               *)
(***************************************************************************)
\* Mutant: ranks in place of files.
Sorted_ranks == [r \in Ranks |-> r]

Sorted == [r \in Ranks |-> r + 1]

Listings ==
  { l \in [Ranks -> Files] :
      /\ \A r, s \in Ranks : l[r] = l[s] => r = s
      /\ \A f \in Files : \E r \in Ranks : l[r] = f }

glob == IF SameListing THEN {Sorted} ELSE Listings

-----------------------------------------------------------------------------
Init ==
  /\ stage    = [j \in Jobs |-> "waiting"]
  /\ listing  = [j \in Jobs |-> Sorted]
  /\ at       = [j \in Jobs |-> 0]
  /\ logs     = [j \in Jobs |-> {}]
  /\ launched = [j \in Jobs |-> {}]

RunnersDone == \A j \in Runners : stage[j] = "done"

\* extract_all_todo(): list the files and keep the batch of this job.  The
\* gather job needs the artifacts of all the runners.
extract_all_todo(j) ==
  /\ stage[j] = "waiting"
  /\ j = Gather => RunnersDone
  /\ \E l \in glob : listing' = [listing EXCEPT ![j] = l]
  /\ stage' = [stage EXCEPT ![j] = "running"]
  /\ at'    = [at EXCEPT ![j] = min_rank(Pos(j), Count(j))]
  /\ logs'  = [logs EXCEPT ![j] =
                 IF j = Gather THEN UNION { logs[i] : i \in Runners } ELSE {}]
  /\ UNCHANGED launched

\* Mutant: the cache is not looked at.
RunTest_uncached(j) ==
  /\ stage[j] = "running"
  /\ at[j] < stop_rank(Pos(j), Count(j))
  /\ launched' = [launched EXCEPT ![j] = @ \cup {listing[j][at[j]]}]
  /\ logs' = [logs EXCEPT ![j] = @ \cup {listing[j][at[j]]}]
  /\ at' = [at EXCEPT ![j] = @ + 1]
  /\ UNCHANGED <<stage, listing>>

\* One turn of the loop of cmd_run(): the test is launched unless its result
\* is in the cache.
RunTest(j) ==
  /\ stage[j] = "running"
  /\ at[j] < stop_rank(Pos(j), Count(j))
  /\ LET f == listing[j][at[j]] IN
       /\ launched' = [launched EXCEPT ![j] =
                         IF f \in logs[j] THEN @ ELSE @ \cup {f}]
       /\ logs' = [logs EXCEPT ![j] = @ \cup {f}]
  /\ at' = [at EXCEPT ![j] = @ + 1]
  /\ UNCHANGED <<stage, listing>>

\* Mutant: a batch that begins after the last file never ends.
Finish_exact(j) ==
  /\ stage[j] = "running"
  /\ at[j] = stop_rank(Pos(j), Count(j))
  /\ stage' = [stage EXCEPT ![j] = "done"]
  /\ UNCHANGED <<listing, at, logs, launched>>

Finish(j) ==
  /\ stage[j] = "running"
  /\ at[j] >= stop_rank(Pos(j), Count(j))
  /\ stage' = [stage EXCEPT ![j] = "done"]
  /\ UNCHANGED <<listing, at, logs, launched>>

JobStep(j) == extract_all_todo(j) \/ RunTest(j) \/ Finish(j)

Next == \E j \in Jobs : JobStep(j)

Spec == Init /\ [][Next]_vars

\* A job of the pipeline that may go on does go on.
FairSpec == Spec /\ \A j \in Jobs : WF_vars(JobStep(j))

-----------------------------------------------------------------------------
TypeOK ==
  /\ stage \in [Jobs -> {"waiting", "running", "done"}]
  /\ listing \in [Jobs -> Listings]
  /\ at \in [Jobs -> Nat]
  /\ logs \in [Jobs -> SUBSET Files]
  /\ launched \in [Jobs -> SUBSET Files]

(***************************************************************************)
(* No file is handled by two runners: the slices of extract_all_todo() do  *)
(* not overlap, so that no runner spends its time on another one's batch.  *)
(***************************************************************************)
DisjointBatches ==
  \A i, j \in Runners : i # j => logs[i] \cap logs[j] = {}

(***************************************************************************)
(* When the gather job is done every file of the benchmark has a result,   *)
(* whichever files the runners have left out and in whatever order the     *)
(* jobs list them.                                                         *)
(***************************************************************************)
GatherComplete ==
  stage[Gather] = "done" => logs[Gather] = Files

(***************************************************************************)
(* A runner leaves out at most one file of its batch, so the gather job    *)
(* launches at most M tests by itself.                                     *)
(***************************************************************************)
GatherLeftovers == Cardinality(launched[Gather]) <= M

(***************************************************************************)
(* The pipeline ends: every file gets its result.                          *)
(***************************************************************************)
PipelineEnds == <>(stage[Gather] = "done")

(***************************************************************************)
(* What the help of -b says: the M runners together handle the benchmark.  *)
(* The code leaves out the last file of each full batch.                   *)
(***************************************************************************)
BatchesCoverFiles ==
  RunnersDone => UNION { logs[j] : j \in Runners } = Files

\* The files that end a batch.
LastFiles == {batch(M) * j : j \in Runners}

(***************************************************************************)
(* What exactly is left out: when the runners are done, the files that     *)
(* none of them has handled are the ones that end a batch, because         *)
(* max_rank is excluded from the slice and one less than it should be.  So *)
(* the claim BatchesCoverFiles, that the runners handle the benchmark      *)
(* together, is false at the end of every execution in which there is a    *)
(* file and more than one runner, and true in the others.                  *)
(***************************************************************************)
LastFilesLeftOut ==
  RunnersDone =>
    /\ Files \ UNION { logs[j] : j \in Runners } = LastFiles \cap Files
    /\ BatchesCoverFiles <=> N = 0 \/ M = 1
=============================================================================

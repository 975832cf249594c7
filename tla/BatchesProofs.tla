--------------------------- MODULE BatchesProofs ---------------------------
(***************************************************************************)
(* Proofs, for every number N of files and every number M of runners:      *)
(*   - TypeCorrect: Batches keeps its type;                                *)
(*   - BatchesAreDisjoint: two runners that list the files in the same     *)
(*     order never handle the same file;                                   *)
(*   - GatherIsComplete: the gather job ends with a result for every file, *)
(*     in whatever orders the jobs list the files;                         *)
(*   - LeftoversAreFew: it launches at most M tests for that when the      *)
(*     files are listed in the same order;                                 *)
(*   - LastFilesAreLeftOut: which files these are, so that the runners     *)
(*     never cover the benchmark by themselves when there are several.     *)
(***************************************************************************)
EXTENDS Batches, FiniteSetTheorems, TLAPS

(***************************************************************************)
(* The arithmetic of extract_all_todo().                                   *)
(***************************************************************************)

\* The ranks of a slice are natural numbers.
LEMMA RankTypes ==
  ASSUME NEW pos \in Nat \ {0}, NEW count \in Nat \ {0}
  PROVE  /\ batch(count) \in Nat \ {0}
         /\ min_rank(pos, count) \in Nat
         /\ max_rank(pos, count) \in Nat
         /\ stop_rank(pos, count) \in Nat
         /\ stop_rank(pos, count) <= N
         /\ stop_rank(pos, count) <= max_rank(pos, count)
<1>1. batch(count) \in Nat \ {0}
  BY BatchesAssumption DEF batch
<1>2. \A b \in Nat \ {0} : b * (pos - 1) \in Nat /\ (b * pos) - 1 \in Nat
  OBVIOUS
<1> QED
  BY <1>1, <1>2, BatchesAssumption DEF min_rank, max_rank, stop_rank

\* A product of natural numbers grows with its second factor.
LEMMA TimesMonotone ==
  ASSUME NEW b \in Nat, NEW i \in Nat, NEW k \in Nat, i <= k
  PROVE  b * i <= b * k
OBVIOUS

\* The slice of a runner ends before the slice of a later one begins.
LEMMA SlicesInOrder ==
  ASSUME NEW i \in Runners, NEW j \in Runners, i < j
  PROVE  max_rank(i, M) < min_rank(j, M)
<1>1. batch(M) \in Nat \ {0}
  BY RankTypes, BatchesAssumption DEF Runners
<1>2. i \in Nat /\ j - 1 \in Nat /\ i <= j - 1
  BY BatchesAssumption DEF Runners
<1>3. batch(M) * i <= batch(M) * (j - 1)
  BY <1>1, <1>2, TimesMonotone
<1>4. \A b \in Nat : b * i \in Nat /\ b * (j - 1) \in Nat
  BY <1>2
<1> QED
  BY <1>1, <1>3, <1>4 DEF min_rank, max_rank

\* The batch 1/1 of the gather job holds every rank.
LEMMA GatherSlice == min_rank(1, 1) = 0 /\ stop_rank(1, 1) = N
  BY BatchesAssumption DEF min_rank, max_rank, stop_rank, batch

\* The listings are permutations of the files, the sorted one among them.
LEMMA SortedIsListing == Sorted \in Listings
<1>1. Sorted \in [Ranks -> Files]
  BY BatchesAssumption DEF Sorted, Ranks, Files
<1>2. ASSUME NEW f \in Files PROVE \E r \in Ranks : Sorted[r] = f
  <2>1. f - 1 \in Ranks /\ Sorted[f - 1] = f
    BY BatchesAssumption DEF Sorted, Ranks, Files
  <2> QED BY <2>1
<1>3. \A r, s \in Ranks : Sorted[r] = Sorted[s] => r = s
  BY BatchesAssumption DEF Sorted, Ranks
<1> QED BY <1>1, <1>2, <1>3 DEF Listings

\* The N/M of a job are legal arguments of the -b option.
LEMMA JobArguments ==
  ASSUME NEW j \in Jobs
  PROVE  Pos(j) \in Nat \ {0} /\ Count(j) \in Nat \ {0}
  BY BatchesAssumption DEF Jobs, Runners, Gather, Pos, Count

-----------------------------------------------------------------------------
(***************************************************************************)
(* Batches keeps its type: in particular the rank a runner looks up is     *)
(* always one of its listing.                                              *)
(***************************************************************************)
THEOREM TypeCorrect == Spec => []TypeOK
<1>1. Init => TypeOK
  BY SortedIsListing DEF Init, TypeOK
<1>2. TypeOK /\ [Next]_vars => TypeOK'
  <2> SUFFICES ASSUME TypeOK, [Next]_vars PROVE TypeOK'
    OBVIOUS
  <2> USE DEF TypeOK
  <2>1. ASSUME NEW j \in Jobs, extract_all_todo(j) PROVE TypeOK'
    <3>1. PICK l \in glob : listing' = [listing EXCEPT ![j] = l]
      BY <2>1 DEF extract_all_todo
    <3>2. l \in Listings
      BY <3>1, SortedIsListing DEF glob
    <3>3. min_rank(Pos(j), Count(j)) \in Nat
      BY JobArguments, RankTypes
    <3>4. UNION { logs[i] : i \in Runners } \in SUBSET Files
      BY DEF Jobs
    <3> QED BY <2>1, <3>1, <3>2, <3>3, <3>4 DEF extract_all_todo
  <2>2. ASSUME NEW j \in Jobs, RunTest(j) PROVE TypeOK'
    <3>1. stop_rank(Pos(j), Count(j)) \in Nat /\ stop_rank(Pos(j), Count(j)) <= N
      BY JobArguments, RankTypes
    <3>2. at[j] \in Ranks
      BY <2>2, <3>1, BatchesAssumption DEF RunTest, Ranks
    <3>3. listing[j][at[j]] \in Files
      BY <3>2 DEF Listings
    <3> QED BY <2>2, <3>3 DEF RunTest
  <2>3. ASSUME NEW j \in Jobs, Finish(j) PROVE TypeOK'
    BY <2>3 DEF Finish
  <2>4. CASE UNCHANGED vars
    BY <2>4 DEF vars
  <2> QED BY <2>1, <2>2, <2>3, <2>4 DEF Next, JobStep
<1> QED BY <1>1, <1>2, PTL DEF Spec

-----------------------------------------------------------------------------
(***************************************************************************)
(* What keeps the batches apart: a runner only has results for files whose *)
(* rank lies in its slice.                                                 *)
(***************************************************************************)
SliceInv ==
  \A j \in Runners :
    /\ listing[j] = Sorted
    /\ stage[j] = "running" => min_rank(j, M) <= at[j]
    /\ \A f \in logs[j] : min_rank(j, M) <= f - 1 /\ f - 1 < max_rank(j, M)

LEMMA SliceStep ==
  ASSUME SameListing, TypeOK, SliceInv, [Next]_vars
  PROVE  SliceInv'
<1> USE DEF SliceInv
<1>0. \A j \in Runners : j \in Jobs /\ j # Gather /\ Pos(j) = j /\ Count(j) = M
  BY BatchesAssumption DEF Runners, Jobs, Gather, Pos, Count
<1>1. ASSUME NEW j \in Jobs, extract_all_todo(j) PROVE SliceInv'
  <2> SUFFICES ASSUME NEW k \in Runners
               PROVE  /\ listing'[k] = Sorted
                      /\ stage'[k] = "running" => min_rank(k, M) <= at'[k]
                      /\ \A f \in logs'[k] : min_rank(k, M) <= f - 1 /\ f - 1 < max_rank(k, M)
    BY DEF SliceInv
  <2>1. CASE k # j
    BY <1>0, <1>1, <2>1 DEF extract_all_todo, TypeOK
  <2>2. CASE k = j
    <3>1. min_rank(k, M) \in Nat
      BY <1>0, RankTypes, JobArguments
    <3>2. listing'[k] = Sorted
      BY <1>0, <1>1, <2>2, SameListing DEF extract_all_todo, TypeOK, glob
    <3>3. at'[k] = min_rank(k, M) /\ logs'[k] = {}
      BY <1>0, <1>1, <2>2 DEF extract_all_todo, TypeOK
    <3> QED BY <3>1, <3>2, <3>3
  <2> QED BY <2>1, <2>2
<1>2. ASSUME NEW j \in Jobs, RunTest(j) PROVE SliceInv'
  <2> SUFFICES ASSUME NEW k \in Runners
               PROVE  /\ listing'[k] = Sorted
                      /\ stage'[k] = "running" => min_rank(k, M) <= at'[k]
                      /\ \A f \in logs'[k] : min_rank(k, M) <= f - 1 /\ f - 1 < max_rank(k, M)
    BY DEF SliceInv
  <2>1. CASE k # j
    BY <1>0, <1>2, <2>1 DEF RunTest, TypeOK
  <2>2. CASE k = j
    <3>1. /\ min_rank(k, M) \in Nat
          /\ max_rank(k, M) \in Nat
          /\ stop_rank(k, M) \in Nat
          /\ stop_rank(k, M) <= N
          /\ stop_rank(k, M) <= max_rank(k, M)
      BY <1>0, RankTypes, JobArguments
    <3>2. at[k] \in Nat /\ at[k] < stop_rank(k, M) /\ min_rank(k, M) <= at[k]
      BY <1>0, <1>2, <2>2 DEF RunTest, TypeOK
    <3>a. listing[k] = Sorted
      BY DEF SliceInv
    <3>b. at[k] \in Ranks
      BY <3>1, <3>2, BatchesAssumption DEF Ranks
    <3>c. Sorted[at[k]] = at[k] + 1
      BY <3>b DEF Sorted
    <3>3. listing[k][at[k]] - 1 = at[k]
      BY <3>2, <3>a, <3>c
    <3>4. /\ logs'[k] = logs[k] \cup {listing[k][at[k]]}
          /\ at'[k] = at[k] + 1
          /\ listing'[k] = listing[k]
      BY <1>0, <1>2, <2>2 DEF RunTest, TypeOK
    <3> QED BY <3>1, <3>2, <3>3, <3>4
  <2> QED BY <2>1, <2>2
<1>3. ASSUME NEW j \in Jobs, Finish(j) PROVE SliceInv'
  BY <1>0, <1>3 DEF Finish, TypeOK
<1>4. CASE UNCHANGED vars
  BY <1>4 DEF vars
<1> QED BY <1>1, <1>2, <1>3, <1>4 DEF Next, JobStep

(***************************************************************************)
(* Two runners that list the files in the same order never handle the same *)
(* file, whatever the number of files and of runners.                      *)
(***************************************************************************)
THEOREM BatchesAreDisjoint == SameListing /\ Spec => []DisjointBatches
<1> SUFFICES ASSUME SameListing PROVE Spec => []DisjointBatches
  OBVIOUS
<1>1. Init => SliceInv
  <2>1. \A j \in Runners : j \in Jobs
    BY DEF Jobs
  <2> QED BY <2>1 DEF Init, SliceInv
<1>2. TypeOK /\ SliceInv /\ [Next]_vars => SliceInv'
  BY SliceStep
<1>3. TypeOK /\ SliceInv => DisjointBatches
  <2> SUFFICES ASSUME TypeOK, SliceInv,
                      NEW i \in Runners, NEW j \in Runners, i # j,
                      NEW f \in logs[i], f \in logs[j]
               PROVE  FALSE
    BY DEF DisjointBatches
  <2>1. i \in Nat /\ j \in Nat /\ i \in Nat \ {0} /\ j \in Nat \ {0}
    BY BatchesAssumption DEF Runners
  <2>2. /\ min_rank(i, M) \in Nat /\ max_rank(i, M) \in Nat
        /\ min_rank(j, M) \in Nat /\ max_rank(j, M) \in Nat
    BY <2>1, RankTypes, BatchesAssumption
  <2>3. f \in Nat
    BY BatchesAssumption DEF TypeOK, Files, Jobs
  <2>4. /\ min_rank(i, M) <= f - 1 /\ f - 1 < max_rank(i, M)
        /\ min_rank(j, M) <= f - 1 /\ f - 1 < max_rank(j, M)
    BY DEF SliceInv
  <2>5. CASE i < j
    BY <2>2, <2>3, <2>4, <2>5, SlicesInOrder
  <2>6. CASE j < i
    BY <2>2, <2>3, <2>4, <2>6, SlicesInOrder
  <2> QED BY <2>1, <2>5, <2>6
<1> QED BY <1>1, <1>2, <1>3, TypeCorrect, PTL DEF Spec

-----------------------------------------------------------------------------
(***************************************************************************)
(* The gather job goes through its listing from the first rank to the last *)
(* one.                                                                    *)
(***************************************************************************)
GatherInv ==
  /\ stage[Gather] # "waiting" =>
       \A r \in Ranks : r < at[Gather] => listing[Gather][r] \in logs[Gather]
  /\ stage[Gather] = "done" => N <= at[Gather]

LEMMA GatherStep ==
  ASSUME TypeOK, GatherInv, [Next]_vars
  PROVE  GatherInv'
<1> USE DEF GatherInv
<1>0. /\ Gather \in Jobs /\ Pos(Gather) = 1 /\ Count(Gather) = 1
      /\ \A r \in Ranks : r \in Nat
  BY BatchesAssumption DEF Jobs, Pos, Count, Ranks
<1>1. ASSUME NEW j \in Jobs, extract_all_todo(j) PROVE GatherInv'
  <2>1. CASE j # Gather
    BY <1>0, <1>1, <2>1 DEF extract_all_todo, TypeOK
  <2>2. CASE j = Gather
    <3>1. at'[Gather] = 0 /\ stage'[Gather] = "running"
      BY <1>0, <1>1, <2>2, GatherSlice DEF extract_all_todo, TypeOK
    <3> QED BY <1>0, <3>1
  <2> QED BY <2>1, <2>2
<1>2. ASSUME NEW j \in Jobs, RunTest(j) PROVE GatherInv'
  <2>1. CASE j # Gather
    BY <1>0, <1>2, <2>1 DEF RunTest, TypeOK
  <2>2. CASE j = Gather
    <3>1. /\ at'[Gather] = at[Gather] + 1 /\ at[Gather] \in Nat
          /\ stage[Gather] = "running" /\ stage' = stage
          /\ listing' = listing
          /\ logs'[Gather] = logs[Gather] \cup {listing[Gather][at[Gather]]}
      BY <1>0, <1>2, <2>2 DEF RunTest, TypeOK
    <3>2. ASSUME NEW r \in Ranks, r < at'[Gather]
          PROVE  listing'[Gather][r] \in logs'[Gather]
      <4>1. r < at[Gather] \/ r = at[Gather]
        BY <1>0, <3>1, <3>2
      <4> QED BY <3>1, <4>1
    <3> QED BY <3>1, <3>2
  <2> QED BY <2>1, <2>2
<1>3. ASSUME NEW j \in Jobs, Finish(j) PROVE GatherInv'
  <2>1. CASE j # Gather
    BY <1>0, <1>3, <2>1 DEF Finish, TypeOK
  <2>2. CASE j = Gather
    BY <1>0, <1>3, <2>2, GatherSlice, BatchesAssumption DEF Finish, TypeOK
  <2> QED BY <2>1, <2>2
<1>4. CASE UNCHANGED vars
  BY <1>4 DEF vars
<1> QED BY <1>1, <1>2, <1>3, <1>4 DEF Next, JobStep

(***************************************************************************)
(* When the gather job is done every file has a result, although the       *)
(* runners leave files out and whatever the listings are.                  *)
(***************************************************************************)
THEOREM GatherIsComplete == Spec => []GatherComplete
<1>1. Init => GatherInv
  BY DEF Init, GatherInv, Jobs
<1>2. TypeOK /\ GatherInv /\ [Next]_vars => GatherInv'
  BY GatherStep
<1>3. TypeOK /\ GatherInv => GatherComplete
  <2> SUFFICES ASSUME TypeOK, GatherInv, stage[Gather] = "done"
               PROVE  logs[Gather] = Files
    BY DEF GatherComplete
  <2>1. Gather \in Jobs
    BY DEF Jobs
  <2>2. at[Gather] \in Nat /\ N <= at[Gather]
    BY <2>1 DEF TypeOK, GatherInv
  <2>3. ASSUME NEW f \in Files PROVE f \in logs[Gather]
    <3>1. PICK r \in Ranks : listing[Gather][r] = f
      BY <2>1 DEF TypeOK, Listings
    <3>2. r < at[Gather]
      BY <2>2, BatchesAssumption DEF Ranks
    <3> QED BY <3>1, <3>2 DEF GatherInv
  <2> QED BY <2>1, <2>3 DEF TypeOK
<1> QED BY <1>1, <1>2, <1>3, TypeCorrect, PTL DEF Spec

-----------------------------------------------------------------------------
(***************************************************************************)
(* What the runners leave out.                                             *)
(***************************************************************************)

\* Euclidean division, as inequalities.
LEMMA Division ==
  ASSUME NEW a \in Nat, NEW b \in Nat \ {0}
  PROVE  /\ a \div b \in Nat
         /\ b * (a \div b) <= a
         /\ a < b * (a \div b + 1)
OBVIOUS

\* The batches of the M runners reach past the last file.
LEMMA BatchesReachEnd == N < batch(M) * M
<1>1. N < M * (N \div M + 1)
  BY Division, BatchesAssumption
<1>2. N \div M \in Nat
  BY Division, BatchesAssumption
<1> QED BY <1>1, <1>2, BatchesAssumption DEF batch

\* Every rank lies in the batch of a runner, as its last one or before.
LEMMA RankInBatch ==
  ASSUME NEW r \in Ranks
  PROVE  \E j \in Runners : /\ min_rank(j, M) <= r
                            /\ r < stop_rank(j, M) \/ r + 1 = batch(M) * j
<1> DEFINE b == batch(M)
           q == r \div b
<1>1. b \in Nat \ {0} /\ r \in Nat /\ r < N /\ N \in Nat /\ M \in Nat \ {0}
  BY BatchesAssumption, RankTypes DEF Ranks
<1> HIDE DEF b
<1>2. q \in Nat /\ b * q <= r /\ r < b * (q + 1)
  BY <1>1, Division
<1> HIDE DEF q
<1>3. q < M
  <2> SUFFICES ASSUME M <= q PROVE FALSE
    BY <1>1, <1>2
  <2>1. b * M <= b * q
    BY <1>1, <1>2, TimesMonotone
  <2>2. N < b * M
    BY BatchesReachEnd DEF b
  <2>3. b * M \in Nat /\ b * q \in Nat
    BY <1>1, <1>2
  <2> QED BY <1>1, <1>2, <2>1, <2>2, <2>3
<1>4. q + 1 \in Runners
  BY <1>1, <1>2, <1>3 DEF Runners
<1>5. min_rank(q + 1, M) = b * q /\ max_rank(q + 1, M) = b * (q + 1) - 1
  BY <1>2 DEF min_rank, max_rank, b
<1>6. b * (q + 1) \in Nat
  BY <1>1, <1>2
<1>7. r < stop_rank(q + 1, M) \/ r + 1 = b * (q + 1)
  BY <1>1, <1>2, <1>5, <1>6 DEF stop_rank
<1> QED BY <1>2, <1>4, <1>5, <1>7 DEF b

(***************************************************************************)
(* The runners handle their slices from the first rank on.  The gather job *)
(* waits for them, starts from their results and launches what is in none. *)
(***************************************************************************)
LeftoverInv ==
  /\ \A j \in Runners :
       /\ stage[j] # "waiting" =>
            \A r \in Ranks : min_rank(j, M) <= r /\ r < at[j] => r + 1 \in logs[j]
       /\ stage[j] = "done" => stop_rank(j, M) <= at[j]
  /\ stage[Gather] = "waiting" => launched[Gather] = {}
  /\ stage[Gather] # "waiting" =>
       \A j \in Runners : stage[j] = "done" /\ logs[j] \subseteq logs[Gather]
  /\ \A j \in Runners : logs[j] \cap launched[Gather] = {}

LEMMA LeftoverStep ==
  ASSUME TypeOK, SliceInv, LeftoverInv, [Next]_vars
  PROVE  LeftoverInv'
<1>0. /\ \A j \in Runners : j \in Jobs /\ j # Gather /\ Pos(j) = j /\ Count(j) = M
      /\ Gather \in Jobs
      /\ \A r \in Ranks : r \in Nat
  BY BatchesAssumption DEF Runners, Jobs, Gather, Pos, Count, Ranks
<1>r. \A j \in Runners : min_rank(j, M) \in Nat /\ stop_rank(j, M) \in Nat
  BY <1>0, RankTypes, JobArguments
<1>1. ASSUME NEW j \in Runners, extract_all_todo(j) PROVE LeftoverInv'
  <2>1. /\ stage[j] = "waiting" /\ stage' = [stage EXCEPT ![j] = "running"]
        /\ at' = [at EXCEPT ![j] = min_rank(j, M)]
        /\ logs' = [logs EXCEPT ![j] = {}]
        /\ launched' = launched
    BY <1>0, <1>1 DEF extract_all_todo
  <2>2. stage[Gather] = "waiting"
    BY <2>1 DEF LeftoverInv
  <2> QED BY <1>0, <1>r, <2>1, <2>2 DEF LeftoverInv, TypeOK
<1>2. ASSUME extract_all_todo(Gather) PROVE LeftoverInv'
  <2>1. /\ stage[Gather] = "waiting" /\ stage' = [stage EXCEPT ![Gather] = "running"]
        /\ \A j \in Runners : stage[j] = "done"
        /\ at' = [at EXCEPT ![Gather] = min_rank(1, 1)]
        /\ logs' = [logs EXCEPT ![Gather] = UNION { logs[i] : i \in Runners }]
        /\ launched' = launched
    BY <1>2 DEF extract_all_todo, RunnersDone, Pos, Count
  <2> QED BY <1>0, <2>1 DEF LeftoverInv, TypeOK
<1>3. ASSUME NEW j \in Runners, RunTest(j) PROVE LeftoverInv'
  <2>1. stage[j] = "running" /\ stage' = stage /\ stage[Gather] = "waiting"
    BY <1>3 DEF RunTest, LeftoverInv
  <2>2. /\ at[j] \in Ranks /\ listing[j][at[j]] = at[j] + 1
    <3>1. at[j] \in Nat /\ at[j] < stop_rank(j, M) /\ stop_rank(j, M) <= N
      BY <1>0, <1>3, RankTypes, JobArguments DEF RunTest, TypeOK
    <3>2. at[j] \in Ranks
      BY <1>r, <3>1, BatchesAssumption DEF Ranks
    <3> QED BY <3>2 DEF SliceInv, Sorted
  <2>3. /\ at' = [at EXCEPT ![j] = at[j] + 1]
        /\ logs' = [logs EXCEPT ![j] = logs[j] \cup {at[j] + 1}]
        /\ launched'[Gather] = launched[Gather]
    BY <1>0, <1>3, <2>2 DEF RunTest, TypeOK
  <2>4. launched[Gather] = {}
    BY <2>1 DEF LeftoverInv
  <2>5. ASSUME NEW k \in Runners, stage'[k] # "waiting",
               NEW r \in Ranks, min_rank(k, M) <= r, r < at'[k]
        PROVE  r + 1 \in logs'[k]
    <3>1. CASE k # j
      BY <1>0, <2>1, <2>3, <2>5, <3>1 DEF LeftoverInv, TypeOK
    <3>2. CASE k = j
      <4>1. at'[k] = at[j] + 1 /\ logs'[k] = logs[j] \cup {at[j] + 1} /\ at[j] \in Nat
        BY <1>0, <2>3, <3>2 DEF TypeOK
      <4>2. r < at[j] \/ r = at[j]
        BY <1>0, <2>5, <4>1
      <4> QED BY <2>1, <2>5, <3>2, <4>1, <4>2 DEF LeftoverInv
    <3> QED BY <3>1, <3>2
  <2>6. ASSUME NEW k \in Runners, stage'[k] = "done" PROVE stop_rank(k, M) <= at'[k]
    BY <1>0, <2>1, <2>3, <2>6 DEF LeftoverInv, TypeOK
  <2> QED BY <2>1, <2>3, <2>4, <2>5, <2>6 DEF LeftoverInv
<1>4. ASSUME RunTest(Gather) PROVE LeftoverInv'
  <2> DEFINE f == listing[Gather][at[Gather]]
  <2>1. /\ stage[Gather] = "running" /\ stage' = stage
        /\ \A j \in Runners : logs'[j] = logs[j] /\ at'[j] = at[j]
        /\ logs'[Gather] = logs[Gather] \cup {f}
        /\ launched'[Gather] = IF f \in logs[Gather] THEN launched[Gather]
                                                      ELSE launched[Gather] \cup {f}
    BY <1>0, <1>4 DEF RunTest, TypeOK
  <2>2. \A j \in Runners : logs[j] \subseteq logs[Gather]
    BY <2>1 DEF LeftoverInv
  <2>3. \A j \in Runners : logs[j] \cap launched'[Gather] = {}
    BY <2>1, <2>2 DEF LeftoverInv
  <2> HIDE DEF f
  <2> QED BY <2>1, <2>2, <2>3 DEF LeftoverInv
<1>5. ASSUME NEW j \in Jobs, Finish(j) PROVE LeftoverInv'
  <2>1. /\ stage[j] = "running" /\ stage' = [stage EXCEPT ![j] = "done"]
        /\ at' = at /\ logs' = logs /\ launched' = launched
        /\ j \in Runners => stop_rank(j, M) <= at[j]
    BY <1>0, <1>5, <1>r DEF Finish, TypeOK
  <2> QED BY <1>0, <2>1 DEF LeftoverInv, TypeOK
<1>6. CASE UNCHANGED vars
  BY <1>6 DEF vars, LeftoverInv
<1> QED BY <1>1, <1>2, <1>3, <1>4, <1>5, <1>6 DEF Next, JobStep, Jobs

LEMMA LastFilesCount == IsFiniteSet(LastFiles) /\ Cardinality(LastFiles) <= M
<1> DEFINE last == [j \in Runners |-> batch(M) * j]
<1>1. last \in Surjection(Runners, LastFiles)
  BY DEF Surjection, LastFiles
<1>2. IsFiniteSet(Runners) /\ Cardinality(Runners) = M
  BY FS_Interval, BatchesAssumption DEF Runners
<1> HIDE DEF last
<1> QED BY <1>1, <1>2, FS_Surjection

LEMMA LeftoversAlways == SameListing /\ Spec => [](SliceInv /\ LeftoverInv)
<1> SUFFICES ASSUME SameListing PROVE Spec => [](SliceInv /\ LeftoverInv)
  OBVIOUS
<1>1. Init => SliceInv /\ LeftoverInv
  <2>1. \A j \in Runners : j \in Jobs
    BY DEF Jobs
  <2>2. Gather \in Jobs
    BY DEF Jobs
  <2> QED BY <2>1, <2>2 DEF Init, SliceInv, LeftoverInv
<1>2. TypeOK /\ SliceInv /\ LeftoverInv /\ [Next]_vars => (SliceInv /\ LeftoverInv)'
  BY SliceStep, LeftoverStep
<1> QED BY <1>1, <1>2, TypeCorrect, PTL DEF Spec

\* What the runners have not handled when they are done ends a batch.
LEMMA LeftOutIsLast ==
  ASSUME TypeOK, LeftoverInv, RunnersDone, NEW f \in Files,
         \A j \in Runners : f \notin logs[j]
  PROVE  f \in LastFiles
<1>1. f \in Nat /\ f - 1 \in Ranks
  BY BatchesAssumption DEF Files, Ranks
<1>2. PICK j \in Runners : /\ min_rank(j, M) <= f - 1
                           /\ f - 1 < stop_rank(j, M) \/ (f - 1) + 1 = batch(M) * j
  BY <1>1, RankInBatch
<1>3. stage[j] = "done" /\ stop_rank(j, M) <= at[j]
  BY DEF RunnersDone, LeftoverInv
<1>4. ~ (f - 1 < stop_rank(j, M))
  <2> SUFFICES ASSUME f - 1 < stop_rank(j, M) PROVE FALSE
    OBVIOUS
  <2>1. stop_rank(j, M) \in Nat /\ at[j] \in Nat
    <3>1. j \in Nat \ {0} /\ M \in Nat \ {0}
      BY BatchesAssumption DEF Runners
    <3>2. at[j] \in Nat
      BY DEF TypeOK, Jobs
    <3> QED BY <3>1, <3>2, RankTypes
  <2>2. f - 1 < at[j]
    BY <1>1, <1>3, <2>1
  <2>3. (f - 1) + 1 \in logs[j]
    BY <1>1, <1>2, <1>3, <2>2 DEF LeftoverInv
  <2> QED BY <1>1, <2>3
<1> QED BY <1>1, <1>2, <1>4 DEF LastFiles

(***************************************************************************)
(* The runners leave out at most the last file of their batches, so that   *)
(* the gather job launches at most M tests by itself.  As in the runs, the *)
(* jobs list the files in the same order.                                  *)
(***************************************************************************)
THEOREM LeftoversAreFew == SameListing /\ Spec => []GatherLeftovers
<1> SUFFICES ASSUME SameListing PROVE Spec => []GatherLeftovers
  OBVIOUS
<1>1. TypeOK /\ LeftoverInv => GatherLeftovers
  <2> SUFFICES ASSUME TypeOK, LeftoverInv PROVE Cardinality(launched[Gather]) <= M
    BY DEF GatherLeftovers
  <2>1. ASSUME NEW f \in launched[Gather] PROVE f \in LastFiles
    <3>1. f \in Files /\ RunnersDone /\ \A j \in Runners : f \notin logs[j]
      BY DEF TypeOK, Jobs, LeftoverInv, RunnersDone
    <3> QED BY <3>1, LeftOutIsLast
  <2>2. /\ IsFiniteSet(launched[Gather])
        /\ Cardinality(launched[Gather]) <= Cardinality(LastFiles)
    BY <2>1, LastFilesCount, FS_Subset
  <2>3. Cardinality(launched[Gather]) \in Nat /\ Cardinality(LastFiles) \in Nat
    BY <2>2, LastFilesCount, FS_CardinalityType
  <2> QED BY <2>2, <2>3, LastFilesCount, BatchesAssumption
<1> QED BY <1>1, LeftoversAlways, TypeCorrect, PTL

\* No runner handles the last file of a batch: the slice of its own runner
\* ends before, the other slices are elsewhere.
LEMMA LastIsLeftOut ==
  ASSUME TypeOK, SliceInv, NEW f \in LastFiles, NEW i \in Runners
  PROVE  f \notin logs[i]
<1> SUFFICES ASSUME f \in logs[i] PROVE FALSE
  OBVIOUS
<1>1. PICK j \in Runners : f = batch(M) * j
  BY DEF LastFiles
<1>2. i \in Nat \ {0} /\ j \in Nat \ {0} /\ M \in Nat \ {0}
  BY BatchesAssumption DEF Runners
<1>3. /\ min_rank(i, M) \in Nat /\ max_rank(i, M) \in Nat
      /\ min_rank(j, M) \in Nat /\ max_rank(j, M) \in Nat
  BY <1>2, RankTypes
<1>4. f - 1 = max_rank(j, M) /\ f \in Nat
  BY <1>1, BatchesAssumption DEF max_rank, TypeOK, Jobs, Files
<1>5. min_rank(i, M) <= f - 1 /\ f - 1 < max_rank(i, M)
  BY DEF SliceInv
<1>6. CASE i < j
  <2>1. max_rank(i, M) <= max_rank(j, M)
    <3>1. batch(M) \in Nat \ {0}
      BY <1>2, RankTypes
    <3>2. batch(M) * i <= batch(M) * j
      BY <1>2, <1>6, <3>1, TimesMonotone
    <3>3. max_rank(i, M) <= max_rank(j, M)
      <4> DEFINE x == batch(M) * i
                 y == batch(M) * j
      <4>1. x \in Nat /\ y \in Nat /\ x <= y
        BY <1>2, <3>1, <3>2
      <4>2. max_rank(i, M) = x - 1 /\ max_rank(j, M) = y - 1
        BY DEF max_rank
      <4> HIDE DEF x, y
      <4> QED BY <4>1, <4>2
    <3> QED BY <3>3
  <2> QED BY <1>3, <1>4, <1>5, <2>1
<1>7. CASE j < i
  BY <1>2, <1>3, <1>4, <1>5, <1>7, SlicesInOrder
<1> QED BY <1>2, <1>3, <1>4, <1>5, <1>6, <1>7

\* The first batch ends within the benchmark, unless there is one runner.
LEMMA FirstBatch == batch(M) <= N <=> ~ (N = 0 \/ M = 1)
<1> DEFINE q == N \div M
<1>1. N \in Nat /\ M \in Nat \ {0} /\ q \in Nat /\ M * q <= N /\ N < M * (q + 1)
  BY Division, BatchesAssumption
<1>2. batch(M) = q + 1
  BY DEF batch
<1> HIDE DEF q
<1>3. CASE N = 0
  BY <1>1, <1>2, <1>3
<1>4. CASE M = 1
  BY <1>1, <1>2, <1>4
<1>5. CASE N # 0 /\ M # 1
  <2> SUFFICES ASSUME N <= q PROVE FALSE
    BY <1>1, <1>2, <1>5
  <2>1. 2 * q <= M * q
    BY <1>1, <1>5, TimesMonotone
  <2>2. M * q \in Nat
    BY <1>1
  <2> QED BY <1>1, <1>5, <2>1, <2>2
<1> QED BY <1>3, <1>4, <1>5

(***************************************************************************)
(* The last file of each batch, and nothing else, is left for the gather   *)
(* job, for any number of files and of runners that list them in the same  *)
(* order.                                                                  *)
(***************************************************************************)
THEOREM LastFilesAreLeftOut == SameListing /\ Spec => []LastFilesLeftOut
<1> SUFFICES ASSUME SameListing PROVE Spec => []LastFilesLeftOut
  OBVIOUS
<1>1. TypeOK /\ SliceInv /\ LeftoverInv => LastFilesLeftOut
  <2> SUFFICES ASSUME TypeOK, SliceInv, LeftoverInv, RunnersDone
               PROVE  /\ Files \ UNION { logs[j] : j \in Runners } = LastFiles \cap Files
                      /\ BatchesCoverFiles <=> N = 0 \/ M = 1
    BY DEF LastFilesLeftOut
  <2> DEFINE handled == UNION { logs[j] : j \in Runners }
  <2>1. \A f : f \in handled <=> \E j \in Runners : f \in logs[j]
    OBVIOUS
  <2>2. handled \subseteq Files
    BY <2>1 DEF TypeOK, Jobs
  <2>3. Files \ handled = LastFiles \cap Files
    BY <2>1, LeftOutIsLast, LastIsLeftOut
  <2>4. handled = Files <=> LastFiles \cap Files = {}
    BY <2>2, <2>3
  <2>5. LastFiles \cap Files # {} <=> batch(M) <= N
    <3>1. batch(M) \in Nat \ {0} /\ N \in Nat /\ 1 \in Runners
      BY RankTypes, BatchesAssumption DEF Runners
    <3>2. ASSUME batch(M) <= N PROVE batch(M) \in LastFiles \cap Files
      <4>1. batch(M) * 1 \in LastFiles
        BY <3>1 DEF LastFiles
      <4> QED BY <3>1, <3>2, <4>1 DEF Files
    <3>3. ASSUME NEW f \in LastFiles \cap Files PROVE batch(M) <= N
      <4>1. PICK j \in Runners : f = batch(M) * j
        BY DEF LastFiles
      <4>2. j \in Nat \ {0}
        BY BatchesAssumption DEF Runners
      <4>3. batch(M) * 1 <= batch(M) * j
        BY <3>1, <4>2, TimesMonotone
      <4> QED BY <3>1, <4>1, <4>2, <4>3 DEF Files
    <3> QED BY <3>2, <3>3
  <2>6. BatchesCoverFiles <=> handled = Files
    BY DEF BatchesCoverFiles
  <2> QED BY <2>3, <2>4, <2>5, <2>6, FirstBatch
<1> QED BY <1>1, LeftoversAlways, TypeCorrect, PTL
=============================================================================

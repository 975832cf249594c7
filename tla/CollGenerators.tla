--------------------------- MODULE CollGenerators ---------------------------
(***************************************************************************)
(* The codes that the generators of collective tests write.  A generator   *)
(* is a template and loops over lists of calls; in each iteration the      *)
(* dictionary `patterns' is filled from the tables of module Calls, and    *)
(* every file is made from it.  `replace = patterns' does not copy: what   *)
(* is changed for one file stays changed for the next files of the         *)
(* iteration, which is why each record below is an EXCEPT of the one       *)
(* before it.                                                              *)
(***************************************************************************)
EXTENDS Calls

\* A loop that makes the files of each of its iterations in turn.
For(list, Files(_)) == FlattenSeq([i \in DOMAIN list |-> Files(list[i])])

\* Odd(np) is the condition rank % 2, All(np) one that every rank satisfies.
All(np) == 0 .. np - 1
Odd(np) == {r \in All(np) : r % 2 = 1}

\* A statement that only the given ranks execute.
Only(ranks, r, piece) == IF r \in ranks THEN piece ELSE <<>>

\* The C variables of a rank, with the values most templates give them.
vars0 == [root |-> 0, src |-> 0, dest |-> 1, stag |-> 0, rtag |-> 0,
          newcom |-> "MPI_COMM_WORLD", world |-> "MPI_COMM_WORLD",
          type |-> "MPI_INT", op |-> "MPI_SUM", color |-> 0, dims |-> 2,
          j |-> 0, size |-> 1, buff_size |-> 1, room |-> 0, target |-> 1]

(***************************************************************************)
(* make_file(template, filename, replace): the file has a name, the        *)
(* expectation of its header, the number of processes of its mpirun line   *)
(* and for each rank the variables and the instructions of main().  The    *)
(* templates all end with MPI_Finalize.  A code that is expected to be     *)
(* correct must be so however much an implementation buffers; no choice of *)
(* the implementation is prescribed (picks), and the header of a generated *)
(* code tells nothing of the errors that it does not announce (never).     *)
(***************************************************************************)
make_file(template, variables, np, filename, replace) ==
  [file |-> filename, outcome |-> replace.outcome, np |-> np,
   buffering |-> IF replace.outcome = "OK" THEN {"none", "all"} ELSE {"none"},
   picks |-> {}, never |-> {},
   env |-> variables, prog |-> [r \in All(np) |-> template[r] \o Do("finalize")]]

\* The template and its variables, for each rank.
Make(template(_, _), variables(_), np, filename, replace) ==
  make_file([r \in All(np) |-> template(replace, r)],
            [r \in All(np) |-> variables(r)], np, filename, replace)

\* MPI_Comm_split(MPI_COMM_WORLD, 0, nprocs - rank, &newcom)
SplitNewcom ==
  Collective("MPI_Comm_split", "world") \o New("CommunicatorLeak", FALSE)
    \o Set("newcom", "newcom")

-----------------------------------------------------------------------------
(* CollMatchingGenerator.py *)

CollMatchingTemplate(p, r) ==
  p.init1 \o p.init2
    \o (IF r \in p.change_cond
        THEN p.operation1a \o p.fini1a \o p.operation2a \o p.fini2a
        ELSE p.operation1b \o p.fini1b \o p.operation2b \o p.fini2b)
    \o p.free1 \o p.free2

CollMatchingFile(filename, p) ==
  Make(CollMatchingTemplate, LAMBDA r : [vars0 EXCEPT !.buff_size = 128],
       2, filename, p)

CollMatchingPatterns(c1, c2) ==
  [init1 |-> init(c1, 1), init2 |-> init(c2, 2),
   fini1a |-> fini(c1, 1), fini2a |-> fini(c2, 2),
   fini1b |-> fini(c1, 1), fini2b |-> fini(c2, 2),
   free1 |-> free(c1, 1), free2 |-> free(c2, 2),
   operation1a |-> operation(c1, 1), operation1b |-> operation(c1, 1),
   operation2a |-> operation(c2, 2), operation2b |-> operation(c2, 2),
   change_cond |-> Odd(2), outcome |-> "OK"]

\* Mutant: the calls are inverted, but not what completes them.
CollMatchingSecond_halfway(c1, c2) ==
  LET p == CollMatchingPatterns(c1, c2) IN
  IF c1 = c2
  THEN [p EXCEPT !.init2 = <<>>, !.operation2a = <<>>, !.operation2b = <<>>,
                 !.fini2a = <<>>, !.fini2b = <<>>, !.free2 = <<>>]
  ELSE [p EXCEPT !.outcome = "CallMatching",
                 !.operation1b = operation(c2, 2), !.operation2b = operation(c1, 1),
                 !.free1 = free(c2, 2), !.free2 = free(c1, 1)]

\* The patterns of the second file of an iteration: the collective once, or
\* the two collectives in the two orders.
CollMatchingSecond(c1, c2) ==
  LET p == CollMatchingPatterns(c1, c2) IN
  IF c1 = c2
  THEN [p EXCEPT !.init2 = <<>>, !.operation2a = <<>>, !.operation2b = <<>>,
                 !.fini2a = <<>>, !.fini2b = <<>>, !.free2 = <<>>]
  ELSE [p EXCEPT !.outcome = "CallMatching",
                 !.operation1b = operation(c2, 2), !.operation2b = operation(c1, 1),
                 !.fini1a = fini(c1, 1), !.fini2a = fini(c2, 2),
                 !.fini1b = fini(c2, 2), !.fini2b = fini(c1, 1),
                 !.free1 = free(c2, 2), !.free2 = free(c1, 1)]

\* After the inner loop, the patterns are those of its last iteration.
CollMatchingNone(c1) ==
  [CollMatchingSecond(c1, Last(coll \o icoll \o ibarrier))
     EXCEPT !.outcome = "CallMatching",
            !.operation1b = <<>>, !.operation2b = <<>>, !.operation2a = <<>>,
            !.fini1b = <<>>, !.fini2a = <<>>, !.fini2b = <<>>]

CollMatchingAny(c1) ==
  [CollMatchingNone(c1)
     EXCEPT !.outcome = "OK", !.change_cond = All(2),
            !.operation2b = <<>>, !.operation2a = <<>>, !.fini2b = <<>>]

CollMatching ==
  LET all == coll \o icoll \o ibarrier
      Pair(c1, c2) ==
        << CollMatchingFile(<<"CollCorrect", c1, c2>>, CollMatchingPatterns(c1, c2)),
           CollMatchingFile(IF c1 = c2 THEN <<"CollCorrect", c1>>
                            ELSE <<"CollCallOrder", c1, c2, "nok">>,
                            CollMatchingSecond(c1, c2)) >>
      Row(c1) ==
        LET Pairs(c2) == Pair(c1, c2) IN
        For(all, Pairs)
          \o << CollMatchingFile(<<"CollCallOrder", c1, "none", "nok">>, CollMatchingNone(c1)),
                CollMatchingFile(<<"CollCallOrder", c1, "none", "ok">>, CollMatchingAny(c1)) >>
  IN  For(all, Row)

-----------------------------------------------------------------------------
(* CollComGenerator.py *)

CollComTemplate(p, r) ==
  SplitNewcom
    \o Only(p.change_com_ranks, r, p.change_com)
    \o p.init \o p.start \o p.operation \o p.fini \o p.free \o Do("comm_free")

CollComPatterns(c) ==
  [init |-> init(c, 1), start |-> start(c, 1), fini |-> fini(c, 1),
   free |-> free(c, 1), operation |-> operation(c, 1),
   change_com |-> <<>>, change_com_ranks |-> All(2), outcome |-> "OK"]

CollComMismatch(c) ==
  [CollComPatterns(c) EXCEPT !.outcome = "CommunicatorMatching",
     !.change_com = Set("newcom", "MPI_COMM_WORLD"), !.change_com_ranks = Odd(2)]

CollComNull(c) ==
  [CollComMismatch(c) EXCEPT !.outcome = "InvalidCommunicator",
     !.change_com = Set("newcom", "MPI_COMM_NULL"), !.change_com_ranks = All(2)]

CollCom ==
  LET File(filename, p) ==
        Make(CollComTemplate, LAMBDA r : [vars0 EXCEPT !.buff_size = 128],
             2, filename, p)
      Files(c) == << File(<<"CollComMatching", c, "ok">>, CollComPatterns(c)),
                     File(<<"CollComMatching", c, "nok">>, CollComMismatch(c)),
                     File(<<"CollComNull", c, "nok">>, CollComNull(c)) >>
  IN  For(coll \o icoll \o ibarrier, Files)

-----------------------------------------------------------------------------
(* CollArgGenerator.py *)

CollArgTemplate(p, r) ==
  p.init \o p.start \o Only(p.change_arg_ranks, r, p.change_arg)
    \o p.operation \o p.fini \o p.free

CollArgFile(filename, p) ==
  Make(CollArgTemplate, LAMBDA r : [vars0 EXCEPT !.buff_size = 128],
       2, filename, p)

CollArgPatterns(c, ranks, change_arg, outcome) ==
  [init |-> init(c, 1), start |-> start(c, 1), operation |-> operation(c, 1),
   fini |-> fini(c, 1), free |-> free(c, 1),
   change_arg |-> change_arg, change_arg_ranks |-> ranks, outcome |-> outcome]

CollArgColor(c) ==
  << CollArgFile(<<"CollInvalidOtherArg", c, "nok">>,
       CollArgPatterns(c, All(2), Set("color", -10), "InvalidOtherArg")) >>

CollArgRoot(c) ==
  LET mismatch == CollArgPatterns(c, Odd(2), Set("root", 1), "RootMatching")
      negative == [mismatch EXCEPT !.outcome = "InvalidRoot",
                     !.change_arg = Set("root", -1), !.change_arg_ranks = All(2)]
      large    == [negative EXCEPT !.change_arg = Set("root", 2)]
  IN  << CollArgFile(<<"CollRootMatching", c, "nok">>, mismatch),
         CollArgFile(<<"CollRootNeg", c, "nok">>, negative),
         CollArgFile(<<"CollRootTooLarge", c, "nok">>, large) >>

CollArgType(c) ==
  LET mismatch == CollArgPatterns(c, Odd(2), Set("type", "MPI_FLOAT"), "DatatypeMatching")
      null     == [mismatch EXCEPT !.outcome = "InvalidDatatype",
                     !.change_arg = Set("type", "MPI_DATATYPE_NULL"),
                     !.change_arg_ranks = All(2)]
  IN  << CollArgFile(<<"CollDataMatching", c, "nok">>, mismatch),
         CollArgFile(<<"CollDataNull", c, "nok">>, null) >>

CollArgOp(c) ==
  LET mismatch == CollArgPatterns(c, Odd(2), Set("op", "MPI_MAX"), "OperatorMatching")
      null     == [mismatch EXCEPT !.outcome = "InvalidOperator",
                     !.change_arg = Set("op", "MPI_OP_NULL"), !.change_arg_ranks = All(2)]
  IN  << CollArgFile(<<"CollOpMatching", c, "nok">>, mismatch),
         CollArgFile(<<"CollOpNull", c, "nok">>, null) >>

CollArg ==
  For(<<"MPI_Comm_split">>, CollArgColor)
    \o For(coll4root \o icoll4root, CollArgRoot)
    \o For(SelectSeq(coll \o icoll, LAMBDA c : c # "MPI_Barrier"), CollArgType)
    \o For(coll4op \o icoll4op, CollArgOp)

-----------------------------------------------------------------------------
(* CollTopoGenerator.py: dims is the value of dims[0].  MPI_Comm_free is   *)
(* guarded against MPI_COMM_NULL only, but a code with MPI_COMM_WORLD has  *)
(* been ended by MPI_Cart_get before.                                      *)

CollTopoTemplate(p, r) ==
  p.change_dims \o Collective("MPI_Cart_create", "world")
    \o New("CommunicatorLeak", FALSE) \o Set("newcom", "cart")
    \o p.change_com \o p.init \o p.operation \o p.fini \o Do("comm_free")

CollTopoFiles(c) ==
  LET ok   == [init |-> init(c, 1), fini |-> fini(c, 1), operation |-> operation(c, 1),
               change_com |-> <<>>, change_dims |-> <<>>, outcome |-> "OK"]
      com  == [ok EXCEPT !.outcome = "InvalidCommunicator",
                         !.change_com = Set("newcom", "MPI_COMM_WORLD")]
      null == [com EXCEPT !.change_com = Set("newcom", "MPI_COMM_NULL")]
      dim  == [null EXCEPT !.outcome = "InvalidOtherArg", !.change_com = <<>>,
                           !.change_dims = Set("dims", -2)]
      File(filename, p) == Make(CollTopoTemplate, LAMBDA r : vars0, 2, filename, p)
  IN  << File(<<"CollCorrect", c, "ok">>, ok), File(<<"CollInvalidCom", c, "nok">>, com),
         File(<<"CollComNull", c, "nok">>, null),
         File(<<"CollInvalidDim", "MPI_Cart_create", "nok">>, dim) >>

CollTopo == For(<<"MPI_Cart_get">>, CollTopoFiles)

-----------------------------------------------------------------------------
(* CollLocalConcurrencyGenerator.py *)

\* Mutant: the collective is not waited for.
CollLocalConcurrencyTemplate_unwaited(p, r) ==
  p.init \o p.start \o p.operation \o p.write \o p.free

CollLocalConcurrencyTemplate(p, r) ==
  p.init \o p.start \o p.operation \o p.write \o p.fini \o p.free

CollLocalConcurrencyFiles(c) ==
  << Make(CollLocalConcurrencyTemplate,
       LAMBDA r : [vars0 EXCEPT !.buff_size = 128], 2,
       <<"CollLocalConcurrency", c, "nok">>,
       [init |-> init(c, 1), start |-> start(c, 1), fini |-> fini(c, 1),
        operation |-> operation(c, 1), write |-> write(c, 1), free |-> free(c, 1),
        outcome |-> "LocalConcurrency"]) >>

CollLocalConcurrency == For(icoll, CollLocalConcurrencyFiles)

-----------------------------------------------------------------------------
(* ResleakGenerator.py.  The loop makes ITERATIONS times three objects and *)
(* frees two of each three; 2 iterations stand for the 100 of the source.  *)

ITERATIONS == 2

\* Mutant: the handle is kept at the first index of the array.
ResleakTemplate_first(p, r) ==
  p.change_size \o Set("j", 0) \o p.init \o p.operation \o p.fini \o p.free

ResleakTemplate(p, r) ==
  LET Round(j) == Set("j", j) \o p.operation
                    \o (IF j < 2 THEN p.fini ELSE <<>>)
      Loop == Round(0) \o Round(1) \o Round(2)
  IN  p.change_size \o p.init
        \o (IF p.loop THEN FlattenSeq([i \in 1 .. ITERATIONS |-> Loop])
            ELSE p.operation \o p.fini)
        \o p.free

ResleakFiles(c) ==
  LET ok   == [operation |-> operation(c, 1), init |-> init(c, 1), fini |-> fini(c, 1),
               free |-> free(c, 1), loop |-> FALSE, change_size |-> <<>>, outcome |-> "OK"]
      leak == [ok EXCEPT !.outcome = error(c), !.fini = <<>>]
      many == [leak EXCEPT !.change_size = Set("size", 3), !.loop = TRUE,
                           !.fini = fini(c, 1)]
      File(filename, p) ==
        Make(ResleakTemplate, LAMBDA r : [vars0 EXCEPT !.j = 1], 2, filename, p)
  IN  << File(<<"CallParamCorrect", c>>, ok), File(<<"Resleak", c, "nok">>, leak),
         File(<<"Resleak", "multiple", c, "nok">>, many) >>

Resleak == For(tcoll, ResleakFiles)

=============================================================================

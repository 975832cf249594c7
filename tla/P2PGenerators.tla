--------------------------- MODULE P2PGenerators ---------------------------
(***************************************************************************)
(* The codes that the generators of point-to-point tests write.  See       *)
(* CollGenerators for how a generator is represented.                      *)
(***************************************************************************)
EXTENDS CollGenerators

\* MPI_ANY_SOURCE and MPI_ANY_TAG, as the machine represents them.
MPI_ANY == -99

\* MPI_Type_contiguous, MPI_Type_commit and MPI_Type_free on the same type.
FreedType == Set("type", "freed")

-----------------------------------------------------------------------------
(* P2PMatchingGenerator.py.  its_raining is 0.                             *)

P2PMatchingTemplate(p, r) ==
  p.init1 \o p.init2
    \o Only({0}, r, p.operation1 \o p.fini1)
    \o Only({1} \cap p.change_cond, r, p.operation2 \o p.fini2)

P2PMatchingFile(filename, p) ==
  Make(P2PMatchingTemplate, LAMBDA r : [vars0 EXCEPT !.buff_size = 128],
       2, filename, p)

P2PMatchingOne(p) ==
  LET one == [init1 |-> init(p, 1), init2 |-> <<>>, fini1 |-> fini(p, 1), fini2 |-> <<>>,
              operation1 |-> operation(p, 1), operation2 |-> <<>>,
              change_cond |-> {1}, outcome |-> "CallMatching"]
      two == [one EXCEPT !.operation2 = operation(p, 1), !.fini2 = fini(p, 1)]
  IN  << P2PMatchingFile(<<"P2PCallMatching", p, "nok">>, one),
         P2PMatchingFile(<<"P2PCallMatching", p, p, "nok">>, two) >>

P2PMatchingTwo(s, r) ==
  << P2PMatchingFile(<<"P2PCallMatching", r, s, "nok">>,
       [init1 |-> init(s, 1), init2 |-> init(r, 2), fini1 |-> fini(s, 1),
        fini2 |-> fini(r, 2), operation1 |-> operation(s, 1),
        operation2 |-> operation(r, 2), change_cond |-> {}, outcome |-> "CallMatching"]) >>

P2PMatching ==
  LET Pairs(s) == LET Pair(r) == P2PMatchingTwo(s, r) IN For(recv \o irecv, Pair)
  IN  For(send \o ssend \o bsend \o recv \o irecv \o isend, P2PMatchingOne)
        \o For(send \o isend \o ssend \o bsend, Pairs)

-----------------------------------------------------------------------------
(* P2PMatchingANYSRCGenerator.py *)

P2PMatchingANYSRCTemplate(p, r) ==
  p.init1 \o p.init2
    \o (IF r = 0
        THEN FlattenSeq([i \in 1 .. 3 |-> p.operation1 \o p.fini1]) \o Do("expect")
        ELSE p.operation2 \o p.fini2)

P2PMatchingANYSRCFile(s, r) ==
  << Make(P2PMatchingANYSRCTemplate,
       LAMBDA rank : [vars0 EXCEPT !.src = MPI_ANY, !.dest = 0,
                                   !.stag = 42, !.rtag = MPI_ANY],
       4, <<"P2PMessageRace", r, s, "nok">>,
       [init1 |-> init(r, 1), init2 |-> init(s, 2), fini1 |-> fini(r, 1),
        fini2 |-> fini(s, 2), operation1 |-> operation(r, 1),
        operation2 |-> operation(s, 2), outcome |-> "MessageRace"]) >>

P2PMatchingANYSRC ==
  LET Files(s) == LET File(r) == P2PMatchingANYSRCFile(s, r) IN For(recv \o irecv, File)
  IN  For(send \o isend, Files)

-----------------------------------------------------------------------------
(* P2PProbeGenerator.py *)

P2PProbeTemplate(p, r) ==
  p.init1a \o p.init1b \o p.init1c \o p.init2a \o p.init2b \o p.init2c
    \o Only({0}, r, Set("dest", 1) \o Set("src", 1)
          \o p.operation1a \o p.operation1b \o p.operation1c
          \o p.fini1a \o p.fini1b \o p.fini1c)
    \o Only({1}, r, Set("dest", 0) \o Set("src", 0)
          \o p.operation2a \o p.operation2b \o p.operation2c
          \o p.fini2a \o p.fini2b \o p.fini2c)
    \o p.free1a \o p.free1b \o p.free1c \o p.free2a \o p.free2b \o p.free2c

P2PProbePatterns(p, s, r) ==
  [init1a |-> init(p, 1), init1b |-> init(s, 1), init1c |-> init(r, 2),
   init2a |-> init(p, 1), init2b |-> init(r, 3), init2c |-> init(s, 4),
   fini1a |-> fini(p, 1), fini1b |-> fini(s, 1), fini1c |-> fini(r, 2),
   fini2a |-> fini(p, 1), fini2b |-> fini(r, 3), fini2c |-> fini(s, 4),
   free1a |-> free(p, 1), free1b |-> free(s, 1), free1c |-> free(r, 2),
   free2a |-> free(p, 1), free2b |-> free(r, 3), free2c |-> free(s, 4),
   operation1a |-> operation(p, 1), operation1b |-> operation(s, 1),
   operation1c |-> operation(r, 2), operation2a |-> operation(p, 1),
   operation2b |-> operation(r, 3), operation2c |-> operation(s, 4),
   outcome |-> "CallMatching"]

\* Mutant: the correct code keeps the order of the incorrect one.
P2PProbeCorrect_unswapped(p, s, r) ==
  [P2PProbePatterns(p, s, r) EXCEPT !.outcome = "OK"]

P2PProbeCorrect(p, s, r) ==
  [P2PProbePatterns(p, s, r) EXCEPT !.outcome = "OK",
     !.operation1a = operation(s, 1), !.operation1b = operation(p, 1)]

P2PProbe ==
  LET File(filename, p) == Make(P2PProbeTemplate, LAMBDA r : vars0, 2, filename, p)
      Files(p, s, r) ==
        << File(<<"P2PCallMatching", p, r, s, "nok">>, P2PProbePatterns(p, s, r)),
           File(<<"P2PCallMatching", p, r, s, "ok">>, P2PProbeCorrect(p, s, r)) >>
      Sends(s) == LET Receives(r) == Files("MPI_Probe", s, r) IN For(recv \o irecv, Receives)
  IN  For(send \o isend, Sends)

-----------------------------------------------------------------------------
(* MissingWaitandStartGenerator.py *)

MissingWaitTemplate(p, r) ==
  p.init1 \o p.init2 \o p.operation1 \o p.start1 \o p.operation2 \o p.start2
    \o p.fini1 \o p.fini2 \o p.free1 \o p.free2

MissingWaitFile(filename, p) ==
  Make(MissingWaitTemplate,
       LAMBDA r : [vars0 EXCEPT !.dest = (r + 1) % 2, !.src = (r + 1) % 2],
       2, filename, p)

MissingWaitP2P(s, r) ==
  LET ok   == [init1 |-> init(s, 1), init2 |-> init(r, 2), start1 |-> start(s, 1),
               start2 |-> start(r, 2), operation1 |-> operation(s, 1),
               operation2 |-> operation(r, 2), fini1 |-> fini(s, 1), fini2 |-> fini(r, 2),
               free1 |-> free(s, 1), free2 |-> free(r, 2), outcome |-> "OK"]
      wait == [ok EXCEPT !.outcome = "MissingWait", !.fini1 = <<>>]
      idle == [wait EXCEPT !.outcome = "MissingStart", !.fini1 = fini(s, 1), !.start1 = <<>>]
      leak == [idle EXCEPT !.outcome = "RequestLeak", !.start1 = start(s, 1), !.free1 = <<>>]
  IN  << MissingWaitFile(<<"P2PCallMatching", s, r, "ok">>, ok),
         MissingWaitFile(<<"MissingWait", s, r, "nok">>, wait) >>
        \o (IF s \in Persistent
            THEN << MissingWaitFile(<<"MissingStart", s, r, "nok">>, idle),
                    MissingWaitFile(<<"RequestLeak", s, r, "nok">>, leak) >>
            ELSE <<>>)

MissingWaitColl(c) ==
  << MissingWaitFile(<<"MissingWait", c, "nok">>,
       [init1 |-> init(c, 1), operation1 |-> operation(c, 1), start1 |-> start(c, 1),
        fini1 |-> <<>>, free1 |-> <<>>, init2 |-> <<>>, operation2 |-> <<>>,
        start2 |-> <<>>, fini2 |-> <<>>, free2 |-> <<>>, outcome |-> "MissingWait"]) >>

MissingWaitandStart ==
  LET Files(s) == LET File(r) == MissingWaitP2P(s, r) IN For(irecv \o precv, File)
  IN  For(isend \o psend, Files) \o For(icoll \o ibarrier, MissingWaitColl)

-----------------------------------------------------------------------------
(* P2PLocalConcurrencyGenerator.py *)

P2PLocalConcurrencyTemplate(p, r) ==
  p.init1 \o p.init2
    \o Only({0}, r, Set("dest", 1) \o Set("src", 1)
          \o p.operation1 \o p.start1 \o p.write1 \o p.fini1)
    \o Only({1}, r, Set("dest", 0) \o Set("src", 0)
          \o p.operation2 \o p.start2 \o p.write2 \o p.fini2)

\* No file is made for two blocking calls, which write to no buffer.
P2PLocalConcurrencyFile(s, r) ==
  IF s \in ToSet(send) /\ r \in ToSet(recv) THEN <<>>
  ELSE << Make(P2PLocalConcurrencyTemplate,
            LAMBDA rank : [vars0 EXCEPT !.dest = 0, !.src = 0],
            2, <<"P2PLocalConcurrency", r, s, "nok">>,
            [init1 |-> init(s, 1), init2 |-> init(r, 2), fini1 |-> fini(s, 1),
             fini2 |-> fini(r, 2), start1 |-> start(s, 1), start2 |-> start(r, 2),
             operation1 |-> operation(s, 1), operation2 |-> operation(r, 2),
             write1 |-> write(s, 1), write2 |-> write(r, 2),
             outcome |-> "LocalConcurrency"]) >>

P2PLocalConcurrency ==
  LET Files(s) == LET File(r) == P2PLocalConcurrencyFile(s, r)
                  IN For(irecv \o precv \o recv, File)
  IN  For(send \o isend \o psend, Files)

-----------------------------------------------------------------------------
(* CollP2PMatchingGenerator.py *)

CollP2PMatchingTemplate(p, r) ==
  p.init1 \o p.init2 \o p.init3
    \o Only({0}, r, Set("dest", 1) \o Set("src", 1)
          \o p.operation3 \o p.fini3 \o p.operation1 \o p.fini1)
    \o Only({1}, r, Set("dest", 0) \o Set("src", 0)
          \o p.operation2 \o p.fini2 \o p.operation3 \o p.fini3)
    \o p.free1 \o p.free2 \o p.free3

CollP2PMatchingFile(s, r, c) ==
  << Make(CollP2PMatchingTemplate, LAMBDA rank : vars0, 2,
       <<"CollP2PCallMatching", r, s, c, "nok">>,
       [init1 |-> init(s, 1), init2 |-> init(r, 2), init3 |-> init(c, 3),
        fini1 |-> fini(s, 1), fini2 |-> fini(r, 2), fini3 |-> fini(c, 3),
        free1 |-> free(s, 1), free2 |-> free(r, 2), free3 |-> free(c, 3),
        operation1 |-> operation(s, 1), operation2 |-> operation(r, 2),
        operation3 |-> operation(c, 3), outcome |-> "CallMatching"]) >>

CollP2PMatching ==
  LET Sends(s) ==
        LET Receives(r) ==
              LET File(c) == CollP2PMatchingFile(s, r, c) IN For(coll, File)
        IN  For(recv \o irecv, Receives)
  IN  For(send \o isend, Sends)

-----------------------------------------------------------------------------
(* P2PComGenerator.py *)

P2PComTemplate(p, r) ==
  SplitNewcom
    \o Only(p.change_com_ranks, r, p.change_com) \o p.change_srcdest
    \o p.init1 \o p.init2
    \o Only({0}, r, p.operation1 \o p.start1 \o p.fini1)
    \o Only({1}, r, p.operation2 \o p.start2 \o p.fini2)
    \o p.free1 \o p.free2 \o Do("comm_free")

P2PComFiles(p1, p2) ==
  LET com  == [init1 |-> init(p1, 1), init2 |-> init(p2, 2), start1 |-> start(p1, 1),
               start2 |-> start(p2, 2), fini1 |-> fini(p1, 1), fini2 |-> fini(p2, 2),
               operation1 |-> operation(p1, 1), operation2 |-> operation(p2, 2),
               free1 |-> free(p1, 1), free2 |-> free(p2, 2), change_srcdest |-> <<>>,
               change_com |-> Set("newcom", "MPI_COMM_WORLD"), change_com_ranks |-> {0},
               outcome |-> "CommunicatorMatching"]
      null == [com EXCEPT !.outcome = "InvalidCommunicator",
                          !.change_com = Do("comm_free"), !.change_com_ranks = All(2)]
      dest == [null EXCEPT !.outcome = "InvalidSrcDest", !.change_com = <<>>,
                           !.change_srcdest = Set("dest", 4)]
      src  == [dest EXCEPT !.change_srcdest = Set("src", -1)]
      File(filename, p) == Make(P2PComTemplate, LAMBDA r : vars0, 2, filename, p)
  IN  << File(<<"P2PComMatching", p1, p2, "nok">>, com),
         File(<<"P2PInvalidCom", p1, p2, "nok">>, null),
         File(<<"P2PInvalidDest", p1, p2, "nok">>, dest),
         File(<<"P2PInvalidSrc", p1, p2, "nok">>, src) >>

P2PCom ==
  LET Sends(p1) == LET Receives(p2) == P2PComFiles(p1, p2)
                   IN For(recv \o irecv \o precv, Receives)
  IN  For(send \o isend \o psend, Sends)

-----------------------------------------------------------------------------
(* P2PArgGenerator.py *)

P2PArgTemplate(p, r) ==
  Only(p.change_arg_ranks, r, p.change_arg) \o p.init1 \o p.init2
    \o Only({0}, r, p.operation1 \o p.start1 \o p.fini1)
    \o Only({1}, r, p.operation2 \o p.start2 \o p.fini2)
    \o p.free1 \o p.free2

P2PArgPatterns(p1, p2, ranks, change_arg, outcome) ==
  [init1 |-> init(p1, 1), init2 |-> init(p2, 2), start1 |-> start(p1, 1),
   start2 |-> start(p2, 2), fini1 |-> fini(p1, 1), fini2 |-> fini(p2, 2),
   operation1 |-> operation(p1, 1), operation2 |-> operation(p2, 2),
   free1 |-> free(p1, 1), free2 |-> free(p2, 2),
   change_arg |-> change_arg, change_arg_ranks |-> ranks, outcome |-> outcome]

P2PArgFile(filename, p) == Make(P2PArgTemplate, LAMBDA r : vars0, 2, filename, p)

P2PArgType(p1, p2) ==
  LET mismatch == P2PArgPatterns(p1, p2, {0}, Set("type", "MPI_FLOAT"), "DatatypeMatching")
      null     == [mismatch EXCEPT !.outcome = "InvalidDatatype", !.change_arg_ranks = All(2),
                                   !.change_arg = Set("type", "MPI_DATATYPE_NULL")]
      freed    == [null EXCEPT !.change_arg = FreedType]
  IN  << P2PArgFile(<<"P2PDataMatching", p1, p2, "nok">>, mismatch),
         P2PArgFile(<<"P2PDatatypeNull", p1, p2, "nok">>, null),
         P2PArgFile(<<"P2PInvalidDatatype", p1, p2, "nok">>, freed) >>

P2PArgTag(p1, p2) ==
  LET mismatch == P2PArgPatterns(p1, p2, All(2), Set("stag", 0) \o Set("rtag", 1),
                                 "TagMatching")
      invalid  == [mismatch EXCEPT !.outcome = "InvalidTag",
                                   !.change_arg = Set("stag", -1) \o Set("rtag", -2)]
      any      == [invalid EXCEPT !.outcome = "OK", !.change_arg = Set("rtag", MPI_ANY)]
  IN  << P2PArgFile(<<"P2PTagMatching", p1, p2, "nok">>, mismatch),
         P2PArgFile(<<"P2PInvalidTag", p1, p2, "nok">>, invalid),
         P2PArgFile(<<"P2PTagMatching", p1, p2, "ok">>, any) >>

P2PArg ==
  LET Types(p1) == LET With(p2) == P2PArgType(p1, p2) IN For(allrecv, With)
      Tags(p1)  == LET With(p2) == P2PArgTag(p1, p2) IN For(allrecv, With)
  IN  For(allsend, Types) \o For(allsend, Tags)

=============================================================================

--------------------------- MODULE RMAGenerators ---------------------------
(***************************************************************************)
(* The codes that the generators of one-sided tests write.  See            *)
(* CollGenerators for how a generator is represented.                      *)
(***************************************************************************)
EXTENDS P2PGenerators

WinCreate == Collective("MPI_Win_create", "world")
WinFree == Collective("MPI_Win_free", "world")

-----------------------------------------------------------------------------
(* RMALocalConcurrencyGenerator.py *)

RMALocalTemplate(p, r) ==
  WinCreate \o p.epoch \o p.init1 \o Only({0}, r, p.operation1 \o p.operation2)
    \o p.finEpoch \o WinFree

RMALocalFile(filename, p) ==
  Make(RMALocalTemplate, LAMBDA r : [vars0 EXCEPT !.target = (r + 1) % 2],
       2, filename, p)

\* Mutant: the second access has a buffer of its own.
RMALocalPatterns_apart(e, p1, p2) ==
  [epoch |-> epoch(e), finEpoch |-> finEpoch(e), init1 |-> init(p1, 1),
   operation1 |-> operation(p1, 1), operation2 |-> operation(p2, 2),
   outcome |-> "LocalConcurrency"]

RMALocalPatterns(e, p1, p2) ==
  [epoch |-> epoch(e), finEpoch |-> finEpoch(e), init1 |-> init(p1, 1),
   operation1 |-> operation(p1, 1), operation2 |-> operation(p2, 1),
   outcome |-> "LocalConcurrency"]

RMALocalSwapped(e, p1, p2) ==
  [RMALocalPatterns(e, p1, p2) EXCEPT !.outcome = "OK",
     !.operation1 = operation(p2, 1), !.operation2 = operation(p1, 1)]

RMALocalAlone(e, p1, p2) ==
  [RMALocalSwapped(e, p1, p2) EXCEPT !.operation1 = operation(p1, 1), !.operation2 = <<>>]

RMALocalPair(e, p1, p2) ==
  << RMALocalFile(<<"MBI_LocalConcurrency", e, p1, p2, "nok">>, RMALocalPatterns(e, p1, p2)) >>
    \o (IF p2 \in ToSet(rma) THEN <<>>
        ELSE << RMALocalFile(<<"MBI_LocalConcurrency", e, p2, p1, "ok">>,
                             RMALocalSwapped(e, p1, p2)) >>)

RMALocalConcurrency ==
  LET Get(e) ==
        LET Pair(p2) == RMALocalPair(e, "MPI_Get", p2) IN
        For(<<"MPI_Put", "store", "load", "MPI_Get", "loadstore">>, Pair)
          \o << RMALocalFile(<<"MBI_LocalConcurrency", e, "MPI_Get", "ok">>,
                             RMALocalAlone(e, "MPI_Get", "loadstore")) >>
      Put(e) ==
        RMALocalPair(e, "MPI_Put", "store")
          \o << RMALocalFile(<<"MBI_LocalConcurrency", e, "MPI_Put", "ok">>,
                             RMALocalAlone(e, "MPI_Put", "store")) >>
  IN  For(epochs, Get) \o For(epochs, Put)

-----------------------------------------------------------------------------
(* RMAGlobalConcurrencyGenerator.py *)

RMAGlobalTemplate(p, r) ==
  WinCreate \o p.epoch \o p.init1 \o p.init2
    \o Only({0}, r, p.operation1) \o Only({2}, r, p.operation2)
    \o Only({1}, r, p.add_store) \o p.finEpoch \o WinFree

\* Mutant: the name does not tell the call that races with the store.
RMAGlobalFiles_unnamed(e, p1, p2) ==
  LET race  == [epoch |-> epoch(e), finEpoch |-> finEpoch(e), init1 |-> init(p1, 1),
                init2 |-> init(p2, 2), operation1 |-> operation(p1, 1),
                operation2 |-> operation(p2, 2), add_store |-> <<>>,
                outcome |-> "GlobalConcurrency"]
      stored == [race EXCEPT !.add_store = Do("store_window"), !.operation1 = <<>>]
      File(filename, p) == Make(RMAGlobalTemplate, LAMBDA r : vars0, 3, filename, p)
  IN  << File(<<"GlobalConcurrency", e, p1, p2, "nok">>, race),
         File(<<"GlobalConcurrency", e, "store", "nok">>, stored) >>

RMAGlobalFiles(e, p1, p2) ==
  LET race  == [epoch |-> epoch(e), finEpoch |-> finEpoch(e), init1 |-> init(p1, 1),
                init2 |-> init(p2, 2), operation1 |-> operation(p1, 1),
                operation2 |-> operation(p2, 2), add_store |-> <<>>,
                outcome |-> "GlobalConcurrency"]
      stored == [race EXCEPT !.add_store = Do("store_window"), !.operation1 = <<>>]
      File(filename, p) == Make(RMAGlobalTemplate, LAMBDA r : vars0, 3, filename, p)
  IN  << File(<<"GlobalConcurrency", e, p1, p2, "nok">>, race),
         File(<<"GlobalConcurrency", e, p2, "store", "nok">>, stored) >>

RMAGlobalConcurrency ==
  LET Files(e) == LET With(p2) == RMAGlobalFiles(e, "MPI_Put", p2) IN For(rma, With)
  IN  For(epochs, Files)

-----------------------------------------------------------------------------
(* RMAP2PGlobalConcurrencyGenerator.py.  Rank 1 receives into buf3.        *)

RMAP2PTemplate(p, r) ==
  WinCreate \o p.init1 \o p.init2 \o p.init3
    \o Only({0}, r, Do("lock_exclusive") \o p.operation1 \o Do("unlock"))
    \o Only({2}, r, Set("dest", 1) \o p.operation2 \o p.fini2)
    \o Only({1}, r, Set("src", 2) \o p.operation3 \o p.fini3)
    \o WinFree

RMAP2PFile(p, s, r) ==
  << Make(RMAP2PTemplate, LAMBDA rank : vars0, 4,
       <<"GlobalConcurrency", p, s, r, "nok">>,
       [init1 |-> init(p, 1), init2 |-> init(s, 2), init3 |-> init(r, 3),
        fini2 |-> fini(s, 2), fini3 |-> fini(r, 3), operation1 |-> operation(p, 1),
        operation2 |-> operation(s, 2), operation3 |-> operation(r, 3),
        outcome |-> "GlobalConcurrency"]) >>

RMAP2PGlobalConcurrency ==
  LET OneSided(p) ==
        LET Sends(s) == LET File(r) == RMAP2PFile(p, s, r) IN For(recv \o irecv, File)
        IN  For(send \o isend, Sends)
  IN  For(<<"MPI_Put", "MPI_Get">>, OneSided)

-----------------------------------------------------------------------------
(* RMAInvalidArgGenerator.py *)

RMAInvalidArgTemplate(p, r) ==
  WinCreate \o p.change_arg \o p.epoch \o p.init \o p.operation \o p.finEpoch \o WinFree

RMAInvalidArgFiles(e, p) ==
  LET null  == [epoch |-> epoch(e), finEpoch |-> finEpoch(e), init |-> init(p, 1),
                operation |-> operation(p, 1), outcome |-> "InvalidDatatype",
                change_arg |-> Set("type", "MPI_DATATYPE_NULL")]
      freed == [null EXCEPT !.change_arg = FreedType]
      File(filename, q) ==
        Make(RMAInvalidArgTemplate, LAMBDA r : [vars0 EXCEPT !.target = (r + 1) % 2],
             2, filename, q)
  IN  << File(<<"RMADatatypeNull", e, p, "nok">>, null),
         File(<<"RMAInvalidDatatype", e, p, "nok">>, freed) >>

RMAInvalidArg ==
  LET Files(e) == LET With(p) == RMAInvalidArgFiles(e, p) IN For(rma, With)
  IN  For(epochs, Files)

-----------------------------------------------------------------------------
\* cmd_gencodes(): all the generators whose name ends with Generator.py.
cmd_gencodes ==
  CollArg \o CollCom \o CollLocalConcurrency \o CollMatching \o CollP2PMatching
    \o CollTopo \o MissingWaitandStart \o P2PArg \o P2PCom \o P2PLocalConcurrency
    \o P2PMatchingANYSRC \o P2PMatching \o P2PProbe \o RMAGlobalConcurrency
    \o RMAInvalidArg \o RMALocalConcurrency \o RMAP2PGlobalConcurrency \o Resleak

=============================================================================

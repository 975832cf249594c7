------------------------------ MODULE MCCodes ------------------------------
(***************************************************************************)
(* The files of the generators and the hand-written codes for TLC.         *)
(***************************************************************************)
EXTENDS Mpi, RMAGenerators, HandCorrect, HandErroneous

AllFiles == cmd_gencodes \o CorrectCodes \o ErroneousCodes
RMAP2PFiles == RMAP2PGlobalConcurrency

(***************************************************************************)
(* The codes whose header does not tell what they do:                      *)
(*   - RMAP2PGlobalConcurrency receives into a buffer of its own, and not  *)
(*     into the window;                                                    *)
(*   - P2PMatching calls MPI_Bsend for 128 integers with an attached       *)
(*     buffer for one, and fails there;                                    *)
(*   - the codes of Resleak that are said to be correct keep the handle at *)
(*     index 1 of an array of one;                                         *)
(*   - p2p-any-src-wait-deadlock4 sends a buffer while it is received into.*)
(***************************************************************************)
Names(files) == {f.file : f \in files}

WrongLabels ==
  Names(ToSet(RMAP2PGlobalConcurrency))
    \cup Names({f \in ToSet(P2PMatching) : "MPI_Bsend" \in ToSet(f.file)})
    \cup Names({f \in ToSet(Resleak) : f.outcome = "OK"})
    \cup {<<"p2p-any-src-wait-deadlock4">>}
=============================================================================

------------------------------ MODULE MCRunCmd ------------------------------
(***************************************************************************)
(* Instances of RunCmd for TLC.                                            *)
(***************************************************************************)
EXTENDS RunCmd

\* All the tests are described in the header of one and the same file.
OneFile == [t \in Tests |-> CHOOSE f \in Files : TRUE]
=============================================================================

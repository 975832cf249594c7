------------------------------ MODULE MCCmdRun ------------------------------
(***************************************************************************)
(* Instances of CmdRun for TLC.                                            *)
(***************************************************************************)
EXTENDS CmdRun

CONSTANTS t1, t2, f1

\* Both tests are described in the header of one file.
TwoTests == <<t1, t2>>
OneFile == [t \in Tests |-> f1]
=============================================================================

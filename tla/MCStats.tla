------------------------------ MODULE MCStats -------------------------------
(***************************************************************************)
(* Instances of Stats for TLC.                                             *)
(***************************************************************************)
EXTENDS Stats

OneTool  == <<"must">>
TwoTools == <<"isp", "must">>
=============================================================================

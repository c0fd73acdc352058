------------------------------- MODULE MCBank -------------------------------
(* Instances of Bank for TLC.                                               *)
EXTENDS Bank, MCRequests
=============================================================================

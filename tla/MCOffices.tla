------------------------------ MODULE MCOffices ------------------------------
(* Instances of Offices for TLC.                                            *)
EXTENDS Offices, TLC

\* Neither the offices nor the requests are told apart by the specification.
Symmetry == Permutations(Offices) \cup Permutations(Requests)
=============================================================================

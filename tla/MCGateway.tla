------------------------------ MODULE MCGateway ------------------------------
(* Instances of Gateway for TLC.                                            *)
EXTENDS Gateway, TLC

CONSTANTS q1, q2

TwoRequests == {q1, q2}

\* Requests are interchangeable.
Symmetry == Permutations(TwoRequests)
=============================================================================

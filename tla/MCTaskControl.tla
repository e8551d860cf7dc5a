---------------------------- MODULE MCTaskControl ----------------------------
(* Instances of TaskControl for TLC.                                         *)
EXTENDS TaskControl, TLC

CONSTANTS r1, r2, s1

OneReviewer == {r1}
TwoReviewers == {r1, r2}
NoSweeper == {}
OneSweeper == {s1}
Symmetry == Permutations({r1, r2})
==============================================================================

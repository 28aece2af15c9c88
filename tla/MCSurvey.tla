------------------------------ MODULE MCSurvey ------------------------------
(***************************************************************************)
(* CancelSurvey for TLC: the payments of one user.                         *)
(***************************************************************************)
EXTENDS CancelSurvey, TLC

CONSTANT u1
OneUser == [p \in Payments |-> u1]
Symmetry == Permutations(Payments) \cup Permutations(Runs)
=============================================================================

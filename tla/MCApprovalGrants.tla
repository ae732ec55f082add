--------------------------- MODULE MCApprovalGrants ---------------------------
(* Small instances of ApprovalGrants for TLC.                              *)
EXTENDS ApprovalGrants, TLC

\* Handlers treat requests alike, and no liveness is checked.
RequestSymmetry == Permutations(Requests)
=============================================================================

--------------------------- MODULE MCApprovalGate ---------------------------
(* Instances of ApprovalGate for TLC.                                      *)
EXTENDS ApprovalGate, TLC

(* Tasks are interchangeable, and so are decisions.                        *)
MCSymmetry == Permutations(Tasks) \cup Permutations(Decisions)

=============================================================================

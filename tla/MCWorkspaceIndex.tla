-------------------------- MODULE MCWorkspaceIndex --------------------------
(* Instances of WorkspaceIndex for TLC.                                    *)
EXTENDS WorkspaceIndex, TLC

(* Chunks and rebuild processes are interchangeable.                       *)
MCSymmetry == Permutations(Chunks) \cup Permutations(Rebuilds)
=============================================================================

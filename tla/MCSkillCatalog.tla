--------------------------- MODULE MCSkillCatalog ---------------------------
(***************************************************************************)
(* Model checking of SkillCatalog: commands run one after another or two at*)
(* a time, any of them killed, over skills one of which is enabled.        *)
(***************************************************************************)
EXTENDS SkillCatalog, TLC

Symmetry == Permutations(Commands) \cup Permutations(Contents)
=============================================================================

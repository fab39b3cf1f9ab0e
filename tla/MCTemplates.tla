------------------------------ MODULE MCTemplates ------------------------------
(* Two families of two versions each, two commands on templates that may overlap and
   chains of up to three runs. *)
EXTENDS Templates, TLC

CONSTANTS F, G, r1, r2

MCFamilies == {F, G}
MCRequests == {r1, r2}
MCSymmetry == Permutations(MCFamilies) \cup Permutations(MCRequests)
=============================================================================

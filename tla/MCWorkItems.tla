---------------------------- MODULE MCWorkItems ----------------------------
(* An instance of WorkItems for TLC: a task of any kind, two members of staff and an    *)
(* administrator, two requests under way.                                               *)
EXTENDS WorkItems, TLC

CONSTANTS work, ann, ben, adm, r1, r2

AnyKind  == work :> Kinds
Creators == work :> ann
Swaps    == Permutations({r1, r2})
=============================================================================

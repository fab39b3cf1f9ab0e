----------------------------- MODULE MCApprovals -----------------------------
(* Three step lists that have every step type, mode and target between them, with the users
   and the requests interchangeable. *)
EXTENDS Approvals, TLC

Symmetry == Permutations(Users) \cup Permutations(Requests)

step(type, mode, target) == [type |-> type, mode |-> mode, target |-> target]

MCStepLists ==
    {<<step("approval", "all", 1), step("task", "single", 0)>>,
     <<step("task", "any", 0), step("notify", "single", 0), step("approval", "single", 1)>>,
     <<step("approval", "single", 1), step("notify", "single", 0)>>}
=============================================================================

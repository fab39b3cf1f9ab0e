------------------------------ MODULE MCSchedules ------------------------------
(* Two schedules of different templates in one department, and a command that may run one
   of them beside the job. *)
EXTENDS Schedules

CONSTANTS s1, s2, T, U, D, r1

MCSchedules   == {s1, s2}
MCTemplateIds == {T, U}
MCTemplateOf  == [s \in MCSchedules |-> IF s = s2 THEN U ELSE T]
MCDepartments == {D}
MCScopeOf     == [s \in MCSchedules |-> {D}]
MCRequests    == {r1}
=============================================================================

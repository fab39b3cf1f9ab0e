----------------------------- MODULE MCProjection -----------------------------
(* Two streams about a subject, one of which also has the first row of another one; one
   execution of the rebuild script at a time. *)
EXTENDS Projection

CONSTANTS a, b, s, t, o

MCStreams   == {a, b}
MCSubjects  == {s, t}
MCOperators == {o}
MCEvents    == 1 .. 3
MCStreamOf  == <<a, b, a>>
MCSubjectOf == <<t, s, s>>
=============================================================================

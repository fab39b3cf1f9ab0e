------------------------------ MODULE MCOutbox ------------------------------
(* Overlapping outbox jobs over a deliverable event between one that names no
   recipient and one of an unknown type: one more than a batch. *)
EXTENDS Outbox

MCEvent == {1, 2, 3}
MCIncomplete == {1}
MCUnknown == {3}
=============================================================================

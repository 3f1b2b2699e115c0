--------------------------- MODULE MCPeriodicTask ---------------------------
(* A small instance of PeriodicTask. *)
EXTENDS PeriodicTask

CONSTANTS disc, tcp, none

Tasks == {disc, tcp} \X Round
OwnerOfAll == [t \in Tasks |-> t[1]]
NoRound == <<none, none>>
============================================================================

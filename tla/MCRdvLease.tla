----------------------------- MODULE MCRdvLease -----------------------------
(* Instances of RdvLease for model checking. *)
EXTENDS RdvLease

CONSTANTS c1, c2, r1, r2

OneInView  == <<r1>>
TwoInView  == <<r1, r2>>
OnePlace   == [r \in Rdv |-> 1]
TwoPlaces  == [r \in Rdv |-> 2]
OneAndTwo  == [r \in Rdv |-> IF r = r1 THEN 1 ELSE 2]
============================================================================

--------------------------- MODULE MCTcpConnection ---------------------------
(* Instances of TcpConnection for model checking. *)
EXTENDS TcpConnection

CONSTANTS p1, p2, w1, w2, c1, m1, m2, m3

MCOne   == <<m1>>
MCTwo   == <<m1, m2>>
MCThree == <<m1, m2, m3>>
==============================================================================

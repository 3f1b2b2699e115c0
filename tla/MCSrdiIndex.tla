----------------------------- MODULE MCSrdiIndex ----------------------------
(* Instances of SrdiIndex for model checking. *)
EXTENDS SrdiIndex, TLC

CONSTANTS r1, r2, u, v, a1, a2

AdvSymmetry == Permutations(Adv)

\* u is replicated at r2, v at r1.
AtTheOther == [x \in Val |-> IF x = u THEN r2 ELSE r1]
NoReplicas == [x \in Val |-> None]

\* Each kind of event once, two publish calls.
EachOnce   == [k \in Kinds |-> IF k = "publish" THEN 2 ELSE 1]
\* Three publish calls and one event of the kinds in S.
Only(S)    == [k \in Kinds |-> IF k = "publish" THEN 3 ELSE IF k \in S THEN 1 ELSE 0]
Calls      == Only({})
Flushing   == Only({"flush"})
Leaving    == Only({"leave"})
Lapsing    == Only({"leave", "lapse"})
Crashing   == Only({"crash"})
Restarting == Only({"restart", "flush"})
=============================================================================

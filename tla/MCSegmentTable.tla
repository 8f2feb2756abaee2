--------------------------- MODULE MCSegmentTable ---------------------------
(* Instances of SegmentTable for TLC: the sizes of the sticks, and the symmetry.  *)
EXTENDS SegmentTable, TLC

CONSTANTS s1, s2

TresYUno == [s \in Stick |-> IF s = s1 THEN 3 ELSE 1]
DeADos == [s \in Stick |-> 2]
Simetria == Permutations(Pid)

=============================================================================

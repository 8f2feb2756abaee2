---------------------------- MODULE MCSuspension ----------------------------
(* Instances of Suspension for TLC: equal priorities, and the symmetry of    *)
(* the processes.                                                            *)
EXTENDS Suspension, TLC

MismaPrioridad == [p \in Pid |-> 0]
Simetria == Permutations(Pid)

=============================================================================

---------------------------- MODULE MCDispatcher ----------------------------
(* Instances of Dispatcher for TLC: priorities, and the symmetry of the CPUs. *)
EXTENDS Dispatcher, TLC

CONSTANTS p1, p2

Iguales   == [p \in Pid |-> 0]
Distintas == [p \in Pid |-> IF p = p1 THEN 1 ELSE 0]
Simetria  == Permutations(Cpu)

=============================================================================

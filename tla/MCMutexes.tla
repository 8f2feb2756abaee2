------------------------------ MODULE MCMutexes ------------------------------
(* Instances of Mutexes for TLC: a priority for each process.                 *)
EXTENDS Mutexes, TLC

CONSTANTS p1, p2, p3

Distintas == [p \in Pid |-> IF p = p1 THEN 2 ELSE IF p = p2 THEN 1 ELSE 0]

=============================================================================

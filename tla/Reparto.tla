------------------------------ MODULE Reparto -------------------------------
(***************************************************************************)
(* What the short-term planner of kernel_scheduler promises, with no       *)
(* semaphores, sockets or marks: a free CPU is given the oldest process of *)
(* the best queue that has one, a CPU has one process at a time, and what  *)
(* it had is handed back once.  Module Dispatcher implements it.           *)
(***************************************************************************)
EXTENDS Naturals, Sequences

CONSTANTS Pid, Cpu, CantidadColas, Nadie

VARIABLES
    cola,   \* cola[q]: the processes waiting in queue q, oldest first
    exec    \* exec[c]: the process CPU c has been given and has not handed back

Init ==
    /\ \E p \in Pid, q \in 0 .. CantidadColas - 1 :
          cola = [r \in 0 .. CantidadColas - 1 |-> IF r = q THEN <<p>> ELSE <<>>]
    /\ exec = [c \in Cpu |-> Nadie]

Mejor(q) == cola[q] # <<>> /\ \A r \in 0 .. q - 1 : cola[r] = <<>>

Despacha(c, q) ==
    /\ exec[c] = Nadie
    /\ Mejor(q)
    /\ exec' = [exec EXCEPT ![c] = Head(cola[q])]
    /\ cola' = [cola EXCEPT ![q] = Tail(@)]

Devuelve(c) ==
    /\ exec[c] # Nadie
    /\ exec' = [exec EXCEPT ![c] = Nadie]
    /\ UNCHANGED cola

\* A process that is new, was handed back or was woken.
Encola(p, q) ==
    /\ \A c \in Cpu : exec[c] # p
    /\ \A r \in 0 .. CantidadColas - 1 : \A k \in 1 .. Len(cola[r]) : cola[r][k] # p
    /\ cola' = [cola EXCEPT ![q] = Append(@, p)]
    /\ UNCHANGED exec

Next ==
    \/ \E c \in Cpu : Devuelve(c)
    \/ \E q \in 0 .. CantidadColas - 1 : (\E c \in Cpu : Despacha(c, q)) \/ \E p \in Pid : Encola(p, q)

Spec == Init /\ [][Next]_<<cola, exec>>

=============================================================================

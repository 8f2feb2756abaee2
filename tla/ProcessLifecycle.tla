-------------------------- MODULE ProcessLifecycle --------------------------
(***************************************************************************)
(* What kernel_scheduler promises of a process: the states it logs ("Pasa  *)
(* del estado ... al estado ..."), the passages between them, and that the *)
(* end of an I/O wakes its process exactly once, whether it was suspended  *)
(* meanwhile or not.  Threads, timers, locks and memory do not appear.     *)
(***************************************************************************)
CONSTANT Pid

VARIABLES
    estado,      \* the state of each process
    terminada    \* the processes that sleep although their I/O has ended

vars == <<estado, terminada>>

Estado == {"NEW", "READY", "EXEC", "BLOCK", "SUSP_BLOCK", "SUSP_READY", "ESPERA", "EXIT"}

Init ==
    /\ \E p \in Pid : estado = [q \in Pid |-> IF q = p THEN "READY" ELSE "NEW"]
    /\ terminada = {}

Pasa(p, de, a) == estado[p] = de /\ estado' = [estado EXCEPT ![p] = a]

Crear(p)      == Pasa(p, "NEW", "READY") /\ UNCHANGED terminada
Ejecutar(p)   == Pasa(p, "READY", "EXEC") /\ UNCHANGED terminada
Devolver(p)   == Pasa(p, "EXEC", "READY") /\ UNCHANGED terminada
Finalizar(p)  == Pasa(p, "EXEC", "EXIT") /\ UNCHANGED terminada
Esperar(p)    == Pasa(p, "EXEC", "ESPERA") /\ UNCHANGED terminada
Conseguir(p)  == Pasa(p, "ESPERA", "READY") /\ UNCHANGED terminada
Bloquear(p)   == Pasa(p, "EXEC", "BLOCK") /\ UNCHANGED terminada
Suspender(p)  == Pasa(p, "BLOCK", "SUSP_BLOCK") /\ UNCHANGED terminada
Desuspender(p) == Pasa(p, "SUSP_READY", "READY") /\ UNCHANGED terminada

TerminarIO(p) ==
    /\ estado[p] \in {"BLOCK", "SUSP_BLOCK"}
    /\ p \notin terminada
    /\ terminada' = terminada \cup {p}
    /\ UNCHANGED estado

Despertar(p) ==
    /\ p \in terminada
    /\ Pasa(p, "BLOCK", "READY") \/ Pasa(p, "SUSP_BLOCK", "SUSP_READY")
    /\ terminada' = terminada \ {p}

Next ==
    \E p \in Pid :
        \/ Crear(p) \/ Ejecutar(p) \/ Devolver(p) \/ Finalizar(p)
        \/ Esperar(p) \/ Conseguir(p)
        \/ Bloquear(p) \/ Suspender(p) \/ Desuspender(p)
        \/ TerminarIO(p) \/ Despertar(p)

Spec == Init /\ [][Next]_vars

=============================================================================

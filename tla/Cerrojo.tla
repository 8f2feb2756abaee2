------------------------------- MODULE Cerrojo -------------------------------
(***************************************************************************)
(* What MUTEX_LOCK and MUTEX_UNLOCK promise the programs: a mutex has one  *)
(* owner, and goes from an owner to the first that has been waiting for    *)
(* it; it is free only if nobody waits.  Module Mutexes implements this on *)
(* one CPU.                                                                *)
(***************************************************************************)
EXTENDS Sequences

CONSTANTS Pid, Mutex, Nadie

VARIABLES
    duenio,     \* duenio[m]: who has m, or Nadie
    fila        \* fila[m]: who waits for m, the first to come first

vars == <<duenio, fila>>

EnFila(p, m) == \E k \in DOMAIN fila[m] : fila[m][k] = p
Ocupado(p) == \E m \in Mutex : duenio[m] = p \/ EnFila(p, m)

Init ==
    /\ duenio = [m \in Mutex |-> Nadie]
    /\ fila = [m \in Mutex |-> <<>>]

Toma(p, m) ==
    /\ duenio[m] = Nadie /\ fila[m] = <<>> /\ ~Ocupado(p)
    /\ duenio' = [duenio EXCEPT ![m] = p]
    /\ UNCHANGED fila

Espera(p, m) ==
    /\ duenio[m] # Nadie /\ ~Ocupado(p)
    /\ fila' = [fila EXCEPT ![m] = Append(@, p)]
    /\ UNCHANGED duenio

Suelta(m) ==
    /\ duenio[m] # Nadie
    /\ duenio' = [duenio EXCEPT ![m] = IF fila[m] = <<>> THEN Nadie ELSE Head(fila[m])]
    /\ fila' = [fila EXCEPT ![m] = IF @ = <<>> THEN @ ELSE Tail(@)]

Next == \E m \in Mutex : Suelta(m) \/ \E p \in Pid : Toma(p, m) \/ Espera(p, m)

Spec == Init /\ [][Next]_vars

=============================================================================

--------------------------- MODULE MemoriaContada ---------------------------
(***************************************************************************)
(* kernel_memory as kernel_scheduler sees it, and as module Suspension     *)
(* assumes it: units are granted exactly when enough are free, wherever    *)
(* they are; a process in SWAP holds none, and comes back exactly when     *)
(* what it had fits.  Module SegmentTable implements it.                   *)
(***************************************************************************)
EXTENDS Integers

CONSTANT Pid

VARIABLES
    mem,        \* units of each process, in the sticks or in SWAP
    en_swap,    \* the processes that are in SWAP
    libre,      \* free units
    respuesta   \* the last MEM_ALLOC or SWAP_LECTURA: the units it took, and if they were there

vars == <<mem, en_swap, libre, respuesta>>

Init == mem = [p \in Pid |-> 0] /\ en_swap = {} /\ libre = 0 /\ respuesta = <<0, TRUE>>

\* A Memory Stick connects.
Crece == libre' > libre /\ UNCHANGED <<mem, en_swap, respuesta>>

Pide(p) ==
    LET n == respuesta'[1] IN
    /\ p \notin en_swap
    /\ respuesta' = <<n, n <= libre>>
    /\ IF n <= libre THEN mem' = [mem EXCEPT ![p] = @ + n] /\ libre' = libre - n
                     ELSE UNCHANGED <<mem, libre>>
    /\ UNCHANGED en_swap

Devuelve(p) ==
    /\ p \notin en_swap
    /\ \E k \in 1 .. mem[p] : mem' = [mem EXCEPT ![p] = @ - k] /\ libre' = libre + k
    /\ UNCHANGED <<en_swap, respuesta>>

Suspende(p) ==
    /\ p \notin en_swap
    /\ en_swap' = en_swap \cup {p} /\ libre' = libre + mem[p]
    /\ UNCHANGED <<mem, respuesta>>

\* Of what it had, k units find a hole.
Vuelve(p) ==
    /\ p \in en_swap
    /\ respuesta' = <<mem[p], mem[p] <= libre>>
    /\ IF mem[p] <= libre
       THEN /\ en_swap' = en_swap \ {p}
            /\ \E k \in 0 .. mem[p] : mem' = [mem EXCEPT ![p] = k] /\ libre' = libre - k
       ELSE UNCHANGED <<mem, en_swap, libre>>

Next == Crece \/ \E p \in Pid : Pide(p) \/ Devuelve(p) \/ Suspende(p) \/ Vuelve(p)

Spec == Init /\ [][Next]_vars

=============================================================================

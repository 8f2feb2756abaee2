---------------------------- MODULE SegmentTable ----------------------------
(***************************************************************************)
(* kernel_memory's table of segments (memoria_administrador.c) and the     *)
(* requests that change it (conexiones.c): MEM_ALLOC with its compaction,  *)
(* MEM_FREE, EXIT, the two halves of SWAP, and a Memory Stick that         *)
(* connects.  The list keeps the order of list_add, not that of the        *)
(* addresses, which is what makes it hard.                                 *)
(*                                                                         *)
(* kernel_scheduler sends one request at a time (m_fd_memoria), so they    *)
(* interleave only with the thread of a stick.  m_memoria is held across   *)
(* one step boundary, in compactar_memoria; m_sticks across one, in the    *)
(* connection of a stick.                                                  *)
(*                                                                         *)
(* A name with a suffix _... is a mutant of the definition after it: a bug *)
(* the properties must notice.                                             *)
(***************************************************************************)
EXTENDS Integers, Sequences, FiniteSets

CONSTANTS
    Pid, Id,        \* processes and their segment numbers
    Tam,            \* the sizes asked for
    Stick, Tamanio, \* the Memory Sticks and their sizes
    EnCaliente,     \* sticks may connect after the first request
    Nadie           \* the pid -1 of a hole

ASSUME TamAssumption == Tam \subseteq Nat \ {0} /\ Tamanio \in [Stick -> Nat \ {0}]
ASSUME HuecoAssumption == Nadie \notin Pid \cup Id /\ EnCaliente \in BOOLEAN

VARIABLES
    estrategia,             \* memoria_config.allocation_strategy
    tabla_segmentos_global, \* a sequence of segments, ocupado when pid # Nadie
    memoria_total,
    pc_stick,               \* the thread of each stick
    base_global,            \* where each stick begins
    pedido,                 \* the MEM_ALLOC in course and its step
    segmentos_en_swap,      \* what SWAP has of each process in it: <<id, size>> in order
    respuesta               \* history: units of the last MEM_ALLOC or SWAP_LECTURA, and its answer

tabla == tabla_segmentos_global
sticks == <<memoria_total, pc_stick, base_global>>
vars == <<estrategia, tabla, sticks, pedido, segmentos_en_swap, respuesta>>

Hueco(base, tam) == [pid |-> Nadie, id |-> Nadie, base |-> base, tam |-> tam]
Libre(s) == s.pid = Nadie

\* Parts of the list are sets of positions, and units are counted one by one.
DePid(t, p) == {k \in DOMAIN t : t[k].pid = p}
Libres(t) == {k \in DOMAIN t : Libre(t[k])}
Ocupados(t) == DOMAIN t \ Libres(t)
Suma(tam, K) == Cardinality(UNION {{k} \X (1 .. tam[k]) : k \in K})
SumaTam(t, K) == Suma([k \in DOMAIN t |-> t[k].tam], K)

\* The positions K in the order of the relation R, that of the list or that of the
\* bases (bubble sort leaves equal bases as they were).
EnOrden(K, R) == [i \in 1 .. Cardinality(K) |-> CHOOSE k \in K : Cardinality({j \in K : <<j, k>> \in R}) = i]
PorLista(K) == {e \in K \X K : e[1] <= e[2]}
PorBase(t) == {e \in (DOMAIN t) \X (DOMAIN t) : \/ t[e[1]].base < t[e[2]].base
                                                \/ t[e[1]].base = t[e[2]].base /\ e[1] <= e[2]}
Elige(t, f) == [i \in DOMAIN f |-> t[f[i]]]
Sublista(t, K) == Elige(t, EnOrden(K, PorLista(K)))

\* buscar_hueco_best_fit and buscar_hueco_worst_fit: the first of the best, 0 for NULL.
BuscaHueco(t, n) ==
    LET sirven == {i \in DOMAIN t : Libre(t[i]) /\ t[i].tam >= n}
        antes(i, j) == IF t[i].tam = t[j].tam THEN i <= j
                       ELSE (t[i].tam < t[j].tam) = (estrategia = "BEST")
    IN  IF sirven = {} THEN 0 ELSE CHOOSE i \in sirven : \A j \in sirven : antes(i, j)

\* asignar_memoria on hole k: what is left of it goes to the end of the list.
Asigna_RestoEncima(t, k, p, id, n) ==
    LET h == t[k]
        t1 == [t EXCEPT ![k] = [pid |-> p, id |-> id, base |-> h.base, tam |-> n]]
    IN  IF h.tam > n THEN Append(t1, Hueco(h.base, h.tam - n)) ELSE t1
Asigna(t, k, p, id, n) ==
    LET h == t[k]
        t1 == [t EXCEPT ![k] = [pid |-> p, id |-> id, base |-> h.base, tam |-> n]]
    IN  IF h.tam > n THEN Append(t1, Hueco(h.base + n, h.tam - n)) ELSE t1

\* The two loops of liberar_memoria: sort by base, then merge the holes that touch.
Ordena(t) == Elige(t, EnOrden(DOMAIN t, PorBase(t)))
Junta(r, s) ==
    IF r # <<>> /\ Libre(r[Len(r)]) /\ Libre(s) /\ r[Len(r)].base + r[Len(r)].tam = s.base
    THEN [r EXCEPT ![Len(r)].tam = @ + s.tam]
    ELSE Append(r, s)
Fusiona(t) ==
    LET juntos[n \in 0 .. Len(t)] == IF n = 0 THEN <<>> ELSE Junta(juntos[n - 1], t[n])
    IN  juntos[Len(t)]

Suelta(t, k) == [t EXCEPT ![k] = Hueco(t[k].base, t[k].tam)]
SueltaPid_SoloElPrimero(t, p) ==
    IF DePid(t, p) = {} THEN t ELSE Suelta(t, CHOOSE k \in DePid(t, p) : TRUE)
SueltaPid(t, p) == [k \in DOMAIN t |-> IF t[k].pid = p THEN Hueco(t[k].base, t[k].tam) ELSE t[k]]

\* compactar_memoria: the occupied segments one after the other in the order of the
\* list, and one hole with the rest.
BaseNueva(t, k) == SumaTam(t, {j \in Ocupados(t) : j < k})
Compactada(t) ==
    LET corrida == [k \in DOMAIN t |-> [t[k] EXCEPT !.base = BaseNueva(t, k)]]
        ocupado == SumaTam(t, Ocupados(t))
    IN  Append(Sublista(corrida, Ocupados(t)), Hueco(ocupado, memoria_total - ocupado))

Init ==
    /\ estrategia \in {"BEST", "WORST"}
    /\ tabla_segmentos_global = <<>>
    /\ memoria_total = 0
    /\ pc_stick = [s \in Stick |-> "fuera"] /\ base_global = [s \in Stick |-> 0]
    /\ pedido = Nadie
    /\ segmentos_en_swap = <<>>
    /\ respuesta = <<0, TRUE>>

-----------------------------------------------------------------------------
(* A Memory Stick connects.                                                 *)

SticksTomado == \E s \in Stick : pc_stick[s] = "en_sticks"
MemoriaTomada == pedido # Nadie /\ pedido.paso = "moviendo"

LlegaStick(s) ==
    /\ pc_stick[s] = "fuera"
    /\ ~SticksTomado
    /\ base_global' = [base_global EXCEPT ![s] = memoria_total]
    /\ memoria_total' = memoria_total + Tamanio[s]
    /\ pc_stick' = [pc_stick EXCEPT ![s] = "en_sticks"]
    /\ UNCHANGED <<estrategia, tabla, pedido, segmentos_en_swap, respuesta>>

\* With m_sticks held, m_memoria: the last of the LIST grows if it is a hole.
ActualizaHueco_DosVeces(s) ==
    /\ pc_stick[s] = "en_sticks"
    /\ ~MemoriaTomada
    /\ tabla_segmentos_global' = IF tabla # <<>> /\ Libre(tabla[Len(tabla)])
                THEN [tabla EXCEPT ![Len(tabla)].tam = @ + 2 * Tamanio[s]]
                ELSE Append(tabla, Hueco(base_global[s], 2 * Tamanio[s]))
    /\ pc_stick' = [pc_stick EXCEPT ![s] = "dentro"]
    /\ UNCHANGED <<estrategia, memoria_total, base_global, pedido, segmentos_en_swap, respuesta>>
ActualizaHueco(s) ==
    /\ pc_stick[s] = "en_sticks"
    /\ ~MemoriaTomada
    /\ tabla_segmentos_global' = IF tabla # <<>> /\ Libre(tabla[Len(tabla)])
                THEN [tabla EXCEPT ![Len(tabla)].tam = @ + Tamanio[s]]
                ELSE Append(tabla, Hueco(base_global[s], Tamanio[s]))
    /\ pc_stick' = [pc_stick EXCEPT ![s] = "dentro"]
    /\ UNCHANGED <<estrategia, memoria_total, base_global, pedido, segmentos_en_swap, respuesta>>

-----------------------------------------------------------------------------
(* The requests of the scheduler, one at a time.                            *)

Atiende == pedido = Nadie /\ (EnCaliente \/ \A s \in Stick : pc_stick[s] = "dentro")
EnSwap(p) == p \in DOMAIN segmentos_en_swap

\* A hole is found, or the scheduler is asked to let compact.
MemAlloc(p, id, n) ==
    /\ Atiende /\ ~EnSwap(p)
    /\ LET k == BuscaHueco(tabla, n) IN
         IF k # 0
         THEN /\ tabla_segmentos_global' = Asigna(tabla, k, p, id, n)
              /\ respuesta' = <<n, TRUE>>
              /\ UNCHANGED pedido
         ELSE /\ pedido' = [paso |-> "compactar", pid |-> p, id |-> id, tam |-> n]
              /\ UNCHANGED <<tabla, respuesta>>
    /\ UNCHANGED <<estrategia, sticks, segmentos_en_swap>>

\* After the compaction delay, pthread_mutex_lock(&m_memoria).
EmpiezaCompactacion ==
    /\ pedido # Nadie /\ pedido.paso = "compactar"
    /\ pedido' = [pedido EXCEPT !.paso = "moviendo"]
    /\ UNCHANGED <<estrategia, tabla, sticks, segmentos_en_swap, respuesta>>

HayQueMover == \E k \in Ocupados(tabla) : tabla[k].base # BaseNueva(tabla, k)

\* leer_de_sticks and escribir_en_sticks lock m_sticks for each segment that moves.
Compacta ==
    /\ MemoriaTomada
    /\ HayQueMover => ~SticksTomado
    /\ tabla_segmentos_global' = Compactada(tabla)
    /\ pedido' = [pedido EXCEPT !.paso = "reasignar"]
    /\ UNCHANGED <<estrategia, sticks, segmentos_en_swap, respuesta>>

Reasigna ==
    /\ pedido # Nadie /\ pedido.paso = "reasignar"
    /\ LET k == BuscaHueco(tabla, pedido.tam) IN
         /\ tabla_segmentos_global' = IF k = 0 THEN tabla
                                      ELSE Asigna(tabla, k, pedido.pid, pedido.id, pedido.tam)
         /\ respuesta' = <<pedido.tam, k # 0>>
    /\ pedido' = Nadie
    /\ UNCHANGED <<estrategia, sticks, segmentos_en_swap>>

\* The first segment with this pid and id, if any; the sort and the merge run anyway.
MemFree(p, id) ==
    /\ Atiende /\ ~EnSwap(p)
    /\ LET suyos == {k \in DOMAIN tabla : tabla[k].pid = p /\ tabla[k].id = id}
           suelta == IF suyos = {} THEN tabla
                     ELSE Suelta(tabla, CHOOSE k \in suyos : \A j \in suyos : k <= j)
       IN  tabla_segmentos_global' = Fusiona(Ordena(suelta))
    /\ UNCHANGED <<estrategia, sticks, pedido, segmentos_en_swap, respuesta>>

\* EXIT: liberar_todos_segmentos_pid neither sorts nor merges.
LiberaTodos(p) ==
    /\ Atiende /\ ~EnSwap(p)
    /\ tabla_segmentos_global' = SueltaPid(tabla, p)
    /\ UNCHANGED <<estrategia, sticks, pedido, segmentos_en_swap, respuesta>>

\* SWAP_ESCRITURA reads each segment of the process with leer_de_sticks, which locks
\* m_sticks, and makes a hole of it; the entry of the dictionary is there even if empty.
SwapEscritura_SinSoltar(p) ==
    /\ Atiende /\ ~EnSwap(p) /\ (DePid(tabla, p) # {} => ~SticksTomado)
    /\ segmentos_en_swap' = [q \in DOMAIN segmentos_en_swap \cup {p} |->
            IF q = p THEN Sublista(tabla, DePid(tabla, p)) ELSE segmentos_en_swap[q]]
    /\ UNCHANGED <<estrategia, tabla, sticks, pedido, respuesta>>
SwapEscritura(p) ==
    /\ Atiende /\ ~EnSwap(p) /\ (DePid(tabla, p) # {} => ~SticksTomado)
    /\ segmentos_en_swap' = [q \in DOMAIN segmentos_en_swap \cup {p} |->
            IF q = p THEN Sublista(tabla, DePid(tabla, p)) ELSE segmentos_en_swap[q]]
    /\ tabla_segmentos_global' = SueltaPid(tabla, p)
    /\ UNCHANGED <<estrategia, sticks, pedido, respuesta>>

\* The total is enough, so each segment is given a hole if one of its own is: the
\* 999999 of asignar_memoria is only not written to.  (SWAP_LECTURA of a process
\* without an entry answers 1 and changes nothing.)
Restaura(t, s) ==
    LET k == BuscaHueco(t, s.tam) IN IF k = 0 THEN t ELSE Asigna(t, k, s.pid, s.id, s.tam)

Restauradas(t, suyos) ==
    LET con[n \in 0 .. Len(suyos)] == IF n = 0 THEN t ELSE Restaura(con[n - 1], suyos[n])
    IN  con[Len(suyos)]

SwapLectura(p) ==
    /\ Atiende /\ EnSwap(p) /\ (segmentos_en_swap[p] # <<>> => ~SticksTomado)
    /\ LET suyos == segmentos_en_swap[p]
           total == SumaTam(suyos, DOMAIN suyos)
           entra == total <= SumaTam(tabla, Libres(tabla))
       IN  /\ respuesta' = <<total, entra>>
           /\ IF entra
              THEN /\ tabla_segmentos_global' = Restauradas(tabla, suyos)
                   /\ segmentos_en_swap' = [q \in DOMAIN segmentos_en_swap \ {p} |-> segmentos_en_swap[q]]
              ELSE UNCHANGED <<tabla, segmentos_en_swap>>
    /\ UNCHANGED <<estrategia, sticks, pedido>>

-----------------------------------------------------------------------------

Compactacion == EmpiezaCompactacion \/ Compacta \/ Reasigna

Next ==
    \/ \E s \in Stick : LlegaStick(s) \/ ActualizaHueco(s)
    \/ \E p \in Pid : \/ LiberaTodos(p) \/ SwapEscritura(p) \/ SwapLectura(p)
                      \/ \E id \in Id : MemFree(p, id) \/ \E n \in Tam : MemAlloc(p, id, n)
    \/ Compactacion

Spec == Init /\ [][Next]_vars

\* The thread of a stick and the one that serves the scheduler keep running.
FairSpec == Spec /\ WF_vars(Compactacion) /\ \A s \in Stick : WF_vars(ActualizaHueco(s))

-----------------------------------------------------------------------------

Segmento == [pid : Pid \cup {Nadie}, id : Id \cup {Nadie}, base : 0 .. memoria_total, tam : 0 .. memoria_total]
DeProceso(p) == [pid : {p}, id : Id, base : 0 .. memoria_total, tam : 1 .. memoria_total]

TypeOK ==
    /\ estrategia \in {"BEST", "WORST"}
    /\ memoria_total \in Nat
    /\ tabla \in Seq(Segmento)
    /\ pc_stick \in [Stick -> {"fuera", "en_sticks", "dentro"}]
    /\ base_global \in [Stick -> 0 .. memoria_total]
    /\ pedido = Nadie \/ pedido \in [paso : {"compactar", "moviendo", "reasignar"}, pid : Pid, id : Id, tam : Tam]
    /\ DOMAIN segmentos_en_swap \subseteq Pid
    /\ \A p \in DOMAIN segmentos_en_swap : segmentos_en_swap[p] \in Seq(DeProceso(p))
    /\ respuesta \in Nat \X BOOLEAN

Direcciones(s) == s.base .. s.base + s.tam - 1
EnTabla == Suma(Tamanio, {s \in Stick : pc_stick[s] = "dentro"})

\* The table divides the memory of the sticks: every address belongs to one segment or
\* hole and to no two, however the list was split, merged, reordered and compacted.
Particion ==
    /\ UNION {Direcciones(tabla[k]) : k \in DOMAIN tabla} = 0 .. EnTabla - 1
    /\ \A j, k \in DOMAIN tabla : j # k => Direcciones(tabla[j]) \cap Direcciones(tabla[k]) = {}

Cuenta == INSTANCE MemoriaContada WITH
    mem <- [p \in Pid |-> IF EnSwap(p) THEN SumaTam(segmentos_en_swap[p], DOMAIN segmentos_en_swap[p])
                          ELSE SumaTam(tabla, DePid(tabla, p))],
    en_swap <- DOMAIN segmentos_en_swap,
    libre <- SumaTam(tabla, Libres(tabla))

\* Seen by the number of units alone kernel_memory is what module Suspension assumes:
\* fragmentation never makes a MEM_ALLOC fail that the free units could serve, and
\* what a process had is free again when it exits or is swapped out.
CumpleCuenta == Cuenta!Spec

(* What a comment of the code says and a run refutes *)

\* "Crear/actualizar el hueco libre en la tabla de segmentos": the thread of a stick
\* that has registered it gets to the table.
StickLlegaALaTabla == \A s \in Stick : pc_stick[s] = "en_sticks" ~> pc_stick[s] = "dentro"

=============================================================================

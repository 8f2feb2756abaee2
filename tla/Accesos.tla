------------------------------- MODULE Accesos -------------------------------
(***************************************************************************)
(* The way of a program's access to memory: the MMU of its CPU             *)
(* (cpu/instrucciones.c), which translates with the bases in the PCB;      *)
(* kernel_memory, which reads and writes by physical address               *)
(* (memoria_core.c, leer_de_sticks, escribir_en_sticks); the sticks; and   *)
(* the SWAP, where the segments of a suspended process go and come back,   *)
(* perhaps to another base (kernel_memory/conexiones.c, swap/main.c).      *)
(*                                                                         *)
(* Which hole a segment gets, the fits and the compaction are in           *)
(* SegmentTable: here a segment gets any free range, a request that would  *)
(* need a compaction is not made, a return from SWAP may find no hole, and *)
(* of two segments of a process with one id MEM_FREE may free either: the  *)
(* order of kernel_memory's list decides, the age in the PCB's.            *)
(* The states of a process are those of Suspension, fewer: "ACTIVO" is     *)
(* ready or in a CPU, "GUARDA" its SWAP_ESCRITURA, "VUELVE" its            *)
(* SWAP_LECTURA, "MANO" the thread that writes what STDIN read, "SALE" an  *)
(* EXIT or SEG_FAULT not yet served.                                       *)
(*                                                                         *)
(* A name with a suffix _... is a mutant of the definition after it.       *)
(***************************************************************************)
EXTENDS Integers, Sequences, FiniteSets

CONSTANTS
    Pid,
    Id,              \* the segment ids programs name
    Valor,           \* what a byte may hold; 0 is what calloc leaves
    TamMax,          \* SEGMENT_MAX_SIZE
    Stick, tam_stick, base_global, memoria_total,
    Bloque,          \* swap_block_size
    Palabra,         \* 2^32: the sum of the MMU is one of uint32_t
    Pedidos,         \* what programs ask for in MEM_ALLOC: <<id, size>>
    Tramos,          \* the sizes of their accesses (a register, COPY_MEM, STDIN, STDOUT)
    MaxInstrucciones, \* bound: the instructions the programs execute in all before their EXIT
    MaxBloques,      \* bound: no suspension begins once so many blocks of SWAP are taken
                     \* (the code checks none)
    SuspensionCorta, \* SUSPENSION_TIMEOUT may pass before the text of STDOUT is read
    Nadie

Direccion == 0 .. memoria_total - 1
EnStick(s, a) == a >= base_global[s] /\ a < base_global[s] + tam_stick[s]

ASSUME TamanioAssumption ==
    /\ TamMax \in Nat \ {0} /\ Bloque \in Nat \ {0} /\ Palabra \in Nat
    /\ Id \subseteq Nat /\ 0 \in Valor
    /\ Pedidos \subseteq Id \X (1 .. TamMax)
    \* the sum of the MMU does not wrap
    /\ Tramos \subseteq 1 .. Palabra - TamMax
    /\ MaxInstrucciones \in Nat /\ MaxBloques \in Nat
ASSUME StickAssumption ==
    /\ memoria_total \in Nat
    /\ tam_stick \in [Stick -> Nat] /\ base_global \in [Stick -> Nat]
    /\ \A s \in Stick : base_global[s] + tam_stick[s] <= memoria_total
    /\ \A a \in Direccion : \E s \in Stick : EnStick(s, a)
    /\ \A s, t \in Stick : \A a \in Direccion : EnStick(s, a) /\ EnStick(t, a) => s = t
ASSUME NadieAssumption == Nadie \notin Pid
ASSUME CasosAssumption == SuspensionCorta \in BOOLEAN

VARIABLES
    estado,
    pcb,                 \* pcb[p]: tabla_segmentos of its PCB, the oldest first
    restan,
    pedido,              \* pedido[p]: the access p waits for
    leido,               \* leido[p]: what the last access of p read
    m_fd_memoria,        \* the process whose SWAP request has the scheduler's link, or Nadie
    tabla,               \* tabla_segmentos_global: what is in use, by pid and number
    espacio_memoria,     \* the bytes of each stick
    segmentos_en_swap, proximo_bloque_swap,
    archivo_swap         \* the blocks of the file that have been written

swap == <<segmentos_en_swap, proximo_bloque_swap, archivo_swap>>
vars == <<estado, pcb, restan, pedido, leido, m_fd_memoria, tabla, espacio_memoria, swap>>

\* A number tells segments apart that have one id: it is that of their MEM_ALLOC.  The
\* code has none, and no guard reads it.
Nro == 1 .. MaxInstrucciones

Estado == {"ACTIVO", "SALE", "BLOCK", "MANO", "GUARDA", "SUSP", "VUELVE", "FIN"}
Lectura == {"leer", "copiar", "stdout"}
Escritura == {"escribir", "stdin"}
\* al_dia, which no guard reads, remembers whether the bases were those of tabla.
Peticion(op, dir, tam, destino, datos, al_dia) ==
    [op |-> op, dir |-> dir, tam |-> tam, destino |-> destino, datos |-> datos, al_dia |-> al_dia]
Ninguno == Peticion("ninguno", 0, 0, 0, <<>>, TRUE)
EnEspera == Peticion("espera", 0, 0, 0, <<>>, TRUE)

Pone(p, e) == estado' = [estado EXCEPT ![p] = e]
Pide(p, r) == pedido' = [pedido EXCEPT ![p] = r]

Init ==
    /\ estado = [p \in Pid |-> "ACTIVO"]
    /\ pcb = [p \in Pid |-> <<>>] /\ restan = MaxInstrucciones
    /\ pedido = [p \in Pid |-> Ninguno] /\ leido = [p \in Pid |-> <<>>]
    /\ m_fd_memoria = Nadie
    /\ tabla = <<>>
    /\ espacio_memoria = [s \in Stick |-> [k \in 0 .. tam_stick[s] - 1 |-> 0]]
    /\ segmentos_en_swap = [p \in Pid |-> <<>>] /\ proximo_bloque_swap = 0
    /\ archivo_swap = <<>>

-----------------------------------------------------------------------------
(* The sticks: leer_de_sticks and escribir_en_sticks split a range where a  *)
(* stick ends; m_sticks makes each of them one step.                        *)

buscar_stick(a) == CHOOSE s \in Stick : EnStick(s, a)
Local(a) == a - base_global[buscar_stick(a)]

Byte(a) == espacio_memoria[buscar_stick(a)][Local(a)]
leer_de_sticks(dir, n) == [k \in 1 .. n |-> Byte(dir + k - 1)]
escribir_en_sticks_SinAvanzar(dir, datos) ==
    espacio_memoria' = [s \in Stick |-> [k \in DOMAIN espacio_memoria[s] |->
        LET i == base_global[s] + k - dir + 1
        IN  IF i \notin DOMAIN datos THEN espacio_memoria[s][k]
            ELSE IF dir < base_global[s] THEN datos[k + 1] ELSE datos[i]]]
escribir_en_sticks(dir, datos) ==
    espacio_memoria' = [s \in Stick |-> [k \in DOMAIN espacio_memoria[s] |->
        LET i == base_global[s] + k - dir + 1
        IN  IF i \in DOMAIN datos THEN datos[i] ELSE espacio_memoria[s][k]]]

-----------------------------------------------------------------------------
(* The table of segments.                                                   *)

Ocupa(p, n) == tabla[<<p, n>>].base .. tabla[<<p, n>>].base + tabla[<<p, n>>].tamanio - 1
Libres == Direccion \ UNION {Ocupa(k[1], k[2]) : k \in DOMAIN tabla}
Hueco(b, t) == b .. b + t - 1 \subseteq Libres
Agrega(f, k, v) == [i \in DOMAIN f \cup {k} |-> IF i = k THEN v ELSE f[i]]
Quita(f, K) == [i \in DOMAIN f \ K |-> f[i]]
DePid(p) == {k \in DOMAIN tabla : k[1] = p}

\* Both MEM_FREE and the MMU take the first of the PCB's list that has the id.
Con(p, id) == {i \in DOMAIN pcb[p] : pcb[p][i].id = id}
Primero(p, id) == CHOOSE i \in Con(p, id) : \A j \in Con(p, id) : i <= j
Sin(s, i) == [j \in 1 .. Len(s) - 1 |-> IF j < i THEN s[j] ELSE s[j + 1]]

-----------------------------------------------------------------------------
(* The program and its CPU.                                                 *)

SegFault == -1

traducir_direccion_mmu_SinTope(p, dir, n) ==
    LET id == dir \div TamMax
    IN  IF Con(p, id) # {} THEN pcb[p][Primero(p, id)].base + (dir % TamMax) ELSE SegFault
traducir_direccion_mmu(p, dir, n) ==
    LET id == dir \div TamMax
        desplazamiento == dir % TamMax
        seg == pcb[p][Primero(p, id)]
    IN  IF Con(p, id) # {} /\ (desplazamiento + n) % Palabra <= seg.tamanio
        THEN seg.base + desplazamiento
        ELSE SegFault
\* The segment the MMU takes for dir is where kernel_memory has it.
AlDia(p, dir) == \E k \in DePid(p) : tabla[k] = pcb[p][Primero(p, dir \div TamMax)]

Logica == UNION {id * TamMax .. (id + 1) * TamMax - 1 : id \in Id}

Instruye(p) ==
    /\ estado[p] = "ACTIVO" /\ pedido[p] = Ninguno
    /\ restan > 0 /\ restan' = restan - 1

\* An instruction that names memory: the request it ends in, or SEG_FAULT.
Accede_SinSegFault(p, dirs, nuevo, donde) ==
    /\ Instruye(p)
    /\ Pone(p, donde) /\ Pide(p, nuevo)
    /\ UNCHANGED <<pcb, leido, m_fd_memoria, tabla, espacio_memoria, swap>>
Accede(p, dirs, nuevo, donde) ==
    /\ Instruye(p)
    /\ IF SegFault \in dirs THEN Pone(p, "SALE") /\ UNCHANGED pedido
                            ELSE Pone(p, donde) /\ Pide(p, nuevo)
    /\ UNCHANGED <<pcb, leido, m_fd_memoria, tabla, espacio_memoria, swap>>

MovIn(p, dir, n) ==
    LET f == traducir_direccion_mmu(p, dir, n)
    IN  Accede(p, {f}, Peticion("leer", f, n, 0, <<>>, AlDia(p, dir)), "ACTIVO")

MovOut(p, dir, n, v) ==
    LET f == traducir_direccion_mmu(p, dir, n)
    IN  Accede(p, {f}, Peticion("escribir", f, n, 0, [k \in 1 .. n |-> v], AlDia(p, dir)), "ACTIVO")

CopyMem(p, si, di, n) ==
    LET f == traducir_direccion_mmu(p, si, n)
        g == traducir_direccion_mmu(p, di, n)
    IN  Accede(p, {f, g}, Peticion("copiar", f, n, g, <<>>, AlDia(p, si) /\ AlDia(p, di)), "ACTIVO")

\* Translated by gestionar_desalojo; the scheduler puts the process in cola_block and
\* starts its timer before it reads the text or asks the interface.
LlamaIO(p, op, dir, n) ==
    LET f == traducir_direccion_mmu(p, dir, n)
    IN  Accede(p, {f}, Peticion(op, f, n, 0, <<>>, AlDia(p, dir)), "BLOCK")

Duerme(p) ==
    /\ Instruye(p) /\ Pone(p, "BLOCK")
    /\ Pide(p, EnEspera)
    /\ UNCHANGED <<pcb, leido, m_fd_memoria, tabla, espacio_memoria, swap>>

Exit(p) ==
    /\ estado[p] = "ACTIVO" /\ pedido[p] = Ninguno /\ Pone(p, "SALE")
    /\ UNCHANGED <<pcb, restan, pedido, leido, m_fd_memoria, tabla, espacio_memoria, swap>>

-----------------------------------------------------------------------------
(* kernel_memory serves the CPU and the scheduler.                          *)

\* STDOUT is read through the scheduler's link; COPY_MEM goes on to its write.
Lee(p) ==
    LET r == pedido[p]
        bytes == leer_de_sticks(r.dir, r.tam)
    IN  /\ r.op \in Lectura
        /\ r.op = "stdout" => m_fd_memoria = Nadie
        /\ leido' = [leido EXCEPT ![p] = bytes]
        /\ Pide(p, CASE r.op = "leer" -> Ninguno
                     [] r.op = "stdout" -> EnEspera
                     [] r.op = "copiar" -> Peticion("escribir", r.destino, r.tam, 0, bytes, r.al_dia))
        /\ UNCHANGED <<estado, pcb, restan, m_fd_memoria, tabla, espacio_memoria, swap>>

\* MOV_OUT and COPY_MEM; or the thread of STDIN, which then wakes the process.
Escribe(p) ==
    /\ pedido[p].op = "escribir"
    /\ estado[p] = "MANO" => m_fd_memoria = Nadie
    /\ escribir_en_sticks(pedido[p].dir, pedido[p].datos)
    /\ Pide(p, Ninguno)
    /\ estado' = [estado EXCEPT ![p] = IF @ = "MANO" THEN "ACTIVO" ELSE @]
    /\ UNCHANGED <<pcb, restan, leido, m_fd_memoria, tabla, swap>>

\* An id that is in use is as good as another.
MemAlloc(p, id, t, b) ==
    LET seg == [id |-> id, base |-> b, tamanio |-> t]
    IN  /\ Instruye(p) /\ m_fd_memoria = Nadie
        /\ Hueco(b, t)
        /\ tabla' = Agrega(tabla, <<p, restan>>, seg)
        /\ pcb' = [pcb EXCEPT ![p] = Append(@, seg)]
        /\ UNCHANGED <<estado, pedido, leido, m_fd_memoria, espacio_memoria, swap>>

\* One segment with the id leaves the table, and one the PCB, if there are.
MemFree(p, id) ==
    LET suyos == {k \in DePid(p) : tabla[k].id = id}
    IN  /\ Instruye(p) /\ m_fd_memoria = Nadie
        /\ \/ suyos = {} /\ UNCHANGED tabla
           \/ \E k \in suyos : tabla' = Quita(tabla, {k})
        /\ pcb' = [pcb EXCEPT ![p] = IF Con(p, id) = {} THEN @ ELSE Sin(@, Primero(p, id))]
        /\ UNCHANGED <<estado, pedido, leido, m_fd_memoria, espacio_memoria, swap>>

Sale(p) ==
    /\ estado[p] = "SALE" /\ m_fd_memoria = Nadie
    /\ tabla' = Quita(tabla, DePid(p))
    /\ Pone(p, "FIN")
    /\ UNCHANGED <<pcb, restan, pedido, leido, m_fd_memoria, espacio_memoria, swap>>

-----------------------------------------------------------------------------
(* The end of an I/O.                                                       *)

FinIO(p) ==
    /\ pedido[p].op = "espera"
    /\ Pide(p, Ninguno)
    /\ estado' = [estado EXCEPT ![p] = IF @ = "BLOCK" THEN "ACTIVO" ELSE @]
    /\ UNCHANGED <<pcb, restan, leido, m_fd_memoria, tabla, espacio_memoria, swap>>

\* What was typed is written only if the process was still in cola_block.
FinStdin(p, v) ==
    /\ pedido[p].op = "stdin"
    /\ IF estado[p] = "BLOCK"
       THEN Pone(p, "MANO") /\ Pide(p, Peticion("escribir", pedido[p].dir, pedido[p].tam, 0,
                                           [k \in 1 .. pedido[p].tam |-> v], pedido[p].al_dia))
       ELSE Pide(p, Ninguno) /\ UNCHANGED estado
    /\ UNCHANGED <<pcb, restan, leido, m_fd_memoria, tabla, espacio_memoria, swap>>

-----------------------------------------------------------------------------
(* Suspension: segments go to SWAP one by one and come back one by one, in  *)
(* blocks; the last one is padded with zeros.                               *)

Bloques_Redondea(t) == t \div Bloque
Bloques(t) == (t + Bloque - 1) \div Bloque

Suspende(p) ==
    /\ estado[p] = "BLOCK" /\ (pedido[p].op # "stdout" \/ SuspensionCorta)
    /\ proximo_bloque_swap < MaxBloques
    /\ Pone(p, "GUARDA")
    /\ UNCHANGED <<pcb, restan, pedido, leido, m_fd_memoria, tabla, espacio_memoria, swap>>

GuardaSegmento(p, n) ==
    /\ estado[p] = "GUARDA" /\ m_fd_memoria \in {Nadie, p}
    /\ <<p, n>> \in DOMAIN tabla
    /\ LET seg == tabla[<<p, n>>]
           b0 == proximo_bloque_swap
           cant == Bloques(seg.tamanio)
       IN  /\ segmentos_en_swap' = [segmentos_en_swap EXCEPT ![p] =
                  Append(@, [nro |-> n, id |-> seg.id, tamanio |-> seg.tamanio, inicio |-> b0, cant |-> cant])]
           /\ archivo_swap' = [b \in 0 .. b0 + cant - 1 |->
                  IF b < b0 THEN archivo_swap[b]
                  ELSE [o \in 0 .. Bloque - 1 |->
                           LET k == (b - b0) * Bloque + o
                           IN  IF k < seg.tamanio THEN Byte(seg.base + k) ELSE 0]]
           /\ proximo_bloque_swap' = b0 + cant
    /\ tabla' = Quita(tabla, {<<p, n>>})
    /\ m_fd_memoria' = p
    /\ UNCHANGED <<estado, pcb, restan, pedido, leido, espacio_memoria>>

TerminaGuardar(p) ==
    /\ estado[p] = "GUARDA" /\ m_fd_memoria \in {Nadie, p} /\ DePid(p) = {}
    /\ Pone(p, "SUSP") /\ m_fd_memoria' = Nadie
    /\ UNCHANGED <<pcb, restan, pedido, leido, tabla, espacio_memoria, swap>>

\* Only the total is compared.
Cabe(p) ==
    LET lista == segmentos_en_swap[p]
    IN  Cardinality({u \in (DOMAIN lista) \X (1 .. TamMax) : u[2] <= lista[u[1]].tamanio}) <= Cardinality(Libres)

Desuspende(p) ==
    /\ estado[p] = "SUSP" /\ pedido[p] = Ninguno /\ m_fd_memoria = Nadie /\ Cabe(p)
    /\ Pone(p, "VUELVE") /\ m_fd_memoria' = p
    /\ UNCHANGED <<pcb, restan, pedido, leido, tabla, espacio_memoria, swap>>

DeSwap(e, k) == archivo_swap[e.inicio + k \div Bloque][k % Bloque]

\* A segment that finds no hole is skipped.  The scheduler is not told the new base.
RestauraSegmento(p) ==
    /\ estado[p] = "VUELVE" /\ segmentos_en_swap[p] # <<>>
    /\ LET e == Head(segmentos_en_swap[p]) IN
         \/ UNCHANGED <<tabla, espacio_memoria>>
         \/ \E b \in Direccion :
              /\ Hueco(b, e.tamanio)
              /\ tabla' = Agrega(tabla, <<p, e.nro>>, [id |-> e.id, base |-> b, tamanio |-> e.tamanio])
              /\ escribir_en_sticks(b, [k \in 1 .. e.tamanio |-> DeSwap(e, k - 1)])
    /\ segmentos_en_swap' = [segmentos_en_swap EXCEPT ![p] = Tail(@)]
    /\ UNCHANGED <<estado, pcb, restan, pedido, leido, m_fd_memoria, proximo_bloque_swap, archivo_swap>>

TerminaVolver(p) ==
    /\ estado[p] = "VUELVE" /\ segmentos_en_swap[p] = <<>>
    /\ Pone(p, "ACTIVO") /\ m_fd_memoria' = Nadie
    /\ UNCHANGED <<pcb, restan, pedido, leido, tabla, espacio_memoria, swap>>

-----------------------------------------------------------------------------

Instruccion(p) ==
    \/ Duerme(p) \/ Exit(p)
    \/ \E n \in Tramos, dir \in Logica :
         \/ MovIn(p, dir, n)
         \/ \E v \in Valor : MovOut(p, dir, n, v)
         \/ \E di \in Logica : CopyMem(p, dir, di, n)
         \/ \E op \in {"stdin", "stdout"} : LlamaIO(p, op, dir, n)
Memoria(p) ==
    \/ Lee(p) \/ Escribe(p) \/ Sale(p)
    \/ \E id \in Id : MemFree(p, id)
    \/ \E r \in Pedidos, b \in Direccion : MemAlloc(p, r[1], r[2], b)
Suspension(p) ==
    \/ FinIO(p) \/ \E v \in Valor : FinStdin(p, v)
    \/ Suspende(p) \/ TerminaGuardar(p) \/ \E n \in Nro : GuardaSegmento(p, n)
    \/ Desuspende(p) \/ RestauraSegmento(p) \/ TerminaVolver(p)

Fin == (\A p \in Pid : estado[p] = "FIN") /\ UNCHANGED vars

Next == Fin \/ \E p \in Pid : Instruccion(p) \/ Memoria(p) \/ Suspension(p)

Spec == Init /\ [][Next]_vars

-----------------------------------------------------------------------------

Segmento == [id : Id, base : Nat, tamanio : 1 .. TamMax]
EntradaSwap == [nro : Nro, id : Id, tamanio : 1 .. TamMax, inicio : Nat, cant : Nat]
Parcial(f, S, T) == f \in [DOMAIN f -> T] /\ DOMAIN f \subseteq S
Pedido == [op : Lectura \cup Escritura \cup {"ninguno", "espera"},
           dir : Nat, tam : Nat, destino : Nat, datos : Seq(Valor), al_dia : BOOLEAN]

TypeOK ==
    /\ estado \in [Pid -> Estado]
    /\ pcb \in [Pid -> Seq(Segmento)]
    /\ restan \in 0 .. MaxInstrucciones
    /\ pedido \in [Pid -> Pedido]
    /\ leido \in [Pid -> Seq(Valor)]
    /\ m_fd_memoria \in Pid \cup {Nadie}
    /\ Parcial(tabla, Pid \X Nro, Segmento)
    /\ DOMAIN espacio_memoria = Stick
    /\ \A s \in Stick : espacio_memoria[s] \in [0 .. tam_stick[s] - 1 -> Valor]
    /\ segmentos_en_swap \in [Pid -> Seq(EntradaSwap)]
    /\ proximo_bloque_swap \in Nat
    /\ archivo_swap \in [0 .. proximo_bloque_swap - 1 -> [0 .. Bloque - 1 -> Valor]]

\* The ranges the request of p will read or write, if it is served.
Tramo(dir, n) == dir .. dir + n - 1
AServir(p) ==
    LET r == pedido[p]
    IN  (IF r.op \in Lectura \cup {"escribir"} \/ (r.op = "stdin" /\ estado[p] = "BLOCK")
         THEN Tramo(r.dir, r.tam) ELSE {})
        \cup (IF r.op = "copiar" THEN Tramo(r.destino, r.tam) ELSE {})

\* An access that the MMU let through is inside the segments of its process when
\* kernel_memory serves it: "si todo estuvo bien, calculamos la dirección física final"
\* (cpu/instrucciones.c); kernel_memory checks nothing.
Propio(p) == UNION {Ocupa(k[1], k[2]) : k \in DePid(p)}
AccesoPropio == \A p \in Pid : AServir(p) \subseteq Propio(p)

\* So is one whose bases were right when the MMU used them, however much later it is
\* served: after the other half of a COPY_MEM, a keyboard's answer or a timer.
AccesoVigente == \A p \in Pid : pedido[p].al_dia => AServir(p) \subseteq Propio(p)

\* A block of the SWAP file is of one segment, and a segment has all the blocks it needs.
DeBloques(e) == e.inicio .. e.inicio + e.cant - 1
BloquesPropios ==
    \A p, q \in Pid : \A i \in DOMAIN segmentos_en_swap[p], j \in DOMAIN segmentos_en_swap[q] :
        LET e == segmentos_en_swap[p][i]
            f == segmentos_en_swap[q][j]
        IN  /\ e.tamanio <= e.cant * Bloque /\ e.inicio + e.cant <= proximo_bloque_swap
            /\ <<p, i>> # <<q, j>> => DeBloques(e) \cap DeBloques(f) = {}

\* What is in SWAP is in memory for its process: the bytes of its segments, by number.
EnSwap(p) == {segmentos_en_swap[p][i] : i \in DOMAIN segmentos_en_swap[p]}
Contenido(p) ==
    IF estado[p] = "FIN" THEN <<>> ELSE
    [n \in {k[2] : k \in DePid(p)} \cup {e.nro : e \in EnSwap(p)} |->
        IF <<p, n>> \in DOMAIN tabla
        THEN [k \in 0 .. tabla[<<p, n>>].tamanio - 1 |-> Byte(tabla[<<p, n>>].base + k)]
        ELSE LET e == CHOOSE x \in EnSwap(p) : x.nro = n
             IN  [k \in 0 .. e.tamanio - 1 |-> DeSwap(e, k)]]

\* The access p waits for: in the segment its address is in, or with bases of another time.
Nombra(p, dir) ==
    LET n == CHOOSE i \in Nro : <<p, i>> \in DOMAIN tabla /\ dir \in Ocupa(p, i)
    IN  [nro |-> n, d |-> dir - tabla[<<p, n>>].base]
Quiere(p) ==
    LET r == pedido[p]
        o == Nombra(p, r.dir)
        f == Nombra(p, r.destino)
        propio == r.al_dia /\ estado[p] \in {"ACTIVO", "BLOCK", "MANO"}
    IN  CASE propio /\ r.op \in {"leer", "stdout"} -> [op |-> "leer", nro |-> o.nro, d |-> o.d, n |-> r.tam]
          [] propio /\ r.op = "copiar" ->
               [op |-> "copiar", nro |-> o.nro, d |-> o.d, n |-> r.tam, nro2 |-> f.nro, d2 |-> f.d]
          [] propio /\ r.op = "escribir" ->
               [op |-> "escribir", nro |-> o.nro, d |-> o.d, n |-> r.tam, datos |-> r.datos]
          [] ~propio /\ r.op \in {"leer", "stdout"} -> [op |-> "leer_ajeno", n |-> r.tam]
          [] ~propio /\ r.op = "copiar" -> [op |-> "copiar_ajeno", n |-> r.tam]
          [] ~propio /\ r.op = "escribir" -> [op |-> "escribir_ajeno", n |-> r.tam]
          [] OTHER -> [op |-> "nada"]

Privada == INSTANCE MemoriaPrivada WITH
    contenido <- [p \in Pid |-> Contenido(p)],
    quiere <- [p \in Pid |-> Quiere(p)]

\* Each program sees a memory of its own: what it reads is what it wrote, across the
\* sticks' borders, the other programs' accesses and its own stays in SWAP.  Only an access
\* with bases of another time reads, or changes, bytes that are not the program's.
CumpleMemoriaPrivada == Privada!Spec

=============================================================================

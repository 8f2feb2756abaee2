----------------------------- MODULE Suspension -----------------------------
(***************************************************************************)
(* The life of a process in kernel_scheduler between its READY queue and   *)
(* its exit: the threads of conexiones.c that answer a CPU and an I/O      *)
(* interface (atender_cliente), the suspension timers (timer_suspension),  *)
(* the swap-in loop (intentar_desuspender) and the retry of the processes  *)
(* waiting for memory (reintentar_esperando_memoria), interleaved at their *)
(* locks.  The hard part is the race between a timer that suspends a       *)
(* blocked process and the end of the I/O that wakes it.                   *)
(*                                                                         *)
(* kernel_memory is seen as its answers: how many memory units are free    *)
(* and which processes are in SWAP.  Every exchange with it happens under  *)
(* m_fd_memoria, the innermost lock, and is one step here.  Which READY    *)
(* process runs next is the business of module Dispatcher.                 *)
(***************************************************************************)
EXTENDS Integers, FiniteSets

CONSTANTS
    Pid,             \* the processes
    Cpu,             \* the connected CPUs, one atender_cliente thread each
    SLEEP, STDIN, STDOUT,
    Interfaz,        \* the I/O interfaces in use, one atender_cliente thread each
    Estable,         \* those that are connected from the start and stay so
    Llamadas,        \* the non-blocking reasons to leave a CPU in use
    MaxRetornos,     \* bound: how often a program leaves its CPU before it exits
    MaxBloqueos,     \* bound: how often it leaves it for an I/O
    Memoria,         \* memory units the sticks offer
    Prioridad,       \* priority of each process (smaller is better)
    Nadie            \* no process, no thread

Timer == Pid \X (1 .. MaxRetornos)      \* one suspension timer per blocking
Hilo  == Cpu \cup Interfaz \cup Timer

ASSUME InterfazAssumption == Interfaz \subseteq {SLEEP, STDIN, STDOUT} /\ Estable \subseteq Interfaz
ASSUME HiloAssumption == Cpu \cap Interfaz = {} /\ (Cpu \cup Interfaz) \cap (Pid \X Nat) = {}
ASSUME NadieAssumption == Nadie \notin Pid \cup Hilo \cup Interfaz
ASSUME LlamadasAssumption == Llamadas \subseteq {"A_READY", "MEM_ALLOC", "MEM_FREE", "INIT_PROC"}
ASSUME NumerosAssumption ==
    MaxRetornos \in Nat /\ MaxBloqueos \in Nat /\ Memoria \in Nat /\ Prioridad \in [Pid -> Nat]

Cola == {"NEW", "READY", "BLOCK", "SUSP_BLOCK", "SUSP_READY", "ESPERA", "EXIT"}

VARIABLES
    cola,            \* cola["BLOCK"] is cola_block, cola["ESPERA"] is cola_esperando_memoria, ...
    exec,            \* exec[c]: the process CPU c runs, or has sent back and nobody has read
    pc,              \* what each thread does next
    sujeto,          \* the process a CPU or interface thread is working for
    pide,            \* the interface the process of a CPU thread asked for
    restan,          \* how often each program will still leave its CPU before EXIT
    block_epoch, pending_wakeup,
    conectadas,      \* the keys of dic_interfaces
    pedidos,         \* requests an interface has been sent and has not answered
    respuestas,      \* answers the scheduler has not read yet
    perdidos,        \* history, read by no action: processes whose request no interface will answer
    m_susp, m_esperando,             \* the thread that holds the mutex, or Nadie
    por_desuspender, por_reintentar, \* what the loop under the mutex has still to visit
    mem, en_swap, libre  \* kernel_memory: units of each process, who is in SWAP, free units

colas  == <<cola, exec>>
hilos  == <<pc, sujeto, pide>>
relojes == <<block_epoch, pending_wakeup>>
io     == <<conectadas, pedidos, respuestas, perdidos>>
susp   == <<m_susp, por_desuspender>>
espera == <<m_esperando, por_reintentar>>
memoria == <<mem, en_swap, libre>>
vars == <<colas, hilos, restan, relojes, io, susp, espera, memoria>>

PcCpu == {"espera", "A_READY", "MEM_ALLOC", "MEM_FREE", "INIT_PROC", "EXIT", "BLOCK",
          "sin_memoria", "epoch", "lee", "pide", "desuspender", "reintentar"}
PcInterfaz == {"espera", "escribe", "despierta", "mira_susp", "desuspender", "reintentar"}
PcTimer == {"no_lanzado", "duerme", "vencido", "limbo", "en_swap", "desuspender", "reintentar", "termino"}

\* The steps at which a thread holds a PCB that is in no list.
ConPcb == {"A_READY", "MEM_ALLOC", "MEM_FREE", "INIT_PROC", "EXIT", "BLOCK", "sin_memoria",
           "escribe", "despierta", "limbo", "en_swap"}

Pcb(h) == IF h \in Timer THEN h[1] ELSE sujeto[h]
EnMano(h, p) == pc[h] \in ConPcb /\ Pcb(h) = p
Limbo(p) == \E t \in Timer : t[1] = p /\ pc[t] \in {"limbo", "en_swap"}

Sigue(h, paso) == pc' = [pc EXCEPT ![h] = paso]
Mueve(p, de, a) == cola' = [cola EXCEPT ![de] = @ \ {p}, ![a] = @ \cup {p}]
Saca(p, de) == cola' = [cola EXCEPT ![de] = @ \ {p}]
Mete(p, a) == cola' = [cola EXCEPT ![a] = @ \cup {p}]

\* A connection thread is done with its process and goes back to recv.
Atendido(h) == Sigue(h, "espera") /\ sujeto' = [sujeto EXCEPT ![h] = Nadie]

\* A thread at the end of its loops: a timer ends, the others go back to recv.
Termina(h) == IF h \in Timer THEN Sigue(h, "termino") /\ UNCHANGED sujeto ELSE Atendido(h)

(* The operations the steps below share.  A name with a suffix _... is a    *)
(* mutant of the definition after it: a bug the properties must notice.    *)

\* sacar_de_block, on the process found
RemueveDeBlock_SinRemover(p) == UNCHANGED cola
RemueveDeBlock(p) == Saca(p, "BLOCK")

\* the flag an I/O end leaves for the timer, and the timer taking it
AvisaAlTimer_Olvida(p) == UNCHANGED pending_wakeup
AvisaAlTimer(p) == pending_wakeup' = [pending_wakeup EXCEPT ![p] = 1]
TomaAviso_SinBajar(p) == UNCHANGED pending_wakeup
TomaAviso(p) == pending_wakeup' = [pending_wakeup EXCEPT ![p] = 0]
HayAviso_SinMirar(p) == TRUE
HayAviso(p) == pending_wakeup[p] = 1

\* kernel_memory: EXIT, SWAP_ESCRITURA, and the two answers of SWAP_LECTURA.  Of the
\* k units restored, fewer than mem[p] when a segment finds no hole large enough
\* and is dropped without a word.
LiberaTodo_DejaSegmentos(p) == libre' = libre + mem[p] /\ UNCHANGED mem
LiberaTodo(p) == libre' = libre + mem[p] /\ mem' = [mem EXCEPT ![p] = 0]
SwapEscritura(p) == en_swap' = en_swap \cup {p} /\ libre' = libre + mem[p]
Cabe_SinSumar(p) == TRUE
Cabe(p) == mem[p] <= libre
SwapLectura_DejaEntrada(p) ==
    /\ UNCHANGED en_swap
    /\ \E k \in 0 .. mem[p] : mem' = [mem EXCEPT ![p] = k] /\ libre' = libre - k
SwapLectura(p) ==
    /\ en_swap' = en_swap \ {p}
    /\ \E k \in 0 .. mem[p] : mem' = [mem EXCEPT ![p] = k] /\ libre' = libre - k

(***************************************************************************)
(* main.c creates process 0 before it accepts a connection.                *)
(***************************************************************************)
Init ==
    /\ \E p \in Pid : cola = [q \in Cola |-> IF q = "READY" THEN {p}
                                              ELSE IF q = "NEW" THEN Pid \ {p} ELSE {}]
    /\ exec = [c \in Cpu |-> Nadie]
    /\ pc = [h \in Hilo |-> IF h \in Timer THEN "no_lanzado" ELSE "espera"]
    /\ sujeto = [h \in Cpu \cup Interfaz |-> Nadie]
    /\ pide = [c \in Cpu |-> Nadie]
    /\ restan = [p \in Pid |-> MaxRetornos]
    /\ block_epoch = [p \in Pid |-> 0]
    /\ pending_wakeup = [p \in Pid |-> 0]
    /\ conectadas = Estable
    /\ pedidos = [i \in Interfaz |-> {}]
    /\ respuestas = [i \in Interfaz |-> {}]
    /\ perdidos = {}
    /\ m_susp = Nadie /\ por_desuspender = {}
    /\ m_esperando = Nadie /\ por_reintentar = {}
    /\ mem = [p \in Pid |-> 0]
    /\ en_swap = {}
    /\ libre = Memoria

-----------------------------------------------------------------------------
(* The CPU side: dispatch, return, and one handler per reason.              *)

Despacha(c, p) ==
    /\ exec[c] = Nadie
    /\ p \in cola["READY"]
    /\ exec' = [exec EXCEPT ![c] = p]
    /\ Saca(p, "READY")
    /\ UNCHANGED <<hilos, restan, relojes, io, susp, espera, memoria>>

\* The thread reads the operation and the PCB a CPU sends back; the CPU is free
\* again before the switch looks at the operation.
CpuRetorna(c) ==
    /\ pc[c] = "espera"
    /\ exec[c] # Nadie
    /\ LET p == exec[c] IN
         /\ \/ /\ restan[p] > 0
               /\ restan' = [restan EXCEPT ![p] = @ - 1]
               /\ \/ \E op \in Llamadas : Sigue(c, op) /\ UNCHANGED pide
                  \/ /\ block_epoch[p] < MaxBloqueos
                     /\ \E i \in Interfaz : Sigue(c, "BLOCK") /\ pide' = [pide EXCEPT ![c] = i]
            \/ restan[p] = 0 /\ Sigue(c, "EXIT") /\ UNCHANGED <<restan, pide>>
         /\ sujeto' = [sujeto EXCEPT ![c] = p]
    /\ exec' = [exec EXCEPT ![c] = Nadie]
    /\ UNCHANGED <<cola, relojes, io, susp, espera, memoria>>

\* INTERRUPCION, and the last step of every call that does not block.
VuelveAReady(c) ==
    /\ pc[c] = "A_READY"
    /\ Mete(sujeto[c], "READY")
    /\ Atendido(c)
    /\ UNCHANGED <<exec, pide, restan, relojes, io, susp, espera, memoria>>

Sale_SinReintentar(c) ==
    /\ pc[c] = "EXIT"
    /\ LiberaTodo(sujeto[c]) /\ Mete(sujeto[c], "EXIT")
    /\ Atendido(c)
    /\ UNCHANGED <<exec, pide, restan, relojes, io, susp, espera, en_swap>>

\* EXIT and SEG_FAULT: kernel_memory frees every segment, then the suspended
\* processes and those waiting for memory are tried.
Sale(c) ==
    /\ pc[c] = "EXIT"
    /\ LiberaTodo(sujeto[c]) /\ Mete(sujeto[c], "EXIT")
    /\ Sigue(c, "desuspender")
    /\ UNCHANGED <<exec, sujeto, pide, restan, relojes, io, susp, espera, en_swap>>

\* crear_proceso: kernel_memory confirms, then the new process is READY.  When
\* all of Pid exist (the bound on processes) the call creates nothing.
InitProc(c) ==
    /\ pc[c] = "INIT_PROC"
    /\ IF cola["NEW"] = {} THEN UNCHANGED cola ELSE \E q \in cola["NEW"] : Mueve(q, "NEW", "READY")
    /\ Sigue(c, "A_READY")
    /\ UNCHANGED <<exec, sujeto, pide, restan, relojes, io, susp, espera, memoria>>

\* After its compaction kernel_memory grants a segment exactly when enough units
\* are free.
MemAlloc(c) ==
    /\ pc[c] = "MEM_ALLOC"
    /\ \/ /\ libre > 0
          /\ libre' = libre - 1
          /\ mem' = [mem EXCEPT ![sujeto[c]] = @ + 1]
          /\ Sigue(c, "A_READY")
       \/ libre = 0 /\ Sigue(c, "sin_memoria") /\ UNCHANGED <<mem, libre>>
    /\ UNCHANGED <<colas, sujeto, pide, restan, relojes, io, susp, espera, en_swap>>

\* m_fd_memoria was released before the process enters cola_esperando_memoria.
EsperaMemoria(c) ==
    /\ pc[c] = "sin_memoria"
    /\ m_esperando = Nadie
    /\ Mete(sujeto[c], "ESPERA")
    /\ Atendido(c)
    /\ UNCHANGED <<exec, pide, restan, relojes, io, susp, espera, memoria>>

\* No one is retried after it; an id kernel_memory does not know frees nothing.
MemFree(c) ==
    /\ pc[c] = "MEM_FREE"
    /\ \E k \in {0, 1} :
         /\ k <= mem[sujeto[c]]
         /\ mem' = [mem EXCEPT ![sujeto[c]] = @ - k]
         /\ libre' = libre + k
    /\ Sigue(c, "A_READY")
    /\ UNCHANGED <<colas, sujeto, pide, restan, relojes, io, susp, espera, en_swap>>

\* SLEEP, STDIN and STDOUT: first the list, then the epoch and the timer ...
EntraABlock(c) ==
    /\ pc[c] = "BLOCK"
    /\ Mete(sujeto[c], "BLOCK")
    /\ Sigue(c, "epoch")
    /\ UNCHANGED <<exec, sujeto, pide, restan, relojes, io, susp, espera, memoria>>

LanzaTimer(c) ==
    /\ pc[c] = "epoch"
    /\ LET p == sujeto[c]
           e == block_epoch[p] + 1 IN
         /\ block_epoch' = [block_epoch EXCEPT ![p] = e]
         /\ pc' = [pc EXCEPT ![<<p, e>>] = "duerme",
                             ![c] = IF pide[c] = STDOUT THEN "lee" ELSE "pide"]
    /\ UNCHANGED <<colas, sujeto, pide, restan, pending_wakeup, io, susp, espera, memoria>>

\* ... then STDOUT reads what it will show from memory ...
LeeMemoria(c) ==
    /\ pc[c] = "lee"
    /\ Sigue(c, "pide")
    /\ UNCHANGED <<colas, sujeto, pide, restan, relojes, io, susp, espera, memoria>>

\* ... and last the request goes to the interface, if there is one.
PideIO(c) ==
    /\ pc[c] = "pide"
    /\ IF pide[c] \in conectadas
       THEN pedidos' = [pedidos EXCEPT ![pide[c]] = @ \cup {sujeto[c]}] /\ UNCHANGED perdidos
       ELSE perdidos' = perdidos \cup {sujeto[c]} /\ UNCHANGED pedidos
    /\ Atendido(c)
    /\ pide' = [pide EXCEPT ![c] = Nadie]
    /\ UNCHANGED <<colas, restan, relojes, conectadas, respuestas, susp, espera, memoria>>

-----------------------------------------------------------------------------
(* The interface side: a device answers, and the thread that reads it wakes *)
(* the process, wherever it is by then.                                     *)

Conecta(i) ==
    /\ i \notin conectadas
    /\ conectadas' = conectadas \cup {i}
    /\ UNCHANGED <<colas, hilos, restan, relojes, pedidos, respuestas, perdidos, susp, espera, memoria>>

\* recv returns 0 once every answer was read; what the device still had is lost.
Desconecta(i) ==
    /\ i \in conectadas \ Estable
    /\ pc[i] = "espera" /\ respuestas[i] = {}
    /\ conectadas' = conectadas \ {i}
    /\ perdidos' = perdidos \cup pedidos[i]
    /\ pedidos' = [pedidos EXCEPT ![i] = {}]
    /\ UNCHANGED <<colas, hilos, restan, relojes, respuestas, susp, espera, memoria>>

\* The interface process (io/), seen from the scheduler: one answer per request.
RespondeIO(i, p) ==
    /\ p \in pedidos[i]
    /\ pedidos' = [pedidos EXCEPT ![i] = @ \ {p}]
    /\ respuestas' = [respuestas EXCEPT ![i] = @ \cup {p}]
    /\ UNCHANGED <<colas, hilos, restan, relojes, conectadas, perdidos, susp, espera, memoria>>

\* sacar_de_block: the atomic removal that decides between this thread and the timer.
RecibeFin(i, p) ==
    /\ pc[i] = "espera"
    /\ p \in respuestas[i]
    /\ respuestas' = [respuestas EXCEPT ![i] = @ \ {p}]
    /\ sujeto' = [sujeto EXCEPT ![i] = p]
    /\ IF p \in cola["BLOCK"]
       THEN RemueveDeBlock(p) /\ Sigue(i, IF i = STDIN THEN "escribe" ELSE "despierta")
       ELSE Sigue(i, "mira_susp") /\ UNCHANGED cola
    /\ UNCHANGED <<exec, pide, restan, relojes, conectadas, pedidos, perdidos, susp, espera, memoria>>

\* STDIN: the bytes read go to the memory of the process.
EscribeMemoria(i) ==
    /\ pc[i] = "escribe"
    /\ Sigue(i, "despierta")
    /\ UNCHANGED <<colas, sujeto, pide, restan, relojes, io, susp, espera, memoria>>

\* encolar_en_ready.
Despierta(i) ==
    /\ pc[i] = "despierta"
    /\ Mete(sujeto[i], "READY")
    /\ Atendido(i)
    /\ UNCHANGED <<exec, pide, restan, relojes, io, susp, espera, memoria>>

\* Not in cola_block: suspended, or in the hands of its timer, who is told.
MiraSuspendidos(i) ==
    /\ pc[i] = "mira_susp"
    /\ m_susp = Nadie
    /\ LET p == sujeto[i] IN
         IF p \in cola["SUSP_BLOCK"]
         THEN Mueve(p, "SUSP_BLOCK", "SUSP_READY") /\ Sigue(i, "desuspender") /\ UNCHANGED <<sujeto, pending_wakeup>>
         ELSE /\ AvisaAlTimer(p)
              /\ Atendido(i)
              /\ UNCHANGED cola
    /\ UNCHANGED <<exec, pide, restan, block_epoch, io, susp, espera, memoria>>

-----------------------------------------------------------------------------
(* The suspension timer of one blocking.                                    *)

\* The epoch is read with no lock held.
Vence(t) ==
    /\ pc[t] = "duerme"
    /\ Sigue(t, IF block_epoch[t[1]] = t[2] THEN "vencido" ELSE "termino")
    /\ UNCHANGED <<colas, sujeto, pide, restan, relojes, io, susp, espera, memoria>>

SacaDeBlock(t) ==
    /\ pc[t] = "vencido"
    /\ IF t[1] \in cola["BLOCK"]
       THEN RemueveDeBlock(t[1]) /\ Sigue(t, "limbo")
       ELSE Sigue(t, "termino") /\ UNCHANGED cola
    /\ UNCHANGED <<exec, sujeto, pide, restan, relojes, io, susp, espera, memoria>>

\* SWAP_ESCRITURA: the segments go to SWAP and their units are free.
EscribeSwap(t) ==
    /\ pc[t] = "limbo"
    /\ SwapEscritura(t[1])
    /\ Sigue(t, "en_swap")
    /\ UNCHANGED <<colas, sujeto, pide, restan, relojes, io, susp, espera, mem>>

DecideSuspension(t) ==
    /\ pc[t] = "en_swap"
    /\ m_susp = Nadie
    /\ IF HayAviso(t[1])
       THEN /\ TomaAviso(t[1])
            /\ Mete(t[1], "SUSP_READY")
            /\ Sigue(t, "desuspender")
       ELSE /\ Mete(t[1], "SUSP_BLOCK")
            /\ Sigue(t, "termino")
            /\ UNCHANGED pending_wakeup
    /\ UNCHANGED <<exec, sujeto, pide, restan, block_epoch, io, susp, espera, memoria>>

-----------------------------------------------------------------------------
(* intentar_desuspender: m_susp is held for the whole loop.                 *)

EntraDesuspender(h) ==
    /\ pc[h] = "desuspender"
    /\ m_susp = Nadie
    /\ m_susp' = h
    /\ por_desuspender' = cola["SUSP_READY"]
    /\ UNCHANGED <<colas, hilos, restan, relojes, io, espera, memoria>>

\* The list was sorted by priority on entry.
Siguiente(p) == p \in por_desuspender /\ \A q \in por_desuspender : Prioridad[p] <= Prioridad[q]

\* A process of which SWAP has nothing is simply READY; one that does not fit stays.
Desuspende(h, p) ==
    /\ m_susp = h
    /\ Siguiente(p)
    /\ por_desuspender' = por_desuspender \ {p}
    /\ IF p \notin en_swap
       THEN Mueve(p, "SUSP_READY", "READY") /\ UNCHANGED memoria
       ELSE \/ ~Cabe(p) /\ UNCHANGED <<cola, memoria>>
            \/ Cabe(p) /\ SwapLectura(p) /\ Mueve(p, "SUSP_READY", "READY")
    /\ UNCHANGED <<exec, hilos, restan, relojes, io, m_susp, espera>>

SaleDesuspender(h) ==
    /\ m_susp = h
    /\ por_desuspender = {}
    /\ m_susp' = Nadie
    /\ Sigue(h, "reintentar")
    /\ UNCHANGED <<colas, sujeto, pide, restan, relojes, io, por_desuspender, espera, memoria>>

(* reintentar_esperando_memoria: m_esperando_memoria is held for the loop.  *)

EntraReintentar(h) ==
    /\ pc[h] = "reintentar"
    /\ m_esperando = Nadie
    /\ m_esperando' = h
    /\ por_reintentar' = cola["ESPERA"]
    /\ UNCHANGED <<colas, hilos, restan, relojes, io, susp, memoria>>

Reintenta(h, p) ==
    /\ m_esperando = h
    /\ p \in por_reintentar
    /\ por_reintentar' = por_reintentar \ {p}
    /\ \/ /\ libre > 0
          /\ libre' = libre - 1
          /\ mem' = [mem EXCEPT ![p] = @ + 1]
          /\ Mueve(p, "ESPERA", "READY")
       \/ libre = 0 /\ UNCHANGED <<cola, mem, libre>>
    /\ UNCHANGED <<exec, hilos, restan, relojes, io, susp, m_esperando, en_swap>>

SaleReintentar(h) ==
    /\ m_esperando = h
    /\ por_reintentar = {}
    /\ m_esperando' = Nadie
    /\ Termina(h)
    /\ UNCHANGED <<colas, pide, restan, relojes, io, susp, por_reintentar, memoria>>

-----------------------------------------------------------------------------

Bucles(h) ==
    \/ EntraDesuspender(h) \/ SaleDesuspender(h) \/ \E p \in Pid : Desuspende(h, p)
    \/ EntraReintentar(h)  \/ SaleReintentar(h)  \/ \E p \in Pid : Reintenta(h, p)

HiloCpu(c) ==
    \/ CpuRetorna(c) \/ VuelveAReady(c) \/ Sale(c) \/ InitProc(c)
    \/ MemAlloc(c) \/ EsperaMemoria(c) \/ MemFree(c)
    \/ EntraABlock(c) \/ LanzaTimer(c) \/ LeeMemoria(c) \/ PideIO(c) \/ Bucles(c)

HiloInterfaz(i) ==
    \/ \E p \in Pid : RecibeFin(i, p)
    \/ EscribeMemoria(i) \/ Despierta(i) \/ MiraSuspendidos(i) \/ Bucles(i)

HiloTimer(t) ==
    Vence(t) \/ SacaDeBlock(t) \/ EscribeSwap(t) \/ DecideSuspension(t) \/ Bucles(t)

Planificador == \E c \in Cpu, p \in Pid : Despacha(c, p)

\* Every process that was created has exited and every thread is back in recv.
TodoTerminado ==
    /\ cola["NEW"] \cup cola["EXIT"] = Pid
    /\ \A h \in Hilo : pc[h] \in {"espera", "no_lanzado", "termino"}
    /\ UNCHANGED vars

Next ==
    \/ Planificador
    \/ \E c \in Cpu : HiloCpu(c)
    \/ \E i \in Interfaz : HiloInterfaz(i) \/ Conecta(i) \/ Desconecta(i)
    \/ \E i \in Interfaz, p \in Pid : RespondeIO(i, p)
    \/ \E t \in Timer : HiloTimer(t)
    \/ TodoTerminado

Spec == Init /\ [][Next]_vars

\* Every thread keeps running, usleep ends, and a device answers what it was asked.
\* Nothing makes an interface connect or disconnect.
Equidad ==
    /\ WF_vars(Planificador)
    /\ \A c \in Cpu : WF_vars(HiloCpu(c))
    /\ \A i \in Interfaz : WF_vars(HiloInterfaz(i)) /\ WF_vars(\E p \in Pid : RespondeIO(i, p))
    /\ \A t \in Timer : WF_vars(HiloTimer(t))

FairSpec == Spec /\ Equidad

-----------------------------------------------------------------------------

TipoColas ==
    /\ cola \in [Cola -> SUBSET Pid]
    /\ exec \in [Cpu -> Pid \cup {Nadie}]

TipoHilos ==
    /\ pc \in [Hilo -> PcCpu \cup PcInterfaz \cup PcTimer]
    /\ \A c \in Cpu : pc[c] \in PcCpu
    /\ \A i \in Interfaz : pc[i] \in PcInterfaz
    /\ \A t \in Timer : pc[t] \in PcTimer
    /\ sujeto \in [Cpu \cup Interfaz -> Pid \cup {Nadie}]
    /\ pide \in [Cpu -> Interfaz \cup {Nadie}]

TipoIO ==
    /\ restan \in [Pid -> 0 .. MaxRetornos]
    /\ block_epoch \in [Pid -> Nat]
    /\ pending_wakeup \in [Pid -> {0, 1}]
    /\ conectadas \subseteq Interfaz
    /\ pedidos \in [Interfaz -> SUBSET Pid]
    /\ respuestas \in [Interfaz -> SUBSET Pid]
    /\ perdidos \subseteq Pid

TipoMemoria ==
    /\ m_susp \in Hilo \cup {Nadie} /\ por_desuspender \subseteq Pid
    /\ m_esperando \in Hilo \cup {Nadie} /\ por_reintentar \subseteq Pid
    /\ mem \in [Pid -> Nat]
    /\ en_swap \subseteq Pid
    /\ libre \in Nat

TypeOK == TipoColas /\ TipoHilos /\ TipoIO /\ TipoMemoria

(* Safety *)

UnLugar(p) ==
    /\ \A q1, q2 \in Cola : p \in cola[q1] /\ p \in cola[q2] => q1 = q2
    /\ \A c1, c2 \in Cpu : exec[c1] = p /\ exec[c2] = p => c1 = c2
    /\ \A h1, h2 \in Hilo : EnMano(h1, p) /\ EnMano(h2, p) => h1 = h2
    /\ \A q \in Cola, c \in Cpu : ~(p \in cola[q] /\ exec[c] = p)
    /\ \A q \in Cola, h \in Hilo : ~(p \in cola[q] /\ EnMano(h, p))
    /\ \A c \in Cpu, h \in Hilo : ~(exec[c] = p /\ EnMano(h, p))
    /\ \/ \E q \in Cola : p \in cola[q]
       \/ \E c \in Cpu : exec[c] = p
       \/ \E h \in Hilo : EnMano(h, p)

\* A PCB is in exactly one place: one list, one CPU, or the hands of one thread.
\* It is what sacar_de_block is for (two threads race to remove a process from
\* cola_block and only one may go on with it), and what would break if a process
\* were enqueued twice or dropped between two lists.
UnSoloLugar == \A p \in Pid : UnLugar(p)

\* Where the wakeup of p can be on its way: not yet asked for, at the device,
\* answered, read and about to look among the suspended, or lost with its interface.
PorPedir(c, p) == pc[c] \in {"epoch", "lee", "pide"} /\ sujeto[c] = p
PorMirar(i, p) == pc[i] = "mira_susp" /\ sujeto[i] = p
EnCamino(p) ==
    \/ \E c \in Cpu : PorPedir(c, p)
    \/ \E i \in Interfaz : p \in pedidos[i] \cup respuestas[i] \/ PorMirar(i, p)
    \/ p \in perdidos

\* p has blocked and no one has told anyone that its I/O ended.
Dormido(p) == \/ p \in cola["BLOCK"] \cup cola["SUSP_BLOCK"]
              \/ Limbo(p) /\ ~HayAviso(p)

\* No wakeup is lost and none is invented: a process sleeps (blocked, suspended, or
\* being swapped out with no pending_wakeup) exactly while its wakeup is still on
\* its way, whichever of the timer and the end of the I/O gets there first.
NingunDespertarPerdido == \A p \in Pid : Dormido(p) <=> EnCamino(p)

\* A pending_wakeup is left only for a timer that is still going to look at it: set
\* for a process in any other place it would wake the next suspension early.
PendienteSoloEnLimbo == \A p \in Pid : HayAviso(p) => Limbo(p)

\* The scheduler and kernel_memory agree on who is swapped out: a process that can
\* run, that waits for memory, or whose STDIN bytes are about to be written has its
\* segments in the sticks, and a suspended one has them all in SWAP.
ResidenciaCoherente ==
    \A p \in Pid : p \in en_swap <=> \/ p \in cola["SUSP_BLOCK"] \cup cola["SUSP_READY"]
                                    \/ \E t \in Timer : t[1] = p /\ pc[t] = "en_swap"

\* No unit of memory is lost or freed twice: the free units and those of the
\* processes in the sticks add up to what the sticks offer (a double SWAP_ESCRITURA,
\* an EXIT of a swapped process or a swap-in without its units would break it).
Unidades == {u \in Pid \X (1 .. Memoria) : u[1] \notin en_swap /\ u[2] <= mem[u[1]]}
MemoriaConservada ==
    /\ libre + Cardinality(Unidades) = Memoria
    /\ \A p \in Pid : mem[p] <= Memoria

(* Refinement *)

\* The state a process is in for someone who only reads the log: a process whose
\* call is being answered is still EXEC, one in the hands of its timer is already
\* SUSP_BLOCK, one in the hands of the thread that wakes it is still BLOCK.
EstadoDe(p) ==
    CASE \E q \in Cola : p \in cola[q] -> CHOOSE q \in Cola : p \in cola[q]
      [] Limbo(p) -> "SUSP_BLOCK"
      [] \E i \in Interfaz : EnMano(i, p) -> "BLOCK"
      [] OTHER -> "EXEC"

\* The I/O of p has ended and p has not been woken yet.
FinSinAtender(p) ==
    \/ HayAviso(p)
    \/ \E i \in Interfaz : p \in respuestas[i] \/ PorMirar(i, p) \/ EnMano(i, p)

Ciclo == INSTANCE ProcessLifecycle WITH
            estado <- [p \in Pid |-> EstadoDe(p)],
            terminada <- {p \in Pid : FinSinAtender(p)}

\* Whatever the interleaving, a process goes through the states of the diagram in
\* order, is suspended only while it is blocked, and leaves BLOCK or SUSP_BLOCK
\* only because its own I/O ended, once per I/O.
CumpleCiclo == Ciclo!Spec

(* Liveness *)

\* The processes that live hold memory and wait for more, in cola_esperando_memoria or in
\* SUSP_READY, and what is free is enough for none: MEM_ALLOC lets a process that holds
\* segments wait for those of another, and nothing undoes it.
EsperaCircular ==
    \A p \in Pid \ (cola["NEW"] \cup cola["EXIT"]) :
        \/ p \in cola["ESPERA"] /\ libre = 0
        \/ p \in cola["SUSP_READY"] /\ ~Cabe(p)

\* With interfaces that stay connected every blocked process is woken and runs again,
\* suspended meanwhile or not, unless it comes back to such a wait.
TodoBloqueoDespierta ==
    \A p \in Pid : (p \in cola["BLOCK"] \cup cola["SUSP_BLOCK"]) ~> (p \in cola["READY"] \/ []EsperaCircular)

\* Every created process exits, unless those left wait for each other's memory: none is
\* forgotten in a list, a thread's hands or SWAP, and none waits, for a segment or to come
\* back, while another can still run and give its memory back.
TodoProcesoTermina ==
    \A p \in Pid : (p \notin cola["NEW"]) ~> (p \in cola["EXIT"] \/ []EsperaCircular)

\* A process whose MEM_ALLOC was logged as "Proceso esperando memoria" is not left
\* waiting for ever while there is memory for it.
MemoriaLibreNoSeEspera ==
    \A p \in Pid : []<>(~(p \in cola["ESPERA"] /\ libre > 0))

=============================================================================

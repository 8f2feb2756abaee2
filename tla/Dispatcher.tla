----------------------------- MODULE Dispatcher -----------------------------
(***************************************************************************)
(* Who runs next in kernel_scheduler: planificador_corto_plazo and its two *)
(* semaphores, the marks of lista_cpus_sched, the threads that give back a *)
(* CPU or a process (conexiones.c, encolar_en_ready), the quantum threads  *)
(* and the socket of each CPU, where a PCB and an interruption may meet.   *)
(* Module Suspension sees all of this as its action Despacha.              *)
(*                                                                         *)
(* A name with a suffix _... is a mutant of the definition after it: a bug *)
(* the properties must notice.                                             *)
(***************************************************************************)
EXTENDS Integers, Sequences, FiniteSets

CONSTANTS
    Pid, Cpu,
    Despertador,      \* the threads that call encolar_en_ready for a blocked process
    CantidadColas,    \* cantidad_colas: 1 for FIFO and RR, one per algorithm listed for CMN
    Prioridad,        \* prioridad of each process; inheritance is not modelled here
    UsaRR,            \* the queues are Round Robin: every dispatch starts a quantum
    QueuePreemption,  \* kernel_config.queue_preemption
    Llamadas,         \* the reasons to leave a CPU in use, besides EXIT and INTERRUPCION
    MaxLlamadas,      \* bound: system calls of a process before its EXIT
    INTERRUPCION, Nadie

ASSUME ColasAssumption == CantidadColas \in Nat \ {0}
ASSUME PrioridadAssumption == /\ Prioridad \in [Pid -> Nat]
                              /\ CantidadColas > 1 => \A p \in Pid : Prioridad[p] < CantidadColas
ASSUME BanderasAssumption == UsaRR \in BOOLEAN /\ QueuePreemption \in BOOLEAN
ASSUME MotivosAssumption == Llamadas \subseteq {"A_READY", "BLOCK", "INIT_PROC"} /\ MaxLlamadas \in Nat
ASSUME FinitosAssumption == IsFiniteSet(Pid) /\ IsFiniteSet(Cpu) /\ IsFiniteSet(Despertador)
ASSUME DistintosAssumption == /\ INTERRUPCION \notin Pid \cup {Nadie}
                              /\ Nadie \notin Pid \cup Cpu \cup Despertador
                              /\ Nadie \notin Pid \X {"A_READY", "BLOCK", "INIT_PROC", "EXIT"}

VARIABLES
    colas_ready, sem_procesos_ready, sem_cpu_libre,
    lista_cpus_sched, pid_ejecutando, pcb_en_ejecucion,
    plan_pc, fd, pcb,          \* the planner thread and its locals
    socket_cpu,                \* what the scheduler has sent to each CPU and it has not read
    corre, vuelta,             \* the process in each CPU; what it has sent back: <<process, reason>>
    pc, sujeto,                \* the atender_cliente thread of each CPU and what it received
    nuevos, bloqueados, restan,
    desp_pc, despierta, victima, \* a Despertador: its step, its process, the CPU it interrupts
    duermen, por_interrumpir   \* quantum threads asleep per process; those about to send, per CPU

ready  == <<colas_ready, sem_procesos_ready>>
cpus   == <<lista_cpus_sched, pid_ejecutando>>
plan   == <<plan_pc, fd, pcb>>
en_cpu == <<corre, vuelta>>
hilo   == <<pc, sujeto>>
programa == <<nuevos, bloqueados, restan>>
desp   == <<desp_pc, despierta, victima>>
quantum == <<duermen, por_interrumpir>>
vars == <<ready, sem_cpu_libre, cpus, pcb_en_ejecucion, plan, socket_cpu, en_cpu, hilo, programa, desp, quantum>>

Colas == 0 .. CantidadColas - 1

\* With one queue the priority does not choose it, though it still decides who is preempted.
ColaDe(p) == IF CantidadColas = 1 THEN 0 ELSE Prioridad[p]
Encola(p) == colas_ready' = [colas_ready EXCEPT ![ColaDe(p)] = Append(@, p)]
PostReady == sem_procesos_ready' = sem_procesos_ready + 1
PostCpu == sem_cpu_libre' = sem_cpu_libre + 1

\* The first CPU of the list that is marked with p, or Nadie for -1.
Primera(p) ==
    LET marcadas == {k \in 1 .. Len(lista_cpus_sched) : pid_ejecutando[lista_cpus_sched[k]] = p}
    IN  IF marcadas = {} THEN Nadie
        ELSE lista_cpus_sched[CHOOSE k \in marcadas : \A j \in marcadas : k <= j]

obtener_cpu_libre_SinMirar == IF lista_cpus_sched = <<>> THEN Nadie ELSE Head(lista_cpus_sched)
obtener_cpu_libre == Primera(Nadie)
buscar_fd_por_pid(p) == Primera(p)

\* main.c creates process 0 before it accepts a connection.
Init ==
    /\ \E p \in Pid :
         /\ colas_ready = [q \in Colas |-> IF q = ColaDe(p) THEN <<p>> ELSE <<>>]
         /\ nuevos = Pid \ {p}
    /\ sem_procesos_ready = 1 /\ sem_cpu_libre = 0
    /\ lista_cpus_sched = <<>> /\ pid_ejecutando = [c \in Cpu |-> Nadie]
    /\ pcb_en_ejecucion = Nadie
    /\ plan_pc = "ready" /\ fd = Nadie /\ pcb = Nadie
    /\ socket_cpu = [c \in Cpu |-> <<>>]
    /\ corre = [c \in Cpu |-> Nadie] /\ vuelta = [c \in Cpu |-> Nadie]
    /\ pc = [c \in Cpu |-> "conecta"] /\ sujeto = [c \in Cpu |-> Nadie]
    /\ bloqueados = {} /\ restan = [p \in Pid |-> MaxLlamadas]
    /\ desp_pc = [d \in Despertador |-> "libre"]
    /\ despierta = [d \in Despertador |-> Nadie] /\ victima = [d \in Despertador |-> Nadie]
    /\ duermen = [p \in Pid |-> 0] /\ por_interrumpir = [c \in Cpu |-> 0]

-----------------------------------------------------------------------------
(* planificador_corto_plazo                                                *)

EsperaReady ==
    /\ plan_pc = "ready" /\ sem_procesos_ready > 0
    /\ sem_procesos_ready' = sem_procesos_ready - 1
    /\ plan_pc' = "cpu"
    /\ UNCHANGED <<colas_ready, sem_cpu_libre, cpus, pcb_en_ejecucion, fd, pcb, socket_cpu, en_cpu, hilo, programa, desp, quantum>>

EsperaCpu ==
    /\ plan_pc = "cpu" /\ sem_cpu_libre > 0
    /\ sem_cpu_libre' = sem_cpu_libre - 1
    /\ plan_pc' = "busca"
    /\ UNCHANGED <<ready, cpus, pcb_en_ejecucion, fd, pcb, socket_cpu, en_cpu, hilo, programa, desp, quantum>>

\* With no CPU to be found the process is given back, the CPU token is not.
BuscaCpu_SinDevolver ==
    /\ plan_pc = "busca"
    /\ fd' = obtener_cpu_libre
    /\ plan_pc' = IF fd' = Nadie THEN "ready" ELSE "saca"
    /\ UNCHANGED <<ready, sem_cpu_libre, cpus, pcb_en_ejecucion, pcb, socket_cpu, en_cpu, hilo, programa, desp, quantum>>
BuscaCpu_SinComprobar ==
    /\ plan_pc = "busca"
    /\ fd' = obtener_cpu_libre
    /\ plan_pc' = "saca"
    /\ UNCHANGED <<ready, sem_cpu_libre, cpus, pcb_en_ejecucion, pcb, socket_cpu, en_cpu, hilo, programa, desp, quantum>>
BuscaCpu ==
    /\ plan_pc = "busca"
    /\ fd' = obtener_cpu_libre
    /\ IF fd' = Nadie THEN PostReady /\ plan_pc' = "ready"
                      ELSE plan_pc' = "saca" /\ UNCHANGED sem_procesos_ready
    /\ UNCHANGED <<colas_ready, sem_cpu_libre, cpus, pcb_en_ejecucion, pcb, socket_cpu, en_cpu, hilo, programa, desp, quantum>>

\* The first queue with a process is the one served.
ColaServida_AlReves(q) == colas_ready[q] # <<>> /\ \A r \in q + 1 .. CantidadColas - 1 : colas_ready[r] = <<>>
ColaServida(q) == colas_ready[q] # <<>> /\ \A r \in 0 .. q - 1 : colas_ready[r] = <<>>

SacaDeReady ==
    /\ plan_pc = "saca"
    /\ \/ \E q \in Colas :
            /\ ColaServida(q)
            /\ pcb' = Head(colas_ready[q])
            /\ colas_ready' = [colas_ready EXCEPT ![q] = Tail(@)]
            /\ pcb_en_ejecucion' = pcb'
            /\ plan_pc' = "envia"
            /\ UNCHANGED <<sem_cpu_libre, fd>>
       \/ /\ \A q \in Colas : colas_ready[q] = <<>>
          /\ PostCpu
          /\ plan_pc' = "ready"
          /\ fd' = Nadie
          /\ UNCHANGED <<colas_ready, pcb, pcb_en_ejecucion>>
    /\ UNCHANGED <<sem_procesos_ready, cpus, socket_cpu, en_cpu, hilo, programa, desp, quantum>>

EnviaPcb ==
    /\ plan_pc = "envia"
    /\ socket_cpu' = [socket_cpu EXCEPT ![fd] = Append(@, pcb)]
    /\ plan_pc' = "marca"
    /\ UNCHANGED <<ready, sem_cpu_libre, cpus, pcb_en_ejecucion, fd, pcb, en_cpu, hilo, programa, desp, quantum>>

\* By now the CPU may have run the process and given it back.
MarcaOcupada ==
    /\ plan_pc = "marca"
    /\ pid_ejecutando' = [pid_ejecutando EXCEPT ![fd] = pcb]
    /\ duermen' = IF UsaRR THEN [duermen EXCEPT ![pcb] = @ + 1] ELSE duermen
    /\ plan_pc' = "ready" /\ fd' = Nadie /\ pcb' = Nadie
    /\ UNCHANGED <<ready, sem_cpu_libre, lista_cpus_sched, pcb_en_ejecucion, socket_cpu, en_cpu, hilo, programa, desp, por_interrumpir>>

-----------------------------------------------------------------------------
(* The CPU (cpu/src/main.c): the loop that waits for an order, and the one  *)
(* that runs instructions and looks for an interruption after each.        *)

\* An order that is not a PCB is dropped.
TomaOrden(c) ==
    /\ corre[c] = Nadie
    /\ socket_cpu[c] # <<>>
    /\ socket_cpu' = [socket_cpu EXCEPT ![c] = Tail(@)]
    /\ corre' = [corre EXCEPT ![c] = IF Head(socket_cpu[c]) \in Pid THEN Head(socket_cpu[c]) ELSE Nadie]
    /\ UNCHANGED <<ready, sem_cpu_libre, cpus, pcb_en_ejecucion, plan, vuelta, hilo, programa, desp, quantum>>

DevuelvePcb(c, motivo) ==
    /\ vuelta' = [vuelta EXCEPT ![c] = <<corre[c], motivo>>]
    /\ corre' = [corre EXCEPT ![c] = Nadie]

Syscall(c) ==
    /\ corre[c] # Nadie
    /\ LET p == corre[c] IN
         \/ /\ restan[p] > 0
            /\ restan' = [restan EXCEPT ![p] = @ - 1]
            /\ \E m \in Llamadas : DevuelvePcb(c, m)
         \/ restan[p] = 0 /\ DevuelvePcb(c, "EXIT") /\ UNCHANGED restan
    /\ UNCHANGED <<ready, sem_cpu_libre, cpus, pcb_en_ejecucion, plan, socket_cpu, hilo, nuevos, bloqueados, desp, quantum>>

\* hay_interrupcion takes whatever four bytes the socket holds.
Interrumpida(c) ==
    /\ corre[c] # Nadie
    /\ socket_cpu[c] # <<>>
    /\ socket_cpu' = [socket_cpu EXCEPT ![c] = Tail(@)]
    /\ DevuelvePcb(c, "A_READY")
    /\ UNCHANGED <<ready, sem_cpu_libre, cpus, pcb_en_ejecucion, plan, hilo, programa, desp, quantum>>

-----------------------------------------------------------------------------
(* atender_cliente, for a CPU                                               *)

Conecta(c) ==
    /\ pc[c] = "conecta"
    /\ lista_cpus_sched' = Append(lista_cpus_sched, c)
    /\ PostCpu
    /\ pc' = [pc EXCEPT ![c] = "recv"]
    /\ UNCHANGED <<ready, pid_ejecutando, pcb_en_ejecucion, plan, socket_cpu, en_cpu, sujeto, programa, desp, quantum>>

\* One global for all the CPUs is cleared.
Recibe(c) ==
    /\ pc[c] = "recv" /\ vuelta[c] # Nadie
    /\ sujeto' = [sujeto EXCEPT ![c] = vuelta[c]]
    /\ vuelta' = [vuelta EXCEPT ![c] = Nadie]
    /\ pcb_en_ejecucion' = Nadie
    /\ pc' = [pc EXCEPT ![c] = "libera"]
    /\ UNCHANGED <<ready, sem_cpu_libre, cpus, plan, socket_cpu, corre, programa, desp, quantum>>

Libera(c) ==
    /\ pc[c] = "libera"
    /\ pid_ejecutando' = [pid_ejecutando EXCEPT ![c] = Nadie]
    /\ pc' = [pc EXCEPT ![c] = "post_cpu"]
    /\ UNCHANGED <<ready, sem_cpu_libre, lista_cpus_sched, pcb_en_ejecucion, plan, socket_cpu, en_cpu, sujeto, programa, desp, quantum>>

CpuLibre(c) ==
    /\ pc[c] = "post_cpu"
    /\ PostCpu
    /\ pc' = [pc EXCEPT ![c] = "atiende"]
    /\ UNCHANGED <<ready, cpus, pcb_en_ejecucion, plan, socket_cpu, en_cpu, sujeto, programa, desp, quantum>>

\* The list operation of each case of the switch; EXIT has none.
Atiende(c) ==
    /\ pc[c] = "atiende"
    /\ LET p == sujeto[c][1] IN
         \/ /\ sujeto[c][2] = "A_READY"
            /\ Encola(p)
            /\ pc' = [pc EXCEPT ![c] = "post"]
            /\ UNCHANGED <<nuevos, bloqueados>>
         \/ /\ sujeto[c][2] = "BLOCK"
            /\ bloqueados' = bloqueados \cup {p}
            /\ pc' = [pc EXCEPT ![c] = "recv"]
            /\ UNCHANGED <<colas_ready, nuevos>>
         \/ /\ sujeto[c][2] = "INIT_PROC"
            /\ IF nuevos = {} THEN UNCHANGED <<colas_ready, nuevos>> /\ pc' = [pc EXCEPT ![c] = "segundo"]
               ELSE \E q \in nuevos : /\ Encola(q)
                                      /\ nuevos' = nuevos \ {q}
                                      /\ pc' = [pc EXCEPT ![c] = "post_nuevo"]
            /\ UNCHANGED bloqueados
         \/ /\ sujeto[c][2] = "EXIT"
            /\ pc' = [pc EXCEPT ![c] = "post_exit"]
            /\ UNCHANGED <<colas_ready, nuevos, bloqueados>>
    /\ UNCHANGED <<sem_procesos_ready, sem_cpu_libre, cpus, pcb_en_ejecucion, plan, socket_cpu, en_cpu, sujeto, restan, desp, quantum>>

\* crear_proceso has posted for the new process; its creator follows.
SegundoEncolado(c) ==
    /\ pc[c] = "segundo"
    /\ Encola(sujeto[c][1])
    /\ pc' = [pc EXCEPT ![c] = "post"]
    /\ UNCHANGED <<sem_procesos_ready, sem_cpu_libre, cpus, pcb_en_ejecucion, plan, socket_cpu, en_cpu, sujeto, programa, desp, quantum>>

AvisaReady(c) ==
    /\ pc[c] \in {"post", "post_nuevo"}
    /\ PostReady
    /\ pc' = [pc EXCEPT ![c] = IF @ = "post" THEN "recv" ELSE "segundo"]
    /\ UNCHANGED <<colas_ready, sem_cpu_libre, cpus, pcb_en_ejecucion, plan, socket_cpu, en_cpu, sujeto, programa, desp, quantum>>

\* EXIT and SEG_FAULT post sem_procesos_ready with no process behind.
AvisaExit_CpuLibre(c) ==
    /\ pc[c] = "post_exit"
    /\ PostCpu
    /\ pc' = [pc EXCEPT ![c] = "recv"]
    /\ UNCHANGED <<ready, cpus, pcb_en_ejecucion, plan, socket_cpu, en_cpu, sujeto, programa, desp, quantum>>
AvisaExit(c) ==
    /\ pc[c] = "post_exit"
    /\ PostReady
    /\ pc' = [pc EXCEPT ![c] = "recv"]
    /\ UNCHANGED <<colas_ready, sem_cpu_libre, cpus, pcb_en_ejecucion, plan, socket_cpu, en_cpu, sujeto, programa, desp, quantum>>

-----------------------------------------------------------------------------
(* encolar_en_ready, for a process that was blocked                         *)

EncolaEnReady(d) ==
    /\ desp_pc[d] = "libre"
    /\ \E p \in bloqueados :
         /\ bloqueados' = bloqueados \ {p}
         /\ Encola(p)
         /\ despierta' = [despierta EXCEPT ![d] = p]
    /\ desp_pc' = [desp_pc EXCEPT ![d] = IF QueuePreemption THEN "compara" ELSE "post"]
    /\ UNCHANGED <<sem_procesos_ready, sem_cpu_libre, cpus, pcb_en_ejecucion, plan, socket_cpu, en_cpu, hilo, nuevos, restan, victima, quantum>>

\* Nothing protects pcb_en_ejecucion: it is read to compare ...
Compara(d) ==
    /\ desp_pc[d] = "compara"
    /\ LET mejor == pcb_en_ejecucion # Nadie /\ Prioridad[despierta[d]] < Prioridad[pcb_en_ejecucion]
       IN  desp_pc' = [desp_pc EXCEPT ![d] = IF mejor THEN "busca" ELSE "post"]
    /\ UNCHANGED <<ready, sem_cpu_libre, cpus, pcb_en_ejecucion, plan, socket_cpu, en_cpu, hilo, programa, despierta, victima, quantum>>

\* ... and again to look for its CPU, when it may be NULL: the scheduler dies.
BuscaVictima(d) ==
    /\ desp_pc[d] = "busca"
    /\ IF pcb_en_ejecucion = Nadie
       THEN desp_pc' = [desp_pc EXCEPT ![d] = "caido"] /\ UNCHANGED victima
       ELSE LET c == buscar_fd_por_pid(pcb_en_ejecucion) IN
              /\ victima' = [victima EXCEPT ![d] = c]
              /\ desp_pc' = [desp_pc EXCEPT ![d] = IF c = Nadie THEN "post" ELSE "envia"]
    /\ UNCHANGED <<ready, sem_cpu_libre, cpus, pcb_en_ejecucion, plan, socket_cpu, en_cpu, hilo, programa, despierta, quantum>>

Desaloja(d) ==
    /\ desp_pc[d] = "envia"
    /\ socket_cpu' = [socket_cpu EXCEPT ![victima[d]] = Append(@, INTERRUPCION)]
    /\ desp_pc' = [desp_pc EXCEPT ![d] = "post"]
    /\ UNCHANGED <<ready, sem_cpu_libre, cpus, pcb_en_ejecucion, plan, en_cpu, hilo, programa, despierta, victima, quantum>>

AvisaDespierto(d) ==
    /\ desp_pc[d] = "post"
    /\ PostReady
    /\ desp_pc' = [desp_pc EXCEPT ![d] = "libre"]
    /\ despierta' = [despierta EXCEPT ![d] = Nadie] /\ victima' = [victima EXCEPT ![d] = Nadie]
    /\ UNCHANGED <<colas_ready, sem_cpu_libre, cpus, pcb_en_ejecucion, plan, socket_cpu, en_cpu, hilo, programa, quantum>>

(* temporizador_quantum: nothing cancels it when its process leaves the CPU. *)

VenceQuantum(p) ==
    /\ duermen[p] > 0
    /\ duermen' = [duermen EXCEPT ![p] = @ - 1]
    /\ LET c == buscar_fd_por_pid(p) IN
         por_interrumpir' = IF c = Nadie THEN por_interrumpir ELSE [por_interrumpir EXCEPT ![c] = @ + 1]
    /\ UNCHANGED <<ready, sem_cpu_libre, cpus, pcb_en_ejecucion, plan, socket_cpu, en_cpu, hilo, programa, desp>>

InterrumpeQuantum(c) ==
    /\ por_interrumpir[c] > 0
    /\ por_interrumpir' = [por_interrumpir EXCEPT ![c] = @ - 1]
    /\ socket_cpu' = [socket_cpu EXCEPT ![c] = Append(@, INTERRUPCION)]
    /\ UNCHANGED <<ready, sem_cpu_libre, cpus, pcb_en_ejecucion, plan, en_cpu, hilo, programa, desp, duermen>>

-----------------------------------------------------------------------------

Planificador == EsperaReady \/ EsperaCpu \/ BuscaCpu \/ SacaDeReady \/ EnviaPcb \/ MarcaOcupada
CpuModulo(c) == TomaOrden(c) \/ Syscall(c) \/ Interrumpida(c)
AtiendeCpu(c) ==
    \/ Conecta(c) \/ Recibe(c) \/ Libera(c) \/ CpuLibre(c) \/ Atiende(c)
    \/ SegundoEncolado(c) \/ AvisaReady(c) \/ AvisaExit(c)
Despierta(d) == EncolaEnReady(d) \/ Compara(d) \/ BuscaVictima(d) \/ Desaloja(d) \/ AvisaDespierto(d)

\* The scheduler has not died of a NULL pointer.
Vivo == \A d \in Despertador : desp_pc[d] # "caido"

Next ==
    \/ Vivo /\ Planificador
    \/ \E c \in Cpu : Vivo /\ AtiendeCpu(c)
    \/ \E c \in Cpu : CpuModulo(c)
    \/ \E d \in Despertador : Vivo /\ Despierta(d)
    \/ \E c \in Cpu : Vivo /\ InterrumpeQuantum(c)
    \/ \E p \in Pid : Vivo /\ VenceQuantum(p)

Spec == Init /\ [][Next]_vars

-----------------------------------------------------------------------------

TypeOK ==
    /\ colas_ready \in [Colas -> Seq(Pid)]
    /\ sem_procesos_ready \in Nat /\ sem_cpu_libre \in Nat
    /\ lista_cpus_sched \in Seq(Cpu)
    /\ pid_ejecutando \in [Cpu -> Pid \cup {Nadie}]
    /\ pcb_en_ejecucion \in Pid \cup {Nadie}
    /\ plan_pc \in {"ready", "cpu", "busca", "saca", "envia", "marca"}
    /\ fd \in Cpu \cup {Nadie} /\ pcb \in Pid \cup {Nadie}
    /\ plan_pc \in {"saca", "envia", "marca"} => fd \in Cpu
    /\ plan_pc \in {"envia", "marca"} => pcb \in Pid
    /\ socket_cpu \in [Cpu -> Seq(Pid \cup {INTERRUPCION})]
    /\ corre \in [Cpu -> Pid \cup {Nadie}]
    /\ pc \in [Cpu -> {"conecta", "recv", "libera", "post_cpu", "atiende", "segundo",
                       "post", "post_nuevo", "post_exit"}]
    /\ \A v \in {vuelta, sujeto} :
         v \in [Cpu -> (Pid \X {"A_READY", "BLOCK", "INIT_PROC", "EXIT"}) \cup {Nadie}]
    /\ \A c \in Cpu : pc[c] \notin {"conecta", "recv"} => sujeto[c] # Nadie
    /\ nuevos \subseteq Pid /\ bloqueados \subseteq Pid
    /\ restan \in [Pid -> 0 .. MaxLlamadas]
    /\ desp_pc \in [Despertador -> {"libre", "compara", "busca", "envia", "post", "caido"}]
    /\ despierta \in [Despertador -> Pid \cup {Nadie}]
    /\ victima \in [Despertador -> Cpu \cup {Nadie}]
    /\ duermen \in [Pid -> Nat] /\ por_interrumpir \in [Cpu -> Nat]

\* The PCBs a CPU has been given and no thread has received back.
Pcbs(c) == {<<"socket", k>> : k \in {j \in 1 .. Len(socket_cpu[c]) : socket_cpu[c][j] \in Pid}}
              \cup (IF corre[c] # Nadie THEN {<<"corre", 0>>} ELSE {})
              \cup (IF vuelta[c] # Nadie THEN {<<"vuelta", 0>>} ELSE {})
Ociosa(c) == /\ Pcbs(c) = {} /\ ~(plan_pc = "envia" /\ fd = c)
             /\ pc[c] \notin {"conecta", "libera", "post_cpu"}

\* A CPU has one PCB at most, so hay_interrupcion never takes the first bytes of a
\* PCB for an interruption, whatever the marks of lista_cpus_sched say meanwhile.
UnPcbPorCpu == \A c \in Cpu : /\ Cardinality(Pcbs(c)) <= 1
                              /\ plan_pc = "envia" /\ fd = c => Pcbs(c) = {}

\* The posts of sem_procesos_ready that are on their way.
PostsPendientes ==
    Cardinality({c \in Cpu : pc[c] \in {"post", "post_nuevo", "post_exit"}})
      + Cardinality({d \in Despertador : desp_pc[d] \in {"compara", "busca", "envia", "post", "caido"}})
Encolados == {x \in Colas \X (1 .. Cardinality(Pid)) : x[2] <= Len(colas_ready[x[1]])}

\* Every process in a READY queue has a token the planner has taken or will be able
\* to take: none is left in its queue because of a token that was lost on the way
\* back from obtener_cpu_libre.
NingunReadySinFicha ==
    Cardinality(Encolados) <=
        sem_procesos_ready + PostsPendientes + (IF plan_pc \in {"cpu", "busca", "saca"} THEN 1 ELSE 0)

\* sem_cpu_libre never promises more CPUs than are idle.  (It may promise fewer:
\* the planner loses a token each time obtener_cpu_libre fails.)
FichasDeCpuReales ==
    sem_cpu_libre + (IF plan_pc \in {"busca", "saca"} THEN 1 ELSE 0)
        <= Cardinality({c \in Cpu : Ociosa(c)})

Asignado(c) ==
    IF plan_pc = "envia" /\ fd = c THEN pcb
    ELSE IF \E k \in 1 .. Len(socket_cpu[c]) : socket_cpu[c][k] \in Pid
         THEN socket_cpu[c][CHOOSE k \in 1 .. Len(socket_cpu[c]) : socket_cpu[c][k] \in Pid]
    ELSE IF corre[c] # Nadie THEN corre[c]
    ELSE IF vuelta[c] # Nadie THEN vuelta[c][1] ELSE Nadie

Tabla == INSTANCE Reparto WITH cola <- colas_ready, exec <- [c \in Cpu |-> Asignado(c)]

\* Semaphores, marks, sockets and late interruptions together do what Reparto says:
\* a free CPU is given the oldest process of the best queue, and gives it back once.
CumpleReparto == Tabla!Spec

(* What the comments of the code say and the runs refute *)

\* "Busca una CPU libre y devuelve su fd (-1 si no hay)": when it returns -1 no
\* connected CPU is idle.
MenosUnoSiNoHay ==
    [][plan_pc = "busca" /\ plan_pc' = "ready" => \A c \in Cpu : ~Ociosa(c)]_vars

=============================================================================

-------------------------- MODULE DispatcherProofs --------------------------
(***************************************************************************)
(* Proofs about Dispatcher, for any processes, CPUs, waking threads,       *)
(* queues, priorities and bounds.                                          *)
(***************************************************************************)
EXTENDS Dispatcher, FiniteSetTheorems, SequenceTheorems, TLAPS

-----------------------------------------------------------------------------
(* Types.                                                                   *)

LEMMA MenorNat ==
    ASSUME NEW S, S \subseteq Nat, S # {}
    PROVE  \E x \in S : \A y \in S : x <= y
<1>1. PICK x \in S : \A y \in S : ~(<<y, x>> \in OpToRel(<, Nat))
  BY WFMin, NatLessThanWellFounded, Zenon
<1>2. ASSUME NEW y \in S PROVE x <= y
  <2>1. <<y, x>> \in Nat \X Nat
    OBVIOUS
  <2>2. ~(y < x)
    BY <1>1, <2>1 DEF OpToRel
  <2>3. QED
    BY <2>2
<1>3. QED
  BY <1>2

\* obtener_cpu_libre and buscar_fd_por_pid return a connected CPU with the mark that was
\* looked for, or none.
LEMMA PrimeraTipo ==
    ASSUME TypeOK, NEW x
    PROVE  /\ Primera(x) \in Cpu \cup {Nadie}
           /\ Primera(x) \in Cpu => pid_ejecutando[Primera(x)] = x
           /\ Primera(x) \in Cpu => \E k \in 1 .. Len(lista_cpus_sched) : Primera(x) = lista_cpus_sched[k]
<1> DEFINE M == {k \in 1 .. Len(lista_cpus_sched) : pid_ejecutando[lista_cpus_sched[k]] = x}
           k0 == CHOOSE k \in M : \A j \in M : k <= j
<1>1. CASE M = {}
  BY <1>1, DistintosAssumption DEF Primera, DistintosAssumption
<1>2. CASE M # {}
  <2>1. \E k \in M : \A j \in M : k <= j
    <3>1. M \subseteq Nat
      BY LenProperties DEF TypeOK
    <3>2. QED
      BY <1>2, <3>1, MenorNat
  <2>2. k0 \in M
    BY <2>1
  <2>3. Primera(x) = lista_cpus_sched[k0]
    BY <1>2 DEF Primera
  <2> HIDE DEF k0
  <2>4. lista_cpus_sched[k0] \in Cpu
    BY <2>2, ElementOfSeq DEF TypeOK
  <2>5. QED
    BY <2>2, <2>3, <2>4
<1>3. QED
  BY <1>1, <1>2

\* list_add is on one of the queues, also when the priority of the PCB is not the index of one.
LEMMA EnCola == \A p \in Pid : ColaDe(p) \in Colas
  BY ColasAssumption, PrioridadAssumption DEF ColasAssumption, PrioridadAssumption, ColaDe, Colas

LEMMA TiposInit == Init => TypeOK
<1> SUFFICES ASSUME Init PROVE TypeOK
  OBVIOUS
<1>1. Colas \subseteq Nat /\ \A p \in Pid : ColaDe(p) \in Colas
  BY EnCola, ColasAssumption DEF ColasAssumption, Colas
<1>2. MaxLlamadas \in 0 .. MaxLlamadas
  BY MotivosAssumption DEF MotivosAssumption
<1>3. QED
  BY <1>1, <1>2 DEF Init, TypeOK

LEMMA TiposNext == TypeOK /\ [Next]_vars => TypeOK'
<1> SUFFICES ASSUME TypeOK, [Next]_vars PROVE TypeOK'
  OBVIOUS
<1> DEFINE Vuelta == (Pid \X {"A_READY", "BLOCK", "INIT_PROC", "EXIT"}) \cup {Nadie}
<1>1. /\ vuelta \in [Cpu -> Vuelta] /\ sujeto \in [Cpu -> Vuelta]
      /\ \A p \in Pid : ColaDe(p) \in Colas
      /\ Nadie \notin Pid /\ Nadie \notin Cpu
  BY EnCola, DistintosAssumption DEF DistintosAssumption, TypeOK
<1>2. ASSUME NEW p \in Pid, Encola(p) PROVE colas_ready' \in [Colas -> Seq(Pid)]
  BY <1>1, <1>2 DEF Encola, TypeOK
<1>3. ASSUME NEW c, NEW x \in Pid \cup {INTERRUPCION}, socket_cpu' = [socket_cpu EXCEPT ![c] = Append(@, x)]
       PROVE  socket_cpu' \in [Cpu -> Seq(Pid \cup {INTERRUPCION})]
  <2> DEFINE Orden == Pid \cup {INTERRUPCION}
  <2>1. CASE c \in Cpu
    <3>1. socket_cpu[c] \in Seq(Orden)
      BY <2>1 DEF TypeOK
    <3>2. Append(socket_cpu[c], x) \in Seq(Orden)
      BY <3>1
    <3>3. QED
      BY <1>3, <2>1, <3>2 DEF TypeOK
  <2>2. CASE c \notin Cpu
    BY <1>3, <2>2 DEF TypeOK
  <2>3. QED
    BY <2>1, <2>2
<1>4. ASSUME NEW c \in Cpu, socket_cpu[c] # <<>>, socket_cpu' = [socket_cpu EXCEPT ![c] = Tail(@)]
       PROVE  socket_cpu' \in [Cpu -> Seq(Pid \cup {INTERRUPCION})]
  BY <1>4, HeadTailProperties DEF TypeOK
<1> USE DEF TypeOK
<1>5. CASE UNCHANGED vars
  BY <1>5 DEF vars, ready, cpus, plan, en_cpu, hilo, programa, desp, quantum
<1>6. CASE Planificador
  <2>1. CASE EsperaReady
    BY <2>1 DEF EsperaReady, cpus, en_cpu, hilo, programa, desp, quantum
  <2>2. CASE EsperaCpu
    BY <2>2 DEF EsperaCpu, ready, cpus, en_cpu, hilo, programa, desp, quantum
  <2>3. CASE BuscaCpu
    <3>1. fd' \in Cpu \cup {Nadie} /\ (plan_pc' = "saca" => fd' \in Cpu)
      BY <2>3, PrimeraTipo DEF BuscaCpu, obtener_cpu_libre
    <3>2. plan_pc' \in {"ready", "saca"} /\ sem_procesos_ready' \in Nat
      BY <2>3 DEF BuscaCpu, PostReady
    <3>3. QED
      BY <2>3, <3>1, <3>2 DEF BuscaCpu, cpus, en_cpu, hilo, programa, desp, quantum
  <2>4. CASE SacaDeReady
    <3>1. /\ plan_pc = "saca" /\ plan_pc' \in {"envia", "ready"}
          /\ colas_ready' \in [Colas -> Seq(Pid)] /\ sem_cpu_libre' \in Nat
          /\ pcb_en_ejecucion' \in Pid \cup {Nadie} /\ pcb' \in Pid \cup {Nadie} /\ fd' \in Cpu \cup {Nadie}
          /\ plan_pc' = "envia" => fd' \in Cpu /\ pcb' \in Pid
      <4>1. ASSUME NEW q \in Colas, ColaServida(q)
            PROVE  Head(colas_ready[q]) \in Pid /\ Tail(colas_ready[q]) \in Seq(Pid)
        BY <4>1 DEF ColaServida
      <4>2. CASE \A q \in Colas : colas_ready[q] = <<>>
        BY <2>4, <4>2 DEF SacaDeReady, ColaServida, PostCpu
      <4>3. CASE ~\A q \in Colas : colas_ready[q] = <<>>
        <5>1. PICK q \in Colas : /\ ColaServida(q) /\ pcb' = Head(colas_ready[q]) /\ pcb_en_ejecucion' = pcb'
                                /\ colas_ready' = [colas_ready EXCEPT ![q] = Tail(@)] /\ plan_pc' = "envia"
                                /\ UNCHANGED <<sem_cpu_libre, fd>>
          BY <2>4, <4>3 DEF SacaDeReady
        <5>2. QED
          BY <2>4, <4>1, <5>1 DEF SacaDeReady
      <4>4. QED
        BY <4>2, <4>3
    <3>2. QED
      BY <2>4, <3>1 DEF SacaDeReady, cpus, en_cpu, hilo, programa, desp, quantum
  <2>5. CASE EnviaPcb
    <3>1. socket_cpu' \in [Cpu -> Seq(Pid \cup {INTERRUPCION})]
      BY <2>5, <1>3 DEF EnviaPcb
    <3>2. QED
      BY <2>5, <3>1 DEF EnviaPcb, ready, cpus, en_cpu, hilo, programa, desp, quantum
  <2>6. CASE MarcaOcupada
    BY SMTT(30), <2>6 DEF MarcaOcupada, ready, en_cpu, hilo, programa, desp
  <2>7. QED
    BY <1>6, <2>1, <2>2, <2>3, <2>4, <2>5, <2>6 DEF Planificador
<1>7. ASSUME NEW c \in Cpu, CpuModulo(c) PROVE TypeOK'
  <2>1. CASE TomaOrden(c)
    <3>1. socket_cpu' \in [Cpu -> Seq(Pid \cup {INTERRUPCION})] /\ corre' \in [Cpu -> Pid \cup {Nadie}]
      BY <2>1, <1>4 DEF TomaOrden
    <3>2. QED
      BY <2>1, <3>1 DEF TomaOrden, ready, cpus, plan, hilo, programa, desp, quantum
  <2>2. ASSUME NEW m \in {"A_READY", "BLOCK", "INIT_PROC", "EXIT"}, corre[c] # Nadie, DevuelvePcb(c, m)
        PROVE  vuelta' \in [Cpu -> Vuelta] /\ corre' \in [Cpu -> Pid \cup {Nadie}]
    BY <1>1, <2>2 DEF DevuelvePcb
  <2>3. CASE Syscall(c)
    <3>1. vuelta' \in [Cpu -> Vuelta] /\ corre' \in [Cpu -> Pid \cup {Nadie}]
      BY <2>2, <2>3, MotivosAssumption DEF Syscall, MotivosAssumption
    <3>2. restan' \in [Pid -> 0 .. MaxLlamadas]
      <4>1. corre[c] \in Pid
        BY <2>3 DEF Syscall
      <4>2. restan[corre[c]] \in 0 .. MaxLlamadas /\ MaxLlamadas \in Nat
        BY <4>1, MotivosAssumption DEF MotivosAssumption
      <4>3. restan' = restan \/ (restan[corre[c]] > 0 /\ restan' = [restan EXCEPT ![corre[c]] = @ - 1])
        BY <2>3 DEF Syscall
      <4>4. restan[corre[c]] > 0 => restan[corre[c]] - 1 \in 0 .. MaxLlamadas
        BY <4>2
      <4>5. restan \in [Pid -> 0 .. MaxLlamadas]
        OBVIOUS
      <4> HIDE DEF TypeOK
      <4>6. QED
        BY <4>3, <4>4, <4>5
    <3>3. QED
      BY <2>3, <3>1, <3>2 DEF Syscall, ready, cpus, plan, hilo, desp, quantum
  <2>4. CASE Interrumpida(c)
    <3>1. vuelta' \in [Cpu -> Vuelta] /\ corre' \in [Cpu -> Pid \cup {Nadie}]
      BY <2>2, <2>4 DEF Interrumpida
    <3>2. socket_cpu' \in [Cpu -> Seq(Pid \cup {INTERRUPCION})]
      BY <2>4, <1>4 DEF Interrumpida
    <3>3. QED
      BY <2>4, <3>1, <3>2 DEF Interrumpida, ready, cpus, plan, hilo, programa, desp, quantum
  <2>5. QED
    BY <1>7, <2>1, <2>3, <2>4 DEF CpuModulo
<1>8. ASSUME NEW c \in Cpu, AtiendeCpu(c) PROVE TypeOK'
  <2>1. CASE Conecta(c)
    BY SMTT(30), <2>1 DEF Conecta, PostCpu, ready, plan, en_cpu, programa, desp, quantum
  <2>2. CASE Recibe(c)
    BY <1>1, <2>2 DEF Recibe, ready, cpus, plan, programa, desp, quantum
  <2>3. CASE Libera(c)
    BY <2>3 DEF Libera, ready, plan, en_cpu, programa, desp, quantum
  <2>4. CASE CpuLibre(c)
    BY <2>4 DEF CpuLibre, PostCpu, ready, cpus, plan, en_cpu, programa, desp, quantum
  <2>5. CASE Atiende(c)
    <3>1. sujeto[c] # Nadie /\ sujeto[c][1] \in Pid
      BY <1>1, <2>5 DEF Atiende
    <3>2. /\ colas_ready' \in [Colas -> Seq(Pid)] /\ nuevos' \subseteq Pid /\ bloqueados' \subseteq Pid
          /\ \E s \in {"recv", "post", "segundo", "post_nuevo", "post_exit"} : pc' = [pc EXCEPT ![c] = s]
      BY <1>2, <2>5, <3>1 DEF Atiende
    <3>3. QED
      BY <2>5, <3>1, <3>2 DEF Atiende, cpus, plan, en_cpu, desp, quantum
  <2>6. CASE SegundoEncolado(c)
    <3>1. sujeto[c] # Nadie /\ colas_ready' \in [Colas -> Seq(Pid)]
      BY <1>1, <1>2, <2>6 DEF SegundoEncolado
    <3>2. QED
      BY <2>6, <3>1 DEF SegundoEncolado, cpus, plan, en_cpu, programa, desp, quantum
  <2>7. CASE AvisaReady(c)
    BY <2>7 DEF AvisaReady, PostReady, cpus, plan, en_cpu, programa, desp, quantum
  <2>8. CASE AvisaExit(c)
    BY <2>8 DEF AvisaExit, PostReady, cpus, plan, en_cpu, programa, desp, quantum
  <2>9. QED
    BY <1>8, <2>1, <2>2, <2>3, <2>4, <2>5, <2>6, <2>7, <2>8 DEF AtiendeCpu
<1>9. ASSUME NEW d \in Despertador, Despierta(d) PROVE TypeOK'
  <2>1. CASE EncolaEnReady(d)
    <3>1. /\ colas_ready' \in [Colas -> Seq(Pid)] /\ bloqueados' \subseteq Pid
          /\ despierta' \in [Despertador -> Pid \cup {Nadie}]
      BY <1>2, <2>1 DEF EncolaEnReady
    <3>2. QED
      BY <2>1, <3>1 DEF EncolaEnReady, cpus, plan, en_cpu, hilo, quantum
  <2>2. CASE Compara(d)
    BY <2>2 DEF Compara, ready, cpus, plan, en_cpu, hilo, programa, quantum
  <2>3. CASE BuscaVictima(d)
    <3>1. /\ desp_pc' \in [Despertador -> {"libre", "compara", "busca", "envia", "post", "caido"}]
          /\ victima' \in [Despertador -> Cpu \cup {Nadie}]
      <4>1. buscar_fd_por_pid(pcb_en_ejecucion) \in Cpu \cup {Nadie}
        BY PrimeraTipo DEF buscar_fd_por_pid
      <4>2. QED
        BY <2>3, <4>1 DEF BuscaVictima
    <3>2. QED
      BY <2>3, <3>1 DEF BuscaVictima, ready, cpus, plan, en_cpu, hilo, programa, quantum
  <2>4. CASE Desaloja(d)
    <3>1. socket_cpu' \in [Cpu -> Seq(Pid \cup {INTERRUPCION})]
      BY <2>4, <1>3 DEF Desaloja
    <3>2. QED
      BY <2>4, <3>1 DEF Desaloja, ready, cpus, plan, en_cpu, hilo, programa, quantum
  <2>5. CASE AvisaDespierto(d)
    BY <2>5 DEF AvisaDespierto, PostReady, cpus, plan, en_cpu, hilo, programa, quantum
  <2>6. QED
    BY <1>9, <2>1, <2>2, <2>3, <2>4, <2>5 DEF Despierta
<1>10. ASSUME NEW p \in Pid, VenceQuantum(p) PROVE TypeOK'
  <2>1. por_interrumpir' \in [Cpu -> Nat] /\ duermen' \in [Pid -> Nat]
    <3>1. buscar_fd_por_pid(p) \in Cpu \cup {Nadie} /\ duermen[p] \in Nat
      BY PrimeraTipo DEF buscar_fd_por_pid
    <3>2. QED
      BY SMTT(30), <1>10, <3>1 DEF VenceQuantum
  <2>2. QED
    BY <1>10, <2>1 DEF VenceQuantum, ready, cpus, plan, en_cpu, hilo, programa, desp
<1>11. ASSUME NEW c \in Cpu, InterrumpeQuantum(c) PROVE TypeOK'
  <2>1. socket_cpu' \in [Cpu -> Seq(Pid \cup {INTERRUPCION})] /\ por_interrumpir' \in [Cpu -> Nat]
    BY <1>11, <1>3 DEF InterrumpeQuantum
  <2>2. QED
    BY <1>11, <2>1 DEF InterrumpeQuantum, ready, cpus, plan, en_cpu, hilo, programa, desp
<1>12. QED
  BY <1>5, <1>6, <1>7, <1>8, <1>9, <1>10, <1>11 DEF Next

\* The code's variables keep their types: what is sent, marked or queued is a process or
\* a CPU that exists, and a semaphore never goes below zero.
THEOREM TypeCorrect == Spec => []TypeOK
  BY TiposInit, TiposNext, PTL DEF Spec

-----------------------------------------------------------------------------
(* What is in a socket.                                                     *)

Orden == Pid \cup {INTERRUPCION}
HayPcb(s) == \E k \in 1 .. Len(s) : s[k] \in Pid
UnoEn(s) == \A j, k \in 1 .. Len(s) : s[j] \in Pid /\ s[k] \in Pid => j = k
ElPcb(s) == s[CHOOSE k \in 1 .. Len(s) : s[k] \in Pid]

LEMMA ElPcbUnico ==
    ASSUME NEW s \in Seq(Orden), UnoEn(s), NEW k \in 1 .. Len(s), s[k] \in Pid
    PROVE  HayPcb(s) /\ ElPcb(s) = s[k]
  BY DEF UnoEn, HayPcb, ElPcb

LEMMA SocketVacio == HayPcb(<<>>) = FALSE /\ UnoEn(<<>>)
  BY DEF HayPcb, UnoEn

LEMMA AgregaPcb ==
    ASSUME NEW s \in Seq(Orden), ~HayPcb(s), NEW p \in Pid
    PROVE  UnoEn(Append(s, p)) /\ HayPcb(Append(s, p)) /\ ElPcb(Append(s, p)) = p
<1> DEFINE t == Append(s, p)
<1>1. /\ t \in Seq(Orden) /\ Len(s) \in Nat /\ Len(t) = Len(s) + 1
      /\ \A k \in 1 .. Len(s) : t[k] = s[k]
      /\ t[Len(t)] = p
  BY DEF Orden
<1> HIDE DEF t
<1>2. UnoEn(t)
  BY <1>1 DEF UnoEn, HayPcb
<1>3. Len(t) \in 1 .. Len(t)
  BY <1>1
<1>4. QED
  BY <1>1, <1>2, <1>3, ElPcbUnico DEF t

LEMMA AgregaInterrupcion ==
    ASSUME NEW s \in Seq(Orden), UnoEn(s)
    PROVE  /\ UnoEn(Append(s, INTERRUPCION))
           /\ HayPcb(Append(s, INTERRUPCION)) = HayPcb(s)
           /\ HayPcb(s) => ElPcb(Append(s, INTERRUPCION)) = ElPcb(s)
<1> DEFINE t == Append(s, INTERRUPCION)
<1>1. /\ t \in Seq(Orden) /\ Len(s) \in Nat /\ Len(t) = Len(s) + 1
      /\ \A k \in 1 .. Len(s) : t[k] = s[k]
      /\ t[Len(t)] \notin Pid
  BY DistintosAssumption DEF Orden, DistintosAssumption
<1> HIDE DEF t
<1>2. UnoEn(t) /\ HayPcb(t) = HayPcb(s)
  BY <1>1 DEF UnoEn, HayPcb
<1>3. ASSUME HayPcb(s) PROVE ElPcb(t) = ElPcb(s)
  <2>1. PICK k \in 1 .. Len(s) : s[k] \in Pid
    BY <1>3 DEF HayPcb
  <2>2. k \in 1 .. Len(t) /\ t[k] = s[k]
    BY <1>1, <2>1
  <2>3. QED
    BY <1>1, <1>2, <2>1, <2>2, ElPcbUnico
<1>4. QED
  BY <1>2, <1>3 DEF t

LEMMA SacaPrimera ==
    ASSUME NEW s \in Seq(Orden), UnoEn(s), s # <<>>
    PROVE  /\ UnoEn(Tail(s))
           /\ Head(s) \in Pid => ~HayPcb(Tail(s)) /\ HayPcb(s) /\ ElPcb(s) = Head(s)
           /\ Head(s) \notin Pid => HayPcb(Tail(s)) = HayPcb(s)
           /\ Head(s) \notin Pid /\ HayPcb(s) => ElPcb(Tail(s)) = ElPcb(s)
<1> DEFINE t == Tail(s)
<1>1. /\ t \in Seq(Orden) /\ Len(s) \in Nat \ {0} /\ Len(t) = Len(s) - 1
      /\ \A k \in 1 .. Len(t) : t[k] = s[k + 1]
      /\ Head(s) = s[1]
  BY HeadTailProperties, EmptySeq
<1> HIDE DEF t
<1>2. \A k \in 2 .. Len(s) : k - 1 \in 1 .. Len(t) /\ t[k - 1] = s[k]
  BY <1>1
<1>3. UnoEn(t)
  <2>1. SUFFICES ASSUME NEW j \in 1 .. Len(t), NEW k \in 1 .. Len(t), t[j] \in Pid, t[k] \in Pid
                 PROVE  j = k
    BY DEF UnoEn
  <2>2. j + 1 \in 1 .. Len(s) /\ k + 1 \in 1 .. Len(s) /\ s[j + 1] \in Pid /\ s[k + 1] \in Pid
    BY <1>1, <2>1
  <2>3. j + 1 = k + 1
    BY <2>2 DEF UnoEn
  <2>4. QED
    BY <2>3
<1>4. CASE Head(s) \in Pid
  <2>1. 1 \in 1 .. Len(s) /\ s[1] \in Pid
    BY <1>1, <1>4
  <2>2. ~HayPcb(t)
    BY <1>1, <2>1 DEF UnoEn, HayPcb
  <2>3. QED
    BY <1>1, <1>3, <1>4, <2>1, <2>2, ElPcbUnico DEF t
<1>5. CASE Head(s) \notin Pid
  <2>1. HayPcb(t) = HayPcb(s)
    BY <1>1, <1>2, <1>5 DEF HayPcb
  <2>2. ASSUME HayPcb(s) PROVE ElPcb(t) = ElPcb(s)
    <3>1. PICK k \in 1 .. Len(s) : s[k] \in Pid
      BY <2>2 DEF HayPcb
    <3>2. k \in 2 .. Len(s)
      BY <1>1, <1>5, <3>1
    <3>3. k - 1 \in 1 .. Len(t) /\ t[k - 1] = s[k]
      BY <1>2, <3>2
    <3>4. ElPcb(t) = t[k - 1] /\ ElPcb(s) = s[k]
      BY <1>1, <1>3, <3>1, <3>3, ElPcbUnico
    <3>5. QED
      BY <3>3, <3>4
  <2>3. QED
    BY <1>3, <1>5, <2>1, <2>2 DEF t
<1>6. QED
  BY <1>4, <1>5

-----------------------------------------------------------------------------
(* One PCB per CPU: what the marks of lista_cpus_sched must mean.           *)

EnSocket(c) == HayPcb(socket_cpu[c])
Vacia(c) == ~EnSocket(c) /\ corre[c] = Nadie /\ vuelta[c] = Nadie

\* A PCB is on its way to the CPU, in it or on its way back.
UnSoloPcb ==
    \A c \in Cpu :
      /\ UnoEn(socket_cpu[c])
      /\ EnSocket(c) => corre[c] = Nadie /\ vuelta[c] = Nadie
      /\ corre[c] # Nadie => vuelta[c] = Nadie

\* Which one it is.
Contenido(c) ==
    IF EnSocket(c) THEN ElPcb(socket_cpu[c])
    ELSE IF corre[c] # Nadie THEN corre[c]
    ELSE IF vuelta[c] # Nadie THEN vuelta[c][1] ELSE Nadie

\* What a CPU does by itself takes no PCB from it: the one it has moves from the socket to
\* the registers and from there to the answer, and an interruption never displaces it.
LEMMA CpuModuloConserva ==
    ASSUME TypeOK, UnSoloPcb, NEW c \in Cpu, CpuModulo(c)
    PROVE  UnSoloPcb' /\ \A d \in Cpu : Vacia(d)' = Vacia(d) /\ Contenido(d)' = Contenido(d)
<1> DEFINE s == socket_cpu[c]
<1>1. s \in Seq(Orden) /\ UnoEn(s) /\ Nadie \notin Pid
  BY DistintosAssumption DEF TypeOK, Orden, UnSoloPcb, DistintosAssumption
<1>2. ASSUME s # <<>>
      PROVE  /\ UnoEn(Tail(s))
             /\ Head(s) \in Pid => ~HayPcb(Tail(s)) /\ HayPcb(s) /\ ElPcb(s) = Head(s)
             /\ Head(s) \notin Pid => HayPcb(Tail(s)) = HayPcb(s)
             /\ Head(s) \notin Pid /\ HayPcb(s) => ElPcb(Tail(s)) = ElPcb(s)
  BY <1>1, <1>2, SacaPrimera
<1> HIDE DEF s
<1>3. CASE TomaOrden(c)
  <2>1. /\ s # <<>> /\ corre[c] = Nadie /\ UNCHANGED vuelta
        /\ \A d \in Cpu : socket_cpu'[d] = IF d = c THEN Tail(s) ELSE socket_cpu[d]
        /\ \A d \in Cpu : corre'[d] = IF d = c THEN IF Head(s) \in Pid THEN Head(s) ELSE Nadie ELSE corre[d]
    BY <1>3 DEF TomaOrden, TypeOK, s
  <2>2. UnSoloPcb'
    BY <1>1, <1>2, <2>1 DEF UnSoloPcb, EnSocket, s
  <2>3. \A d \in Cpu : d # c => Vacia(d)' = Vacia(d) /\ Contenido(d)' = Contenido(d)
    BY <2>1 DEF Vacia, Contenido, EnSocket
  <2>4. Vacia(c)' = Vacia(c) /\ Contenido(c)' = Contenido(c)
    BY <1>1, <1>2, <2>1 DEF UnSoloPcb, Vacia, Contenido, EnSocket, s
  <2>5. QED
    BY <2>2, <2>3, <2>4
<1>4. ASSUME NEW m \in {"A_READY", "BLOCK", "INIT_PROC", "EXIT"}, corre[c] # Nadie, DevuelvePcb(c, m),
             NEW t, UnoEn(t), ~HayPcb(t), \A d \in Cpu : socket_cpu'[d] = IF d = c THEN t ELSE socket_cpu[d]
      PROVE  UnSoloPcb' /\ \A d \in Cpu : Vacia(d)' = Vacia(d) /\ Contenido(d)' = Contenido(d)
  <2>1. /\ \A d \in Cpu : corre'[d] = IF d = c THEN Nadie ELSE corre[d]
        /\ \A d \in Cpu : vuelta'[d] = IF d = c THEN <<corre[c], m>> ELSE vuelta[d]
    BY <1>4 DEF DevuelvePcb, TypeOK
  <2>2. <<corre[c], m>> # Nadie
    BY <1>4, DistintosAssumption DEF DistintosAssumption, TypeOK
  <2>3. UnSoloPcb'
    BY <1>4, <2>1 DEF UnSoloPcb, EnSocket
  <2>4. \A d \in Cpu : d # c => Vacia(d)' = Vacia(d) /\ Contenido(d)' = Contenido(d)
    BY <1>4, <2>1 DEF Vacia, Contenido, EnSocket
  <2>5. Vacia(c)' = Vacia(c) /\ Contenido(c)' = Contenido(c)
    BY <1>4, <2>1, <2>2 DEF UnSoloPcb, Vacia, Contenido, EnSocket
  <2>6. QED
    BY <2>3, <2>4, <2>5
<1>5. CASE Syscall(c)
  <2>1. /\ corre[c] # Nadie /\ \A d \in Cpu : socket_cpu'[d] = IF d = c THEN s ELSE socket_cpu[d]
        /\ \E m \in {"A_READY", "BLOCK", "INIT_PROC", "EXIT"} : DevuelvePcb(c, m)
    BY <1>5, MotivosAssumption DEF Syscall, MotivosAssumption, s
  <2>2. ~HayPcb(s)
    BY <2>1 DEF UnSoloPcb, EnSocket, s
  <2>3. QED
    BY <1>1, <1>4, <2>1, <2>2
<1>6. CASE Interrumpida(c)
  <2>1. /\ corre[c] # Nadie /\ \A d \in Cpu : socket_cpu'[d] = IF d = c THEN Tail(s) ELSE socket_cpu[d]
        /\ DevuelvePcb(c, "A_READY") /\ s # <<>>
    BY <1>6 DEF Interrumpida, TypeOK, s
  <2>2. ~HayPcb(s)
    BY <2>1 DEF UnSoloPcb, EnSocket, s
  <2>3. QED
    BY <1>2, <1>4, <2>1, <2>2
<1>7. QED
  BY <1>3, <1>5, <1>6 DEF CpuModulo

LEMMA InterrupcionConserva ==
    ASSUME TypeOK, UnSoloPcb, UNCHANGED en_cpu,
           NEW c, socket_cpu' = [socket_cpu EXCEPT ![c] = Append(@, INTERRUPCION)]
    PROVE  UnSoloPcb' /\ \A d \in Cpu : Vacia(d)' = Vacia(d) /\ Contenido(d)' = Contenido(d)
<1>1. SUFFICES ASSUME NEW d \in Cpu
               PROVE  /\ Vacia(d)' = Vacia(d) /\ Contenido(d)' = Contenido(d)
                      /\ UnoEn(socket_cpu'[d]) /\ HayPcb(socket_cpu'[d]) = HayPcb(socket_cpu[d])
  BY DEF UnSoloPcb, EnSocket, en_cpu
<1> DEFINE s == socket_cpu[d]
<1>2. s \in Seq(Orden) /\ UnoEn(s) /\ socket_cpu'[d] = IF d = c THEN Append(s, INTERRUPCION) ELSE s
  BY DEF TypeOK, Orden, UnSoloPcb
<1> HIDE DEF s
<1>3. /\ UnoEn(socket_cpu'[d]) /\ HayPcb(socket_cpu'[d]) = HayPcb(s)
      /\ HayPcb(s) => ElPcb(socket_cpu'[d]) = ElPcb(s)
  BY <1>2, AgregaInterrupcion
<1>4. QED
  BY <1>3 DEF Vacia, Contenido, EnSocket, en_cpu, s

Marcada(c) == pid_ejecutando[c] # Nadie \/ (plan_pc = "marca" /\ fd = c)

\* A CPU with a PCB is marked, or about to be; so is one whose mark is to be cleared.
\* Therefore the one that obtener_cpu_libre finds has no PCB, even if its token has not
\* been posted yet.
Marcas ==
    /\ \A c \in Cpu : ~Vacia(c) \/ pc[c] = "libera" => Marcada(c)
    /\ \A c \in Cpu : pc[c] \in {"conecta", "libera"} => Vacia(c)
    /\ plan_pc \in {"saca", "envia"} =>
         Vacia(fd) /\ pid_ejecutando[fd] = Nadie /\ pc[fd] \notin {"conecta", "libera"}
    /\ \A k \in 1 .. Len(lista_cpus_sched) : pc[lista_cpus_sched[k]] # "conecta"

UnPcb == UnSoloPcb /\ Marcas

LEMMA UnPcbInit == Init => UnPcb
<1> SUFFICES ASSUME Init PROVE UnPcb
  OBVIOUS
<1>1. \A c \in Cpu : UnoEn(socket_cpu[c]) /\ Vacia(c)
  BY SocketVacio DEF Init, Vacia, EnSocket
<1>2. lista_cpus_sched = <<>> /\ Len(<<>>) = 0 /\ plan_pc = "ready"
  BY DEF Init
<1>3. QED
  BY <1>1, <1>2 DEF Init, UnPcb, UnSoloPcb, Marcas, Vacia

LEMMA UnPcbNext == TypeOK /\ UnPcb /\ [Next]_vars => UnPcb'
<1> SUFFICES ASSUME TypeOK, UnPcb, [Next]_vars PROVE UnPcb'
  OBVIOUS
<1>1. \A c \in Cpu : socket_cpu[c] \in Seq(Orden)
  BY DEF TypeOK, Orden
<1>2. /\ plan_pc \in {"saca", "envia", "marca"} => fd \in Cpu
      /\ plan_pc \in {"envia", "marca"} => pcb \in Pid
      /\ Nadie \notin Pid
  BY DistintosAssumption DEF TypeOK, DistintosAssumption
<1> USE DEF UnPcb, UnSoloPcb, Marcas, Marcada, Vacia, EnSocket
<1>3. ASSUME UNCHANGED <<socket_cpu, en_cpu, cpus, pc, plan>> PROVE UnPcb'
  BY <1>3 DEF en_cpu, cpus, plan
<1>4. CASE Planificador
  <2>1. CASE EsperaReady \/ EsperaCpu
    BY <2>1 DEF EsperaReady, EsperaCpu, cpus, en_cpu, hilo
  <2>2. CASE BuscaCpu
    <3>1. fd' = Nadie \/ (fd' \in Cpu /\ pid_ejecutando[fd'] = Nadie /\ pc[fd'] # "conecta")
      BY <2>2, PrimeraTipo DEF BuscaCpu, obtener_cpu_libre
    <3>2. plan_pc = "busca" /\ plan_pc' = (IF fd' = Nadie THEN "ready" ELSE "saca")
      BY <2>2 DEF BuscaCpu
    <3>3. QED
      BY <2>2, <3>1, <3>2 DEF BuscaCpu, cpus, en_cpu, hilo
  <2>3. CASE SacaDeReady
    <3>1. plan_pc = "saca" /\ (plan_pc' = "ready" \/ (plan_pc' = "envia" /\ fd' = fd))
      BY <2>3 DEF SacaDeReady
    <3>2. QED
      BY <2>3, <3>1 DEF SacaDeReady, cpus, en_cpu, hilo
  <2>4. CASE EnviaPcb
    <3>1. UnoEn(Append(socket_cpu[fd], pcb)) /\ corre[fd] = Nadie /\ vuelta[fd] = Nadie
      BY <2>4, <1>1, <1>2, AgregaPcb DEF EnviaPcb
    <3>2. /\ socket_cpu' = [socket_cpu EXCEPT ![fd] = Append(@, pcb)] /\ fd \in Cpu
          /\ socket_cpu \in [Cpu -> Seq(Orden)]
      BY <2>4, <1>2 DEF EnviaPcb, TypeOK, Orden
    <3>3. QED
      BY <2>4, <3>1, <3>2 DEF EnviaPcb, cpus, en_cpu, hilo
  <2>5. CASE MarcaOcupada
    <3>1. pid_ejecutando' = [pid_ejecutando EXCEPT ![fd] = pcb] /\ pcb # Nadie /\ fd \in Cpu
      BY <2>5, <1>2 DEF MarcaOcupada
    <3>2. \A c \in Cpu : pid_ejecutando'[c] = IF c = fd THEN pcb ELSE pid_ejecutando[c]
      BY <3>1 DEF TypeOK
    <3>3. QED
      BY <2>5, <3>1, <3>2 DEF MarcaOcupada, en_cpu, hilo
  <2>6. QED
    BY <1>4, <2>1, <2>2, <2>3, <2>4, <2>5 DEF Planificador
<1>5. ASSUME NEW c \in Cpu, CpuModulo(c) PROVE UnPcb'
  <2>1. UNCHANGED <<pc, lista_cpus_sched, pid_ejecutando, plan_pc, fd>>
    BY <1>5 DEF CpuModulo, TomaOrden, Syscall, Interrumpida, cpus, plan, hilo
  <2>2. UnSoloPcb' /\ \A d \in Cpu : Vacia(d)' = Vacia(d)
    BY <1>5, CpuModuloConserva
  <2> HIDE DEF Vacia, EnSocket
  <2>3. QED
    BY <1>2, <2>1, <2>2
<1>6. ASSUME NEW c \in Cpu, AtiendeCpu(c) PROVE UnPcb'
  <2>1. CASE Conecta(c)
    <3>1. /\ UNCHANGED <<socket_cpu, corre, vuelta, pid_ejecutando, plan_pc, fd>>
          /\ pc' = [pc EXCEPT ![c] = "recv"] /\ lista_cpus_sched' = Append(lista_cpus_sched, c)
      BY <2>1 DEF Conecta, en_cpu, plan
    <3>2. \A k \in 1 .. Len(lista_cpus_sched') :
             lista_cpus_sched'[k] \in Cpu /\ (lista_cpus_sched'[k] = c \/ pc[lista_cpus_sched'[k]] # "conecta")
      <4> DEFINE l == lista_cpus_sched
      <4>1. /\ l \in Seq(Cpu) /\ Len(l) \in Nat /\ Len(lista_cpus_sched') = Len(l) + 1
            /\ \A k \in 1 .. Len(l) : lista_cpus_sched'[k] = l[k] /\ l[k] \in Cpu
            /\ lista_cpus_sched'[Len(l) + 1] = c
        BY <3>1 DEF TypeOK
      <4>2. QED
        BY <4>1
    <3>3. \A d \in Cpu : pc'[d] = IF d = c THEN "recv" ELSE pc[d]
      BY <3>1 DEF TypeOK
    <3>4. QED
      BY <1>2, <3>1, <3>2, <3>3
  <2>2. CASE Recibe(c)
    <3>1. /\ UNCHANGED <<socket_cpu, corre, lista_cpus_sched, pid_ejecutando, plan_pc, fd>>
          /\ pc' = [pc EXCEPT ![c] = "libera"] /\ vuelta' = [vuelta EXCEPT ![c] = Nadie]
          /\ vuelta[c] # Nadie
      BY <2>2 DEF Recibe, cpus, plan
    <3>2. \A d \in Cpu : /\ pc'[d] = IF d = c THEN "libera" ELSE pc[d]
                         /\ vuelta'[d] = IF d = c THEN Nadie ELSE vuelta[d]
      BY <3>1 DEF TypeOK
    <3>3. \A k \in 1 .. Len(lista_cpus_sched) : lista_cpus_sched[k] \in Cpu
      BY DEF TypeOK
    <3>4. QED
      BY <1>2, <3>1, <3>2, <3>3
  <2>3. CASE Libera(c)
    <3>1. /\ UNCHANGED <<socket_cpu, corre, vuelta, lista_cpus_sched, plan_pc, fd>> /\ pc[c] = "libera"
          /\ pc' = [pc EXCEPT ![c] = "post_cpu"] /\ pid_ejecutando' = [pid_ejecutando EXCEPT ![c] = Nadie]
      BY <2>3 DEF Libera, en_cpu, plan
    <3>2. \A d \in Cpu : /\ pc'[d] = IF d = c THEN "post_cpu" ELSE pc[d]
                         /\ pid_ejecutando'[d] = IF d = c THEN Nadie ELSE pid_ejecutando[d]
      BY <3>1 DEF TypeOK
    <3>3. \A k \in 1 .. Len(lista_cpus_sched) : lista_cpus_sched[k] \in Cpu
      BY DEF TypeOK
    <3>4. QED
      BY <1>2, <3>1, <3>2, <3>3
  <2>4. CASE CpuLibre(c) \/ Atiende(c) \/ SegundoEncolado(c) \/ AvisaReady(c) \/ AvisaExit(c)
    <3>1. /\ UNCHANGED <<socket_cpu, corre, vuelta, lista_cpus_sched, pid_ejecutando, plan_pc, fd>>
          /\ \E s \in {"atiende", "post", "recv", "segundo", "post_nuevo", "post_exit"} : pc' = [pc EXCEPT ![c] = s]
      BY <2>4 DEF CpuLibre, Atiende, SegundoEncolado, AvisaReady, AvisaExit, en_cpu, cpus, plan
    <3>2. \A d \in Cpu : pc'[d] = pc[d] \/ pc'[d] \notin {"conecta", "libera"}
      BY <3>1 DEF TypeOK
    <3>3. \A k \in 1 .. Len(lista_cpus_sched) : lista_cpus_sched[k] \in Cpu
      BY DEF TypeOK
    <3>4. QED
      BY <1>2, <3>1, <3>2, <3>3
  <2>5. QED
    BY <1>6, <2>1, <2>2, <2>3, <2>4 DEF AtiendeCpu
<1>7. ASSUME UNCHANGED <<en_cpu, cpus, pc, plan>>,
             NEW c, socket_cpu' = [socket_cpu EXCEPT ![c] = Append(@, INTERRUPCION)]
      PROVE  UnPcb'
  <2>1. UnSoloPcb' /\ \A d \in Cpu : Vacia(d)' = Vacia(d)
    BY <1>7, InterrupcionConserva
  <2> HIDE DEF Vacia, EnSocket
  <2>2. QED
    BY <1>2, <1>7, <2>1 DEF en_cpu, cpus, plan
<1>8. ASSUME NEW d \in Despertador, Despierta(d) PROVE UnPcb'
  <2>1. CASE Desaloja(d)
    BY <2>1, <1>7 DEF Desaloja, hilo
  <2>2. CASE ~Desaloja(d)
    <3>1. UNCHANGED <<socket_cpu, en_cpu, cpus, pc, plan>>
      BY <1>8, <2>2 DEF Despierta, EncolaEnReady, Compara, BuscaVictima, AvisaDespierto, hilo
    <3>2. QED
      BY <1>3, <3>1
  <2>3. QED
    BY <2>1, <2>2
<1>9. ASSUME NEW p \in Pid, VenceQuantum(p) PROVE UnPcb'
  BY <1>3, <1>9 DEF VenceQuantum, hilo
<1>10. ASSUME NEW c \in Cpu, InterrumpeQuantum(c) PROVE UnPcb'
  BY <1>7, <1>10 DEF InterrumpeQuantum, hilo
<1>11. CASE UNCHANGED vars
  BY <1>3, <1>11 DEF vars, hilo
<1>12. QED
  BY <1>4, <1>5, <1>6, <1>8, <1>9, <1>10, <1>11 DEF Next

LEMMA UnPcbSiempre == Spec => [](TypeOK /\ UnPcb)
  BY TypeCorrect, UnPcbInit, UnPcbNext, PTL DEF Spec

LEMMA PcbsVacia ==
    ASSUME NEW c \in Cpu
    PROVE  Pcbs(c) = {} <=> Vacia(c)
  BY DEF Pcbs, Vacia, EnSocket, HayPcb

\* A CPU has one PCB at most, on its way, in it or on its way back, and none when the planner
\* sends it one: the bytes of a PCB are never taken for an interruption.
THEOREM UnPcbCorrecto == Spec => []UnPcbPorCpu
<1>1. TypeOK /\ UnPcb => UnPcbPorCpu
  <2> SUFFICES ASSUME UnPcb, TypeOK, NEW c \in Cpu
               PROVE  Cardinality(Pcbs(c)) <= 1 /\ (plan_pc = "envia" /\ fd = c => Pcbs(c) = {})
    BY DEF UnPcbPorCpu
  <2>2. \A x, y \in Pcbs(c) : x = y
    <3>1. ASSUME NEW x \in Pcbs(c)
          PROVE  \/ \E k \in 1 .. Len(socket_cpu[c]) : x = <<"socket", k>> /\ socket_cpu[c][k] \in Pid
                 \/ x = <<"corre", 0>> /\ corre[c] # Nadie
                 \/ x = <<"vuelta", 0>> /\ vuelta[c] # Nadie
      BY DEF Pcbs
    <3>2. QED
      BY <3>1 DEF UnPcb, UnSoloPcb, UnoEn, HayPcb, EnSocket
  <2>3. Cardinality(Pcbs(c)) <= 1
    <3>1. CASE Pcbs(c) = {}
      BY <3>1, FS_EmptySet
    <3>2. CASE Pcbs(c) # {}
      <4>1. PICK x : Pcbs(c) = {x}
        BY <2>2, <3>2
      <4>2. Cardinality(Pcbs(c)) = 1
        BY <4>1, FS_Singleton
      <4>3. QED
        BY <4>2
    <3>3. QED
      BY <3>1, <3>2
  <2>4. QED
    BY <2>3, PcbsVacia DEF UnPcb, Marcas, Vacia
<1>2. QED
  BY UnPcbSiempre, <1>1, PTL

-----------------------------------------------------------------------------
(* Tokens of sem_cpu_libre.                                                 *)

\* A set that gains or loses one element.
LEMMA CambiaUno ==
    ASSUME NEW S, IsFiniteSet(S), NEW T, NEW c, S \ {c} = T \ {c}
    PROVE  /\ IsFiniteSet(T) /\ Cardinality(S) \in Nat /\ Cardinality(T) \in Nat
           /\ Cardinality(T) = Cardinality(S) + (IF c \in T THEN 1 ELSE 0) - (IF c \in S THEN 1 ELSE 0)
<1>1. IsFiniteSet(S \ {c}) /\ Cardinality(S) \in Nat /\ Cardinality(S \ {c}) \in Nat
  BY FS_RemoveElement, FS_CardinalityType
<1>2. Cardinality(S \ {c}) = IF c \in S THEN Cardinality(S) - 1 ELSE Cardinality(S)
  BY FS_RemoveElement
<1>3. CASE c \in T
  <2>1. T = (S \ {c}) \cup {c} /\ c \notin S \ {c}
    BY <1>3
  <2>2. IsFiniteSet(T) /\ Cardinality(T) = Cardinality(S \ {c}) + 1
    BY <1>1, <2>1, FS_AddElement
  <2>3. QED
    BY <1>1, <1>2, <1>3, <2>2
<1>4. CASE c \notin T
  <2>1. T = S \ {c}
    BY <1>4
  <2>2. QED
    BY <1>1, <1>2, <1>4, <2>1
<1>5. QED
  BY <1>3, <1>4

LEMMA GanaUno ==
    ASSUME NEW S, IsFiniteSet(S), NEW T, NEW c, S \ {c} = T \ {c}, c \notin S, c \in T
    PROVE  IsFiniteSet(T) /\ Cardinality(T) = Cardinality(S) + 1
<1>1. T = S \cup {c}
  OBVIOUS
<1>2. QED
  BY <1>1, FS_AddElement

LEMMA PierdeUno ==
    ASSUME NEW S, IsFiniteSet(S), NEW T, NEW c, S \ {c} = T \ {c}, c \in S, c \notin T
    PROVE  IsFiniteSet(T) /\ Cardinality(T) = Cardinality(S) - 1
<1>1. T = S \ {c}
  OBVIOUS
<1>2. QED
  BY <1>1, FS_RemoveElement

LEMMA SumaMenor ==
    ASSUME NEW x \in Nat, NEW y \in Nat, NEW a \in Nat, NEW b \in Nat, NEW n \in Nat, NEW l \in Nat,
           x + a <= y + b, y + b + n <= l
    PROVE  x + a + n <= l
  OBVIOUS

LEMMA SumaIgual ==
    ASSUME NEW e \in Nat, NEW a \in Nat, NEW d \in Nat, NEW s \in Nat, NEW t \in Nat, NEW x \in Nat, NEW y \in Nat,
           x + y = s + t, e <= s + a + d + t
    PROVE  e <= x + a + d + y
  OBVIOUS

Libre(c) == Vacia(c) /\ ~(plan_pc = "envia" /\ fd = c) /\ pc[c] # "conecta"
Libres == {c \in Cpu : Libre(c)}
PorAvisar == {c \in Cpu : pc[c] \in {"libera", "post_cpu"}}

\* A CPU that gave its PCB back is free already, but its token is on its way: the planner
\* may send it a process with the token of another one.
Fichas == sem_cpu_libre + (IF plan_pc \in {"busca", "saca"} THEN 1 ELSE 0) + Cardinality(PorAvisar)
             <= Cardinality(Libres)

\* Only the planner gives a CPU a PCB and only its thread takes it away.
LEMMA CambiaContenido ==
    ASSUME TypeOK, UnPcb, [Next]_vars, NEW d \in Cpu
    PROVE  \/ Vacia(d)' = Vacia(d) /\ Contenido(d)' = Contenido(d)
           \/ EnviaPcb /\ d = fd
           \/ Recibe(d)
<1>1. CASE UNCHANGED <<socket_cpu, en_cpu>>
  BY <1>1 DEF Vacia, Contenido, EnSocket, en_cpu
<1>2. ASSUME NEW c \in Cpu, CpuModulo(c) PROVE Vacia(d)' = Vacia(d) /\ Contenido(d)' = Contenido(d)
  BY <1>2, CpuModuloConserva DEF UnPcb
<1>3. ASSUME NEW e, Desaloja(e) PROVE Vacia(d)' = Vacia(d) /\ Contenido(d)' = Contenido(d)
  BY <1>3, InterrupcionConserva DEF UnPcb, Desaloja
<1>4. ASSUME NEW c, InterrumpeQuantum(c) PROVE Vacia(d)' = Vacia(d) /\ Contenido(d)' = Contenido(d)
  BY <1>4, InterrupcionConserva DEF UnPcb, InterrumpeQuantum
<1>5. CASE EnviaPcb
  BY <1>5 DEF EnviaPcb, TypeOK, Vacia, Contenido, EnSocket, en_cpu
<1>6. ASSUME NEW c \in Cpu, Recibe(c) PROVE d = c \/ (Vacia(d)' = Vacia(d) /\ Contenido(d)' = Contenido(d))
  BY <1>6 DEF Recibe, TypeOK, Vacia, Contenido, EnSocket
<1>7. CASE Planificador /\ ~EnviaPcb
  BY <1>1, <1>7 DEF Planificador, EsperaReady, EsperaCpu, BuscaCpu, SacaDeReady, MarcaOcupada
<1>8. ASSUME NEW c \in Cpu, AtiendeCpu(c), ~Recibe(c) PROVE UNCHANGED <<socket_cpu, en_cpu>>
  BY <1>8 DEF AtiendeCpu, Conecta, Libera, CpuLibre, Atiende, SegundoEncolado, AvisaReady, AvisaExit
<1>9. ASSUME NEW e \in Despertador, Despierta(e), ~Desaloja(e) PROVE UNCHANGED <<socket_cpu, en_cpu>>
  BY <1>9 DEF Despierta, EncolaEnReady, Compara, BuscaVictima, AvisaDespierto
<1>10. ASSUME NEW p \in Pid, VenceQuantum(p) PROVE UNCHANGED <<socket_cpu, en_cpu>>
  BY <1>10 DEF VenceQuantum
<1>11. CASE UNCHANGED vars
  BY <1>1, <1>11 DEF vars
<1>12. QED
  BY <1>1, <1>2, <1>3, <1>4, <1>5, <1>6, <1>7, <1>8, <1>9, <1>10, <1>11 DEF Next

LEMMA FichasInit == Init => Fichas
<1> SUFFICES ASSUME Init PROVE Fichas
  OBVIOUS
<1>1. PorAvisar = {} /\ sem_cpu_libre = 0 /\ plan_pc = "ready" /\ Libres = {}
  BY DEF Init, PorAvisar, Libres, Libre
<1>2. QED
  BY <1>1, FS_EmptySet DEF Fichas

LEMMA FichasNext == TypeOK /\ UnPcb /\ Fichas /\ [Next]_vars => Fichas'
<1> SUFFICES ASSUME TypeOK, UnPcb, Fichas, [Next]_vars PROVE Fichas'
  OBVIOUS
<1>1. /\ IsFiniteSet(Libres) /\ IsFiniteSet(PorAvisar) /\ sem_cpu_libre \in Nat
      /\ Cardinality(Libres) \in Nat /\ Cardinality(PorAvisar) \in Nat
  BY FinitosAssumption, FS_Subset, FS_CardinalityType DEF FinitosAssumption, Libres, PorAvisar, TypeOK
<1>2. ASSUME NEW c, Libres' \ {c} = Libres \ {c}, PorAvisar' \ {c} = PorAvisar \ {c}
      PROVE  /\ Cardinality(Libres') = Cardinality(Libres)
                   + (IF c \in Libres' THEN 1 ELSE 0) - (IF c \in Libres THEN 1 ELSE 0)
             /\ Cardinality(PorAvisar') = Cardinality(PorAvisar)
                   + (IF c \in PorAvisar' THEN 1 ELSE 0) - (IF c \in PorAvisar THEN 1 ELSE 0)
  BY <1>1, <1>2, CambiaUno
<1>3. ASSUME UNCHANGED <<pc, sem_cpu_libre, plan_pc, fd>>, \A c \in Cpu : Vacia(c)' = Vacia(c) PROVE Fichas'
  <2>1. Libres' = Libres /\ PorAvisar' = PorAvisar
    BY <1>3 DEF Libres, Libre, PorAvisar
  <2>2. QED
    BY <1>3, <2>1 DEF Fichas
<1>4. CASE Planificador
  <2>1. PorAvisar' = PorAvisar
    BY <1>4 DEF Planificador, EsperaReady, EsperaCpu, BuscaCpu, SacaDeReady, EnviaPcb, MarcaOcupada, PorAvisar, hilo
  <2>2. CASE EsperaReady \/ EsperaCpu \/ BuscaCpu \/ MarcaOcupada
    <3>1. /\ plan_pc # "envia" /\ plan_pc' # "envia" /\ UNCHANGED <<pc, socket_cpu, en_cpu>>
          /\ sem_cpu_libre' + (IF plan_pc' \in {"busca", "saca"} THEN 1 ELSE 0)
               <= sem_cpu_libre + (IF plan_pc \in {"busca", "saca"} THEN 1 ELSE 0)
          /\ sem_cpu_libre' \in Nat
      BY <1>1, <2>2 DEF EsperaReady, EsperaCpu, BuscaCpu, MarcaOcupada, hilo
    <3>2. Libres' = Libres
      BY <3>1 DEF Libres, Libre, Vacia, EnSocket, en_cpu
    <3> DEFINE a == IF plan_pc \in {"busca", "saca"} THEN 1 ELSE 0
               n == Cardinality(PorAvisar)
               l == Cardinality(Libres)
    <3>3. a \in Nat /\ a' \in Nat /\ sem_cpu_libre' + a' <= sem_cpu_libre + a /\ n' = n /\ l' = l
          /\ sem_cpu_libre + a + n <= l
      BY <2>1, <3>1, <3>2 DEF Fichas
    <3>4. n \in Nat /\ l \in Nat /\ sem_cpu_libre \in Nat /\ sem_cpu_libre' \in Nat
      BY <1>1, <3>1
    <3> HIDE DEF a, n, l
    <3>5. sem_cpu_libre' + a' + n' <= l'
      BY <3>3, <3>4, SumaMenor
    <3>6. QED
      BY <3>5 DEF Fichas, a, n, l
  <2>3. CASE SacaDeReady
    <3>1. UNCHANGED <<pc, socket_cpu, en_cpu>> /\ plan_pc = "saca" /\ fd \in Cpu
      BY <2>3 DEF SacaDeReady, TypeOK, hilo
    <3>2. CASE plan_pc' = "envia" /\ UNCHANGED <<fd, sem_cpu_libre>>
      <4>1. Libres' \ {fd} = Libres \ {fd} /\ fd \notin Libres'
        BY <3>1, <3>2 DEF Libres, Libre, Vacia, EnSocket, en_cpu
      <4>2. QED
        BY <1>1, <1>2, <2>1, <3>1, <3>2, <4>1 DEF Fichas
    <3>3. CASE plan_pc' = "ready" /\ sem_cpu_libre' = sem_cpu_libre + 1
      <4>1. Libres' = Libres
        BY <3>1, <3>3 DEF Libres, Libre, Vacia, EnSocket, en_cpu
      <4>2. QED
        BY <1>1, <2>1, <3>1, <3>3, <4>1 DEF Fichas
    <3>4. QED
      BY <2>3, <3>2, <3>3 DEF SacaDeReady, PostCpu
  <2>4. CASE EnviaPcb
    <3>1. /\ plan_pc = "envia" /\ plan_pc' = "marca" /\ UNCHANGED <<pc, fd, en_cpu, sem_cpu_libre>>
          /\ fd \in Cpu /\ pcb \in Pid /\ ~EnSocket(fd) /\ socket_cpu[fd] \in Seq(Orden)
          /\ socket_cpu' = [socket_cpu EXCEPT ![fd] = Append(@, pcb)]
      BY <2>4 DEF EnviaPcb, TypeOK, UnPcb, Marcas, Vacia, Orden, hilo
    <3>2. EnSocket(fd)'
      BY <3>1, AgregaPcb DEF EnSocket, TypeOK
    <3>3. Libres' = Libres
      BY <3>1, <3>2 DEF Libres, Libre, Vacia, EnSocket, en_cpu, TypeOK
    <3>4. QED
      BY <2>1, <3>1, <3>3 DEF Fichas
  <2>5. QED
    BY <1>4, <2>2, <2>3, <2>4 DEF Planificador
<1>5. ASSUME NEW c \in Cpu, AtiendeCpu(c) PROVE Fichas'
  <2>1. UNCHANGED <<plan_pc, fd>>
    BY <1>5 DEF AtiendeCpu, Conecta, Recibe, Libera, CpuLibre, Atiende, SegundoEncolado, AvisaReady, AvisaExit, plan
  <2>2. CASE Recibe(c)
    <3>1. /\ pc[c] = "recv" /\ pc' = [pc EXCEPT ![c] = "libera"] /\ UNCHANGED <<sem_cpu_libre, socket_cpu, corre>>
          /\ vuelta' = [vuelta EXCEPT ![c] = Nadie] /\ vuelta[c] # Nadie
      BY <2>2 DEF Recibe
    <3>2. Vacia(c)' /\ ~Vacia(c) /\ ~(plan_pc = "envia" /\ fd = c)
      BY <3>1 DEF UnPcb, UnSoloPcb, Marcas, Vacia, EnSocket, TypeOK
    <3>3. /\ Libres' \ {c} = Libres \ {c} /\ c \in Libres' /\ c \notin Libres
          /\ PorAvisar' \ {c} = PorAvisar \ {c} /\ c \in PorAvisar' /\ c \notin PorAvisar
      BY <2>1, <3>1, <3>2 DEF Libres, Libre, PorAvisar, Vacia, EnSocket, TypeOK
    <3>4. QED
      BY <1>1, <1>2, <2>1, <3>1, <3>3 DEF Fichas
  <2>3. CASE ~Recibe(c)
    <3>1. UNCHANGED <<socket_cpu, en_cpu>>
      BY <1>5, <2>3 DEF AtiendeCpu, Conecta, Libera, CpuLibre, Atiende, SegundoEncolado, AvisaReady, AvisaExit
    <3>2. ASSUME NEW n \in Cpu PROVE Vacia(n)' = Vacia(n)
      BY <3>1 DEF Vacia, EnSocket, en_cpu
    <3>3. CASE Conecta(c)
      <4>1. pc[c] = "conecta" /\ pc' = [pc EXCEPT ![c] = "recv"] /\ sem_cpu_libre' = sem_cpu_libre + 1
        BY <3>3 DEF Conecta, PostCpu
      <4>2. Vacia(c) /\ ~(plan_pc = "envia" /\ fd = c)
        BY <4>1 DEF UnPcb, Marcas
      <4>3. /\ Libres' \ {c} = Libres \ {c} /\ c \in Libres' /\ c \notin Libres
            /\ PorAvisar' = PorAvisar
        BY <2>1, <3>2, <4>1, <4>2 DEF Libres, Libre, PorAvisar, TypeOK
      <4>4. QED
        BY <1>1, <1>2, <2>1, <4>1, <4>3 DEF Fichas
    <3>4. CASE CpuLibre(c)
      <4>1. pc[c] = "post_cpu" /\ pc' = [pc EXCEPT ![c] = "atiende"] /\ sem_cpu_libre' = sem_cpu_libre + 1
        BY <3>4 DEF CpuLibre, PostCpu
      <4>2. /\ PorAvisar' \ {c} = PorAvisar \ {c} /\ c \notin PorAvisar' /\ c \in PorAvisar
            /\ Libres' = Libres
        BY <2>1, <3>2, <4>1 DEF Libres, Libre, PorAvisar, TypeOK
      <4>3. QED
        BY <1>1, <1>2, <2>1, <4>1, <4>2 DEF Fichas
    <3>5. CASE Libera(c) \/ Atiende(c) \/ SegundoEncolado(c) \/ AvisaReady(c) \/ AvisaExit(c)
      <4>1. /\ UNCHANGED sem_cpu_libre
            /\ \/ /\ pc[c] = "libera" /\ pc' = [pc EXCEPT ![c] = "post_cpu"]
               \/ /\ pc[c] \notin {"conecta", "libera", "post_cpu"}
                  /\ \E s \in {"post", "recv", "segundo", "post_nuevo", "post_exit"} : pc' = [pc EXCEPT ![c] = s]
        BY <3>5 DEF Libera, Atiende, SegundoEncolado, AvisaReady, AvisaExit
      <4>2. Libres' = Libres /\ PorAvisar' = PorAvisar
        BY <2>1, <3>2, <4>1 DEF Libres, Libre, PorAvisar, TypeOK
      <4>3. QED
        BY <2>1, <4>1, <4>2 DEF Fichas
    <3>6. QED
      BY <1>5, <2>3, <3>3, <3>4, <3>5 DEF AtiendeCpu
  <2>4. QED
    BY <2>2, <2>3
<1>6. CASE ~(Planificador \/ \E c \in Cpu : AtiendeCpu(c))
  <2>1. UNCHANGED <<pc, sem_cpu_libre, plan_pc, fd>>
    <3>1. ASSUME NEW c \in Cpu, CpuModulo(c) PROVE UNCHANGED <<pc, sem_cpu_libre, plan_pc, fd>>
      BY <3>1 DEF CpuModulo, TomaOrden, Syscall, Interrumpida, hilo, plan
    <3>2. ASSUME NEW d \in Despertador, Despierta(d) PROVE UNCHANGED <<pc, sem_cpu_libre, plan_pc, fd>>
      BY <3>2 DEF Despierta, EncolaEnReady, Compara, BuscaVictima, Desaloja, AvisaDespierto, hilo, plan
    <3>3. ASSUME NEW x, VenceQuantum(x) \/ InterrumpeQuantum(x) PROVE UNCHANGED <<pc, sem_cpu_libre, plan_pc, fd>>
      BY <3>3 DEF VenceQuantum, InterrumpeQuantum, hilo, plan
    <3>4. CASE UNCHANGED vars
      BY <3>4 DEF vars, hilo, plan
    <3>5. QED
      BY <1>6, <3>1, <3>2, <3>3, <3>4 DEF Next
  <2>2. \A c \in Cpu : Vacia(c)' = Vacia(c)
    BY <1>6, CambiaContenido DEF Planificador, AtiendeCpu
  <2>3. QED
    BY <1>3, <2>1, <2>2
<1>7. QED
  BY <1>4, <1>5, <1>6

\* sem_cpu_libre and the token the planner holds never promise more CPUs than are idle.
THEOREM FichasCorrecto == Spec => []FichasDeCpuReales
<1>1. TypeOK /\ UnPcb /\ Fichas => FichasDeCpuReales
  <2> SUFFICES ASSUME TypeOK, UnPcb, Fichas PROVE FichasDeCpuReales
    OBVIOUS
  <2> DEFINE O == {c \in Cpu : Ociosa(c)}
  <2>1. IsFiniteSet(Libres) /\ IsFiniteSet(PorAvisar) /\ IsFiniteSet(O) /\ sem_cpu_libre \in Nat
    BY FinitosAssumption, FS_Subset DEF FinitosAssumption, Libres, PorAvisar, TypeOK
  <2>2. O = Libres \ PorAvisar
    BY PcbsVacia DEF Ociosa, Libres, Libre, PorAvisar
  <2> HIDE DEF O
  <2>3. /\ Cardinality(O) = Cardinality(Libres) - Cardinality(Libres \cap PorAvisar)
        /\ Cardinality(Libres \cap PorAvisar) <= Cardinality(PorAvisar)
    <3>1. IsFiniteSet(Libres \cap PorAvisar) /\ Cardinality(Libres \cap PorAvisar) <= Cardinality(PorAvisar)
      BY <2>1, FS_Subset
    <3>2. QED
      BY <2>1, <2>2, <3>1, FS_Difference
  <2>4. /\ Cardinality(O) \in Nat /\ Cardinality(Libres) \in Nat /\ Cardinality(PorAvisar) \in Nat
        /\ Cardinality(Libres \cap PorAvisar) \in Nat
    BY <2>1, FS_Intersection, FS_CardinalityType
  <2>5. QED
    BY <2>1, <2>3, <2>4 DEF Fichas, FichasDeCpuReales, O
<1>2. Spec => []Fichas
  BY FichasInit, FichasNext, UnPcbSiempre, PTL DEF Spec
<1>3. QED
  BY <1>1, <1>2, UnPcbSiempre, PTL

-----------------------------------------------------------------------------
(* Tokens of sem_procesos_ready.                                            *)

EnReady == {x \in Colas \X Nat : x[2] \in 1 .. Len(colas_ready[x[1]])}
Avisan == {c \in Cpu : pc[c] \in {"post", "post_nuevo", "post_exit"}}
Despiertan == {d \in Despertador : desp_pc[d] \in {"compara", "busca", "envia", "post", "caido"}}

EnPlanificador == IF plan_pc \in {"cpu", "busca", "saca"} THEN 1 ELSE 0

\* The same as NingunReadySinFicha, for queues of any length.
FichasReady ==
    /\ IsFiniteSet(EnReady)
    /\ Cardinality(EnReady) <= sem_procesos_ready + Cardinality(Avisan) + Cardinality(Despiertan) + EnPlanificador

LEMMA EncolaUno ==
    ASSUME TypeOK, IsFiniteSet(EnReady), NEW p \in Pid, Encola(p)
    PROVE  IsFiniteSet(EnReady') /\ Cardinality(EnReady') = Cardinality(EnReady) + 1
<1> DEFINE q == ColaDe(p)
           x == <<q, Len(colas_ready[q]) + 1>>
<1>1. q \in Colas /\ colas_ready[q] \in Seq(Pid) /\ Len(colas_ready[q]) \in Nat
      /\ \A r \in Colas : Len(colas_ready[r]) \in Nat
  BY SMTT(30), EnCola DEF TypeOK
<1>2. \A r \in Colas : Len(colas_ready'[r]) = IF r = q THEN Len(colas_ready[q]) + 1 ELSE Len(colas_ready[r])
  BY <1>1 DEF Encola, TypeOK
<1>3. x \in EnReady' /\ x \notin EnReady /\ EnReady' \ {x} = EnReady \ {x}
  <2>1. \A r \in Colas, k \in Nat : <<r, k>> # x =>
           (k \in 1 .. Len(colas_ready'[r]) <=> k \in 1 .. Len(colas_ready[r]))
    <3> SUFFICES ASSUME NEW r \in Colas, NEW k \in Nat, <<r, k>> # x
                 PROVE  k \in 1 .. Len(colas_ready'[r]) <=> k \in 1 .. Len(colas_ready[r])
      OBVIOUS
    <3>1. CASE r = q
      <4>1. k # Len(colas_ready[q]) + 1
        BY <3>1
      <4>2. QED
        BY <1>1, <1>2, <3>1, <4>1
    <3>2. CASE r # q
      BY <1>2, <3>2
    <3>3. QED
      BY <3>1, <3>2
  <2>2. \A y \in Colas \X Nat : y # x => (y \in EnReady' <=> y \in EnReady)
    BY <2>1 DEF EnReady
  <2>3. x \in EnReady' /\ x \notin EnReady
    BY <1>1, <1>2 DEF EnReady
  <2>4. QED
    BY <2>2, <2>3 DEF EnReady
<1>4. QED
  BY <1>3, GanaUno

LEMMA SacaUno ==
    ASSUME TypeOK, IsFiniteSet(EnReady), NEW q \in Colas, colas_ready[q] # <<>>,
           colas_ready' = [colas_ready EXCEPT ![q] = Tail(@)]
    PROVE  IsFiniteSet(EnReady') /\ Cardinality(EnReady') = Cardinality(EnReady) - 1
<1> DEFINE x == <<q, Len(colas_ready[q])>>
<1>1. colas_ready[q] \in Seq(Pid) /\ Len(colas_ready[q]) \in Nat \ {0}
  BY EmptySeq DEF TypeOK
<1>2. \A r \in Colas : Len(colas_ready'[r]) = IF r = q THEN Len(colas_ready[q]) - 1 ELSE Len(colas_ready[r])
  BY <1>1, HeadTailProperties DEF TypeOK
<1>3. x \in EnReady /\ x \notin EnReady' /\ EnReady' \ {x} = EnReady \ {x}
  <2>1. \A r \in Colas, k \in Nat : <<r, k>> # x =>
           (k \in 1 .. Len(colas_ready'[r]) <=> k \in 1 .. Len(colas_ready[r]))
    BY <1>1, <1>2 DEF TypeOK
  <2>2. \A y \in Colas \X Nat : y # x => (y \in EnReady' <=> y \in EnReady)
    BY <2>1 DEF EnReady
  <2>3. x \in EnReady /\ x \notin EnReady'
    BY <1>1, <1>2 DEF EnReady
  <2>4. QED
    BY <2>2, <2>3 DEF EnReady
<1>4. QED
  BY <1>3, PierdeUno

LEMMA FichasReadyInit == Init => FichasReady
<1> SUFFICES ASSUME Init PROVE FichasReady
  OBVIOUS
<1>1. PICK p \in Pid : colas_ready = [q \in Colas |-> IF q = ColaDe(p) THEN <<p>> ELSE <<>>]
  BY DEF Init
<1> DEFINE x == <<ColaDe(p), 1>>
<1>2. \A q \in Colas : Len(colas_ready[q]) = IF q = ColaDe(p) THEN 1 ELSE 0
  BY <1>1
<1>3. ColaDe(p) \in Colas
  BY EnCola
<1>4. EnReady = {x}
  BY <1>2, <1>3 DEF EnReady
<1>5. Avisan = {} /\ Despiertan = {} /\ sem_procesos_ready = 1 /\ EnPlanificador = 0
  BY DEF Init, Avisan, Despiertan, EnPlanificador
<1>6. IsFiniteSet(EnReady) /\ Cardinality(EnReady) = 1
  BY <1>4, FS_Singleton
<1>7. Cardinality(Avisan) = 0 /\ Cardinality(Despiertan) = 0
  BY <1>5, FS_EmptySet
<1>8. QED
  BY <1>5, <1>6, <1>7 DEF FichasReady

LEMMA FichasReadyNext == TypeOK /\ FichasReady /\ [Next]_vars => FichasReady'
<1> SUFFICES ASSUME TypeOK, FichasReady, [Next]_vars PROVE FichasReady'
  OBVIOUS
<1> DEFINE e == Cardinality(EnReady)
           a == Cardinality(Avisan)
           d == Cardinality(Despiertan)
<1>1. /\ IsFiniteSet(EnReady) /\ IsFiniteSet(Avisan) /\ IsFiniteSet(Despiertan)
      /\ e \in Nat /\ a \in Nat /\ d \in Nat /\ sem_procesos_ready \in Nat /\ EnPlanificador \in 0 .. 1
  BY FinitosAssumption, FS_Subset, FS_CardinalityType
     DEF FinitosAssumption, Avisan, Despiertan, EnPlanificador, FichasReady, TypeOK
<1>2. e <= sem_procesos_ready + a + d + EnPlanificador
  BY DEF FichasReady
<1>3. ASSUME NEW c, Avisan' \ {c} = Avisan \ {c}
      PROVE  /\ c \notin Avisan /\ c \in Avisan' => a' = a + 1
             /\ c \in Avisan /\ c \notin Avisan' => a' = a - 1
  BY <1>1, <1>3, GanaUno, PierdeUno
<1>4. ASSUME NEW c, Despiertan' \ {c} = Despiertan \ {c}
      PROVE  /\ c \notin Despiertan /\ c \in Despiertan' => d' = d + 1
             /\ c \in Despiertan /\ c \notin Despiertan' => d' = d - 1
  BY <1>1, <1>4, GanaUno, PierdeUno
<1>5. UNCHANGED colas_ready => EnReady' = EnReady
  BY DEF EnReady
<1>6. UNCHANGED pc => Avisan' = Avisan
  BY DEF Avisan
<1>7. UNCHANGED desp_pc => Despiertan' = Despiertan
  BY DEF Despiertan
<1>8. ASSUME NEW p \in Pid, Encola(p) PROVE IsFiniteSet(EnReady') /\ e' = e + 1
  BY <1>1, <1>8, EncolaUno
<1>9. CASE Planificador
  <2>1. UNCHANGED <<pc, desp_pc>>
    BY <1>9 DEF Planificador, EsperaReady, EsperaCpu, BuscaCpu, SacaDeReady, EnviaPcb, MarcaOcupada, hilo, desp
  <2>2. a' = a /\ d' = d
    BY <1>6, <1>7, <2>1
  <2>3. CASE EsperaReady \/ EsperaCpu \/ BuscaCpu \/ EnviaPcb \/ MarcaOcupada
    <3>1. /\ UNCHANGED colas_ready /\ sem_procesos_ready' + EnPlanificador' = sem_procesos_ready + EnPlanificador
          /\ sem_procesos_ready' \in Nat /\ EnPlanificador' \in Nat
      BY <1>1, <2>3 DEF EsperaReady, EsperaCpu, BuscaCpu, EnviaPcb, MarcaOcupada, PostReady, EnPlanificador, ready
    <3>2. EnReady' = EnReady /\ e' = e
      BY <1>5, <3>1
    <3>3. EnPlanificador \in Nat
      BY <1>1
    <3>4. e <= sem_procesos_ready' + a + d + EnPlanificador'
      <4> HIDE DEF e, a, d
      <4>1. QED
        BY <1>1, <1>2, <3>1, <3>3, SumaIgual
    <3>5. QED
      BY <1>1, <2>2, <3>2, <3>4 DEF FichasReady
  <2>4. CASE SacaDeReady
    <3>1. plan_pc = "saca" /\ UNCHANGED sem_procesos_ready /\ EnPlanificador = 1
      BY <2>4 DEF SacaDeReady, EnPlanificador
    <3>2. CASE \E q \in Colas : ColaServida(q) /\ colas_ready' = [colas_ready EXCEPT ![q] = Tail(@)] /\ plan_pc' = "envia"
      <4>1. IsFiniteSet(EnReady') /\ e' = e - 1 /\ EnPlanificador' = 0
        BY <1>1, <3>2, SacaUno DEF ColaServida, EnPlanificador
      <4>2. QED
        BY <1>1, <1>2, <2>2, <3>1, <4>1 DEF FichasReady
    <3>3. CASE (\A q \in Colas : colas_ready[q] = <<>>) /\ UNCHANGED colas_ready /\ plan_pc' = "ready"
      <4>1. EnReady = {} /\ EnReady' = EnReady
        BY <1>5, <3>3 DEF EnReady
      <4>2. e = 0 /\ e' = 0 /\ EnPlanificador' = 0
        BY <3>3, <4>1, FS_EmptySet DEF EnPlanificador
      <4>3. QED
        BY <1>1, <2>2, <3>1, <4>1, <4>2 DEF FichasReady
    <3>4. QED
      BY <2>4, <3>2, <3>3 DEF SacaDeReady
  <2>5. QED
    BY <1>9, <2>3, <2>4 DEF Planificador
<1>10. ASSUME NEW c \in Cpu, AtiendeCpu(c) PROVE FichasReady'
  <2>1. UNCHANGED <<plan_pc, desp_pc>> /\ EnPlanificador' = EnPlanificador /\ d' = d
    BY <1>7, <1>10 DEF AtiendeCpu, Conecta, Recibe, Libera, CpuLibre, Atiende, SegundoEncolado, AvisaReady,
       AvisaExit, plan, desp, EnPlanificador
  <2>2. ASSUME NEW s, pc' = [pc EXCEPT ![c] = s]
        PROVE  /\ Avisan' \ {c} = Avisan \ {c}
               /\ c \in Avisan' <=> s \in {"post", "post_nuevo", "post_exit"}
    BY <2>2 DEF Avisan, TypeOK
  <2>3. c \in Avisan <=> pc[c] \in {"post", "post_nuevo", "post_exit"}
    BY DEF Avisan
  <2>4. ASSUME NEW p \in Pid, Encola(p), NEW s \in {"post", "post_nuevo"}, pc' = [pc EXCEPT ![c] = s],
               UNCHANGED sem_procesos_ready, pc[c] \in {"atiende", "segundo"}
        PROVE  FichasReady'
    <3>1. a' = a + 1
      BY <1>1, <1>3, <2>2, <2>3, <2>4
    <3>2. QED
      BY <1>1, <1>2, <1>8, <2>1, <2>4, <3>1 DEF FichasReady
  <2>5. CASE Conecta(c) \/ Recibe(c) \/ Libera(c) \/ CpuLibre(c)
    <3>1. /\ UNCHANGED <<colas_ready, sem_procesos_ready>> /\ pc[c] \in {"conecta", "recv", "libera", "post_cpu"}
          /\ \E s \in {"recv", "libera", "post_cpu", "atiende"} : pc' = [pc EXCEPT ![c] = s]
      BY <2>5 DEF Conecta, Recibe, Libera, CpuLibre, ready
    <3>2. Avisan' = Avisan
      BY <3>1 DEF Avisan, TypeOK
    <3>3. QED
      BY <1>5, <2>1, <3>1, <3>2 DEF FichasReady
  <2>6. CASE Atiende(c)
    <3>1. UNCHANGED sem_procesos_ready /\ pc[c] = "atiende" /\ sujeto[c][1] \in Pid
      BY <2>6 DEF Atiende, TypeOK
    <3>2. CASE \E p \in Pid, s \in {"post", "post_nuevo"} : Encola(p) /\ pc' = [pc EXCEPT ![c] = s]
      BY <2>4, <3>1, <3>2
    <3>3. CASE UNCHANGED colas_ready /\ \E s \in {"recv", "segundo"} : pc' = [pc EXCEPT ![c] = s]
      <4>1. Avisan' = Avisan
        BY <3>1, <3>3 DEF Avisan, TypeOK
      <4>2. QED
        BY <1>5, <2>1, <3>1, <3>3, <4>1 DEF FichasReady
    <3>4. CASE UNCHANGED colas_ready /\ pc' = [pc EXCEPT ![c] = "post_exit"]
      <4>1. a' = a + 1
        BY <1>1, <1>3, <2>2, <2>3, <3>1, <3>4
      <4>2. QED
        BY <1>1, <1>2, <1>5, <2>1, <3>1, <3>4, <4>1 DEF FichasReady
    <3>5. QED
      BY <2>6, <3>1, <3>2, <3>3, <3>4 DEF Atiende, TypeOK
  <2>7. CASE SegundoEncolado(c)
    <3>1. /\ UNCHANGED sem_procesos_ready /\ pc[c] = "segundo" /\ sujeto[c][1] \in Pid
          /\ Encola(sujeto[c][1]) /\ pc' = [pc EXCEPT ![c] = "post"]
      BY <2>7 DEF SegundoEncolado, TypeOK
    <3>2. QED
      BY <2>4, <3>1
  <2>8. CASE AvisaReady(c) \/ AvisaExit(c)
    <3>1. /\ UNCHANGED colas_ready /\ sem_procesos_ready' = sem_procesos_ready + 1
          /\ pc[c] \in {"post", "post_nuevo", "post_exit"}
          /\ \E s \in {"recv", "segundo"} : pc' = [pc EXCEPT ![c] = s]
      BY <2>8 DEF AvisaReady, AvisaExit, PostReady
    <3>2. a' = a - 1
      BY <1>1, <1>3, <2>2, <2>3, <3>1
    <3>3. QED
      BY <1>1, <1>2, <1>5, <2>1, <3>1, <3>2 DEF FichasReady
  <2>9. QED
    BY <1>10, <2>5, <2>6, <2>7, <2>8 DEF AtiendeCpu
<1>11. ASSUME NEW w \in Despertador, Despierta(w) PROVE FichasReady'
  <2>1. UNCHANGED <<plan_pc, pc>> /\ EnPlanificador' = EnPlanificador /\ a' = a
    BY <1>6, <1>11 DEF Despierta, EncolaEnReady, Compara, BuscaVictima, Desaloja, AvisaDespierto, plan, hilo,
       EnPlanificador
  <2>2. CASE EncolaEnReady(w)
    <3>1. /\ \E p \in Pid : Encola(p)
          /\ UNCHANGED sem_procesos_ready /\ desp_pc[w] = "libre"
          /\ \E s \in {"compara", "post"} : desp_pc' = [desp_pc EXCEPT ![w] = s]
      BY <2>2 DEF EncolaEnReady, TypeOK
    <3>2. Despiertan' \ {w} = Despiertan \ {w} /\ w \in Despiertan' /\ w \notin Despiertan
      BY <3>1 DEF Despiertan, TypeOK
    <3>3. d' = d + 1
      BY <1>1, <1>4, <3>2
    <3>4. QED
      BY <1>1, <1>2, <1>8, <2>1, <3>1, <3>3 DEF FichasReady
  <2>3. CASE Compara(w) \/ BuscaVictima(w) \/ Desaloja(w)
    <3>1. /\ UNCHANGED <<colas_ready, sem_procesos_ready>> /\ desp_pc[w] \in {"compara", "busca", "envia"}
          /\ \E s \in {"busca", "post", "caido", "envia"} : desp_pc' = [desp_pc EXCEPT ![w] = s]
      BY <2>3 DEF Compara, BuscaVictima, Desaloja, ready
    <3>2. Despiertan' = Despiertan
      BY <3>1 DEF Despiertan, TypeOK
    <3>3. QED
      BY <1>5, <2>1, <3>1, <3>2 DEF FichasReady
  <2>4. CASE AvisaDespierto(w)
    <3>1. /\ UNCHANGED colas_ready /\ sem_procesos_ready' = sem_procesos_ready + 1
          /\ desp_pc[w] = "post" /\ desp_pc' = [desp_pc EXCEPT ![w] = "libre"]
      BY <2>4 DEF AvisaDespierto, PostReady
    <3>2. Despiertan' \ {w} = Despiertan \ {w} /\ w \notin Despiertan' /\ w \in Despiertan
      BY <3>1 DEF Despiertan, TypeOK
    <3>3. d' = d - 1
      BY <1>1, <1>4, <3>2
    <3>4. QED
      BY <1>1, <1>2, <1>5, <2>1, <3>1, <3>3 DEF FichasReady
  <2>5. QED
    BY <1>11, <2>2, <2>3, <2>4 DEF Despierta
<1>12. CASE UNCHANGED <<colas_ready, sem_procesos_ready, pc, desp_pc, plan_pc>>
  BY <1>5, <1>6, <1>7, <1>12 DEF FichasReady, EnPlanificador
<1>13. ASSUME NEW c \in Cpu, CpuModulo(c) PROVE UNCHANGED <<colas_ready, sem_procesos_ready, pc, desp_pc, plan_pc>>
  BY <1>13 DEF CpuModulo, TomaOrden, Syscall, Interrumpida, ready, hilo, desp, plan
<1>14. ASSUME NEW x, VenceQuantum(x) \/ InterrumpeQuantum(x)
       PROVE  UNCHANGED <<colas_ready, sem_procesos_ready, pc, desp_pc, plan_pc>>
  BY <1>14 DEF VenceQuantum, InterrumpeQuantum, ready, hilo, desp, plan
<1>15. CASE UNCHANGED vars
  BY <1>12, <1>15 DEF vars, ready, hilo, desp, plan
<1>16. QED
  BY <1>9, <1>10, <1>11, <1>12, <1>13, <1>14, <1>15 DEF Next

\* Whatever order the threads post and the planner takes tokens in, and whenever it gives
\* one back, no process is left in a READY queue without a token.
THEOREM FichasReadyCorrecto == Spec => []NingunReadySinFicha
<1>1. TypeOK /\ FichasReady => NingunReadySinFicha
  <2> SUFFICES ASSUME TypeOK, FichasReady PROVE NingunReadySinFicha
    OBVIOUS
  <2>1. Encolados \subseteq EnReady
    BY DEF Encolados, EnReady, TypeOK
  <2>2. /\ Cardinality(Encolados) <= Cardinality(EnReady) /\ IsFiniteSet(Encolados)
        /\ IsFiniteSet(Avisan) /\ IsFiniteSet(Despiertan)
    BY <2>1, FS_Subset, FinitosAssumption DEF FinitosAssumption, Avisan, Despiertan, FichasReady
  <2>3. /\ Cardinality(Encolados) \in Nat /\ Cardinality(EnReady) \in Nat
        /\ Cardinality(Avisan) \in Nat /\ Cardinality(Despiertan) \in Nat
    BY <2>2, FS_CardinalityType DEF FichasReady
  <2>4. QED
    BY <2>2, <2>3 DEF FichasReady, NingunReadySinFicha, PostsPendientes, Avisan, Despiertan, EnPlanificador, TypeOK
<1>2. Spec => []FichasReady
  BY FichasReadyInit, FichasReadyNext, TypeCorrect, PTL DEF Spec
<1>3. QED
  BY <1>1, <1>2, TypeCorrect, PTL

-----------------------------------------------------------------------------
(* A process is in one place.                                               *)

\* The process that the thread of a CPU has received and not placed yet.
Manejado(c) ==
    IF pc[c] \in {"libera", "post_cpu", "atiende", "post_nuevo", "segundo"} THEN sujeto[c][1] ELSE Nadie
exec == [c \in Cpu |-> Asignado(c)]
mano == [c \in Cpu |-> Manejado(c)]

Espera(p) == \E q \in Colas : \E k \in 1 .. Len(colas_ready[q]) : colas_ready[q][k] = p
EnUnaCola ==
    \A q, r \in Colas : \A j \in 1 .. Len(colas_ready[q]), k \in 1 .. Len(colas_ready[r]) :
        colas_ready[q][j] = colas_ready[r][k] => q = r /\ j = k

\* A process is new, blocked, in one queue, in one CPU or in the hands of one thread.
UnSitio ==
    /\ EnUnaCola
    /\ \A c, d \in Cpu : /\ exec[c] = exec[d] /\ exec[c] # Nadie => c = d
                         /\ mano[c] = mano[d] /\ mano[c] # Nadie => c = d
                         /\ exec[c] = mano[d] => exec[c] = Nadie
    /\ \A p \in Pid : Espera(p) => /\ \A c \in Cpu : exec[c] # p /\ mano[c] # p
                                   /\ p \notin nuevos \cup bloqueados
    /\ \A c \in Cpu : exec[c] \notin nuevos \cup bloqueados /\ mano[c] \notin nuevos \cup bloqueados
    /\ nuevos \cap bloqueados = {}

TipoSitios == exec \in [Cpu -> Pid \cup {Nadie}] /\ mano \in [Cpu -> Pid \cup {Nadie}]

LEMMA ContenidoTipo ==
    ASSUME TypeOK, NEW c \in Cpu
    PROVE  Contenido(c) \in Pid \cup {Nadie} /\ (Contenido(c) = Nadie <=> Vacia(c))
<1>1. Nadie \notin Pid /\ vuelta \in [Cpu -> (Pid \X {"A_READY", "BLOCK", "INIT_PROC", "EXIT"}) \cup {Nadie}]
  BY DistintosAssumption DEF DistintosAssumption, TypeOK
<1>2. EnSocket(c) => ElPcb(socket_cpu[c]) \in Pid
  BY DEF EnSocket, HayPcb, ElPcb
<1>3. corre[c] \in Pid \cup {Nadie} /\ (vuelta[c] # Nadie => vuelta[c][1] \in Pid)
  BY <1>1 DEF TypeOK
<1>4. QED
  BY <1>1, <1>2, <1>3 DEF Contenido, Vacia

LEMMA AsignadoEs ==
    ASSUME NEW c
    PROVE  Asignado(c) = IF plan_pc = "envia" /\ fd = c THEN pcb ELSE Contenido(c)
  BY DEF Asignado, Contenido, EnSocket, HayPcb, ElPcb

LEMMA TiposDeSitios == TypeOK => TipoSitios
<1> SUFFICES ASSUME TypeOK PROVE TipoSitios
  OBVIOUS
<1>1. ASSUME NEW c \in Cpu PROVE Asignado(c) \in Pid \cup {Nadie}
  BY ContenidoTipo, AsignadoEs DEF TypeOK
<1>2. ASSUME NEW c \in Cpu PROVE Manejado(c) \in Pid \cup {Nadie}
  BY DEF Manejado, TypeOK
<1>3. QED
  BY <1>1, <1>2 DEF TipoSitios, exec, mano

-----------------------------------------------------------------------------
(* The moves of a process between these places.                             *)

Despachado(q) ==
    /\ exec[fd] = Nadie /\ fd \in Cpu
    /\ ColaServida(q)
    /\ exec' = [exec EXCEPT ![fd] = Head(colas_ready[q])]
    /\ colas_ready' = [colas_ready EXCEPT ![q] = Tail(@)]
    /\ UNCHANGED <<mano, nuevos, bloqueados>>

Recibido(c) ==
    /\ exec[c] # Nadie /\ mano[c] = Nadie
    /\ exec' = [exec EXCEPT ![c] = Nadie]
    /\ mano' = [mano EXCEPT ![c] = exec[c]]
    /\ UNCHANGED <<colas_ready, nuevos, bloqueados>>

Encolado(p) ==
    /\ Encola(p)
    /\ UNCHANGED exec
    /\ \/ \E c \in Cpu : /\ mano[c] = p /\ mano' = [mano EXCEPT ![c] = Nadie]
                         /\ UNCHANGED <<nuevos, bloqueados>>
       \/ p \in nuevos /\ nuevos' = nuevos \ {p} /\ UNCHANGED <<mano, bloqueados>>
       \/ p \in bloqueados /\ bloqueados' = bloqueados \ {p} /\ UNCHANGED <<mano, nuevos>>

Dejado(c) ==
    /\ mano[c] # Nadie
    /\ mano' = [mano EXCEPT ![c] = Nadie]
    /\ UNCHANGED bloqueados \/ bloqueados' = bloqueados \cup {mano[c]}
    /\ UNCHANGED <<exec, colas_ready, nuevos>>

Quieto == UNCHANGED <<exec, mano, colas_ready, nuevos, bloqueados>>

Traslado ==
    \/ Quieto
    \/ \E q \in Colas : Despachado(q)
    \/ \E c \in Cpu : Recibido(c) \/ Dejado(c)
    \/ \E p \in Pid : Encolado(p)

\* Every step of the code moves one process at most, from one of these places to another.
LEMMA Traslados == TypeOK /\ UnPcb /\ [Next]_vars => Traslado
<1> SUFFICES ASSUME TypeOK, UnPcb, [Next]_vars PROVE Traslado
  OBVIOUS
<1>1. Nadie \notin Pid /\ sujeto \in [Cpu -> (Pid \X {"A_READY", "BLOCK", "INIT_PROC", "EXIT"}) \cup {Nadie}]
  BY DistintosAssumption DEF DistintosAssumption, TypeOK
<1>2. /\ \A c \in Cpu : exec[c] = IF plan_pc = "envia" /\ fd = c THEN pcb ELSE Contenido(c)
      /\ \A c \in Cpu : exec'[c] = IF plan_pc' = "envia" /\ fd' = c THEN pcb' ELSE Contenido(c)'
  BY DEF exec, Asignado, Contenido, EnSocket, HayPcb, ElPcb
<1>3. ASSUME ~(plan_pc = "envia"), ~(plan_pc' = "envia"), \A c \in Cpu : Contenido(c)' = Contenido(c)
      PROVE  UNCHANGED exec
  BY <1>2, <1>3 DEF exec
<1>4. ASSUME UNCHANGED plan, \A c \in Cpu : Contenido(c)' = Contenido(c)
      PROVE  UNCHANGED exec
  BY <1>2, <1>4 DEF exec, plan
<1>5. UNCHANGED hilo => UNCHANGED mano
  BY DEF mano, Manejado, hilo
<1>6. UNCHANGED <<socket_cpu, en_cpu>> => \A c \in Cpu : Contenido(c)' = Contenido(c)
  BY DEF Contenido, EnSocket, en_cpu
<1>7. ASSUME NEW c \in Cpu, ~EnviaPcb, \A d \in Cpu : ~Recibe(d) PROVE Contenido(c)' = Contenido(c)
  BY <1>7, CambiaContenido
<1>8. CASE Planificador
  <2>1. UNCHANGED <<nuevos, bloqueados>> /\ UNCHANGED mano
    BY <1>5, <1>8 DEF Planificador, EsperaReady, EsperaCpu, BuscaCpu, SacaDeReady, EnviaPcb, MarcaOcupada, programa
  <2>2. CASE EsperaReady \/ EsperaCpu \/ BuscaCpu \/ MarcaOcupada
    <3>1. /\ plan_pc # "envia" /\ plan_pc' # "envia" /\ UNCHANGED colas_ready
          /\ UNCHANGED <<socket_cpu, en_cpu>>
      BY <2>2 DEF EsperaReady, EsperaCpu, BuscaCpu, MarcaOcupada, ready, PostReady
    <3>2. QED
      BY <1>3, <1>6, <2>1, <3>1 DEF Traslado, Quieto
  <2>3. CASE SacaDeReady
    <3>1. plan_pc = "saca" /\ fd \in Cpu /\ Vacia(fd) /\ UNCHANGED <<socket_cpu, en_cpu>>
      BY <2>3 DEF SacaDeReady, TypeOK, UnPcb, Marcas
    <3>2. CASE \E q \in Colas : /\ ColaServida(q) /\ colas_ready' = [colas_ready EXCEPT ![q] = Tail(@)]
                                /\ pcb' = Head(colas_ready[q]) /\ plan_pc' = "envia" /\ UNCHANGED fd
      <4>1. PICK q \in Colas : /\ ColaServida(q) /\ colas_ready' = [colas_ready EXCEPT ![q] = Tail(@)]
                               /\ pcb' = Head(colas_ready[q]) /\ plan_pc' = "envia" /\ UNCHANGED fd
        BY <3>2
      <4>2. exec[fd] = Nadie
        BY <1>2, <3>1, ContenidoTipo
      <4>3. exec' = [exec EXCEPT ![fd] = Head(colas_ready[q])]
        BY <1>2, <1>6, <3>1, <4>1 DEF exec
      <4>4. Despachado(q)
        BY <2>1, <3>1, <4>1, <4>2, <4>3 DEF Despachado
      <4>5. QED
        BY <4>4 DEF Traslado
    <3>3. CASE plan_pc' = "ready" /\ UNCHANGED colas_ready
      BY <1>3, <1>6, <2>1, <3>1, <3>3 DEF Traslado, Quieto
    <3>4. QED
      BY <2>3, <3>2, <3>3 DEF SacaDeReady
  <2>4. CASE EnviaPcb
    <3>1. /\ plan_pc = "envia" /\ plan_pc' = "marca" /\ fd \in Cpu /\ pcb \in Pid
          /\ ~EnSocket(fd) /\ socket_cpu[fd] \in Seq(Orden) /\ UNCHANGED <<colas_ready, en_cpu, fd>>
          /\ socket_cpu' = [socket_cpu EXCEPT ![fd] = Append(@, pcb)]
      BY <2>4 DEF EnviaPcb, TypeOK, Orden, UnPcb, Marcas, Vacia, ready
    <3>2. Contenido(fd)' = pcb
      BY <3>1, AgregaPcb DEF Contenido, EnSocket, TypeOK
    <3>3. \A c \in Cpu : c # fd => Contenido(c)' = Contenido(c)
      BY <3>1 DEF Contenido, EnSocket, TypeOK, en_cpu
    <3>4. exec' = exec
      BY <1>2, <3>1, <3>2, <3>3 DEF exec
    <3>5. QED
      BY <2>1, <3>1, <3>4 DEF Traslado, Quieto
  <2>5. QED
    BY <1>8, <2>2, <2>3, <2>4 DEF Planificador
<1>9. ASSUME NEW c \in Cpu, AtiendeCpu(c) PROVE Traslado
  <2>1. UNCHANGED plan
    BY <1>9 DEF AtiendeCpu, Conecta, Recibe, Libera, CpuLibre, Atiende, SegundoEncolado, AvisaReady, AvisaExit
  <2>2. CASE Recibe(c)
    <3>1. /\ pc[c] = "recv" /\ pc' = [pc EXCEPT ![c] = "libera"] /\ UNCHANGED <<socket_cpu, corre>>
          /\ vuelta' = [vuelta EXCEPT ![c] = Nadie] /\ vuelta[c] # Nadie
          /\ sujeto' = [sujeto EXCEPT ![c] = vuelta[c]] /\ UNCHANGED <<colas_ready, nuevos, bloqueados>>
      BY <2>2 DEF Recibe, ready, programa
    <3>2. ~EnSocket(c) /\ corre[c] = Nadie /\ ~(plan_pc = "envia" /\ fd = c)
      BY <3>1 DEF UnPcb, UnSoloPcb, Marcas, Vacia
    <3>3. Contenido(c) = vuelta[c][1] /\ Contenido(c)' = Nadie /\ Contenido(c) # Nadie
      BY <3>1, <3>2, ContenidoTipo DEF Contenido, EnSocket, TypeOK, Vacia
    <3>4. \A d \in Cpu : d # c => Contenido(d)' = Contenido(d)
      BY <3>1 DEF Contenido, EnSocket, TypeOK
    <3>5. exec[c] = vuelta[c][1] /\ exec' = [exec EXCEPT ![c] = Nadie]
      BY <1>2, <2>1, <3>2, <3>3, <3>4 DEF exec, plan
    <3>6. mano[c] = Nadie /\ mano' = [mano EXCEPT ![c] = vuelta[c][1]]
      BY <1>1, <3>1 DEF mano, Manejado, TypeOK
    <3>7. Recibido(c)
      BY <3>1, <3>3, <3>5, <3>6 DEF Recibido
    <3>8. QED
      BY <3>7 DEF Traslado
  <2>3. CASE ~Recibe(c)
    <3>1. UNCHANGED <<socket_cpu, en_cpu, sujeto>> /\ UNCHANGED exec
      BY <1>4, <1>6, <1>9, <2>1, <2>3
         DEF AtiendeCpu, Conecta, Libera, CpuLibre, Atiende, SegundoEncolado, AvisaReady, AvisaExit
    <3>2. mano' = [mano EXCEPT ![c] = IF pc'[c] \in {"libera", "post_cpu", "atiende", "post_nuevo", "segundo"}
                                      THEN sujeto[c][1] ELSE Nadie]
      <4>1. \A d \in Cpu : d # c => pc'[d] = pc[d]
        BY <1>9, <2>3
           DEF AtiendeCpu, Conecta, Libera, CpuLibre, Atiende, SegundoEncolado, AvisaReady, AvisaExit, TypeOK
      <4>2. QED
        BY <3>1, <4>1 DEF mano, Manejado
    <3>3. mano[c] = IF pc[c] \in {"libera", "post_cpu", "atiende", "post_nuevo", "segundo"}
                    THEN sujeto[c][1] ELSE Nadie
      BY DEF mano, Manejado
    <3>4. pc[c] \notin {"conecta", "recv"} => sujeto[c][1] \in Pid
      BY <1>1 DEF TypeOK
    <3>5. mano = [mano EXCEPT ![c] = mano[c]]
      BY DEF mano
    <3>6. CASE Conecta(c) \/ Libera(c) \/ CpuLibre(c) \/ AvisaReady(c) \/ AvisaExit(c)
      <4>1. \/ pc[c] = "conecta" /\ pc'[c] = "recv"
            \/ pc[c] = "libera" /\ pc'[c] = "post_cpu"
            \/ pc[c] = "post_cpu" /\ pc'[c] = "atiende"
            \/ pc[c] = "post" /\ pc'[c] = "recv"
            \/ pc[c] = "post_nuevo" /\ pc'[c] = "segundo"
            \/ pc[c] = "post_exit" /\ pc'[c] = "recv"
        BY <3>6 DEF Conecta, Libera, CpuLibre, AvisaReady, AvisaExit, TypeOK
      <4>2. UNCHANGED mano
        BY <3>2, <3>3, <3>5, <4>1
      <4>3. UNCHANGED <<colas_ready, nuevos, bloqueados>>
        BY <3>6 DEF Conecta, Libera, CpuLibre, AvisaReady, AvisaExit, ready, programa
      <4>4. QED
        BY <3>1, <4>2, <4>3 DEF Traslado, Quieto
    <3>7. CASE Atiende(c)
      <4> DEFINE p == sujeto[c][1]
      <4>1. pc[c] = "atiende" /\ p \in Pid /\ mano[c] = p /\ p # Nadie
        BY <1>1, <3>3, <3>4, <3>7 DEF Atiende
      <4>2. CASE Encola(p) /\ pc' = [pc EXCEPT ![c] = "post"] /\ UNCHANGED <<nuevos, bloqueados>>
        <5>1. mano' = [mano EXCEPT ![c] = Nadie]
          BY <3>2, <4>2 DEF TypeOK
        <5>2. Encolado(p)
          BY <3>1, <4>1, <4>2, <5>1 DEF Encolado
        <5>3. QED
          BY <4>1, <5>2 DEF Traslado
      <4>3. CASE bloqueados' = bloqueados \cup {p} /\ pc' = [pc EXCEPT ![c] = "recv"] /\ UNCHANGED <<colas_ready, nuevos>>
        <5>1. mano' = [mano EXCEPT ![c] = Nadie]
          BY <3>2, <4>3 DEF TypeOK
        <5>2. Dejado(c)
          BY <3>1, <4>1, <4>3, <5>1 DEF Dejado
        <5>3. QED
          BY <5>2 DEF Traslado
      <4>4. CASE UNCHANGED <<colas_ready, nuevos, bloqueados>> /\ pc' = [pc EXCEPT ![c] = "segundo"]
        <5>1. UNCHANGED mano
          BY <3>2, <3>5, <4>1, <4>4 DEF TypeOK
        <5>2. QED
          BY <3>1, <4>4, <5>1 DEF Traslado, Quieto
      <4>5. CASE \E q \in nuevos : /\ Encola(q) /\ nuevos' = nuevos \ {q} /\ UNCHANGED bloqueados
                                   /\ pc' = [pc EXCEPT ![c] = "post_nuevo"]
        <5>1. UNCHANGED mano
          BY <3>2, <3>5, <4>1, <4>5 DEF TypeOK
        <5>2. PICK q \in nuevos : Encolado(q)
          BY <3>1, <4>5, <5>1 DEF Encolado
        <5>3. QED
          BY <5>2 DEF Traslado, TypeOK
      <4>6. CASE pc' = [pc EXCEPT ![c] = "post_exit"] /\ UNCHANGED <<colas_ready, nuevos, bloqueados>>
        <5>1. mano' = [mano EXCEPT ![c] = Nadie]
          BY <3>2, <4>6 DEF TypeOK
        <5>2. Dejado(c)
          BY <3>1, <4>1, <4>6, <5>1 DEF Dejado
        <5>3. QED
          BY <5>2 DEF Traslado
      <4>7. QED
        BY <3>7, <4>2, <4>3, <4>4, <4>5, <4>6 DEF Atiende
    <3>8. CASE SegundoEncolado(c)
      <4> DEFINE p == sujeto[c][1]
      <4>1. /\ p \in Pid /\ mano[c] = p
            /\ Encola(p) /\ pc' = [pc EXCEPT ![c] = "post"] /\ UNCHANGED <<nuevos, bloqueados>>
        BY <3>3, <3>4, <3>8 DEF SegundoEncolado, programa
      <4>2. mano' = [mano EXCEPT ![c] = Nadie]
        BY <3>2, <4>1 DEF TypeOK
      <4>3. Encolado(p)
        BY <3>1, <4>1, <4>2 DEF Encolado
      <4>4. QED
        BY <4>1, <4>3 DEF Traslado
    <3>9. QED
      BY <1>9, <2>3, <3>6, <3>7, <3>8 DEF AtiendeCpu
  <2>4. QED
    BY <2>2, <2>3
<1>10. CASE ~(Planificador \/ \E c \in Cpu : AtiendeCpu(c))
  <2>1. UNCHANGED exec
    <3>1. UNCHANGED plan
      BY <1>10 DEF Next, CpuModulo, TomaOrden, Syscall, Interrumpida, Despierta, EncolaEnReady, Compara,
         BuscaVictima, Desaloja, AvisaDespierto, VenceQuantum, InterrumpeQuantum, vars
    <3>2. QED
      BY <1>4, <1>7, <1>10, <3>1 DEF Planificador, AtiendeCpu
  <2>2. UNCHANGED mano
    <3>1. UNCHANGED hilo
      BY <1>10 DEF Next, CpuModulo, TomaOrden, Syscall, Interrumpida, Despierta, EncolaEnReady, Compara,
         BuscaVictima, Desaloja, AvisaDespierto, VenceQuantum, InterrumpeQuantum, vars
    <3>2. QED
      BY <1>5, <3>1
  <2>3. ASSUME NEW d \in Despertador, EncolaEnReady(d) PROVE Traslado
    <3>1. PICK p \in bloqueados : bloqueados' = bloqueados \ {p} /\ Encola(p) /\ UNCHANGED nuevos
      BY <2>3 DEF EncolaEnReady
    <3>2. p \in Pid /\ Encolado(p)
      BY <2>1, <2>2, <3>1 DEF Encolado, TypeOK
    <3>3. QED
      BY <3>2 DEF Traslado
  <2>4. CASE \A d \in Despertador : ~EncolaEnReady(d)
    <3>1. UNCHANGED <<colas_ready, nuevos, bloqueados>>
      BY <1>10, <2>4 DEF Next, CpuModulo, TomaOrden, Syscall, Interrumpida, Despierta, Compara,
         BuscaVictima, Desaloja, AvisaDespierto, VenceQuantum, InterrumpeQuantum, vars, ready, programa
    <3>2. QED
      BY <2>1, <2>2, <3>1 DEF Traslado, Quieto
  <2>5. QED
    BY <2>3, <2>4
<1>11. QED
  BY <1>8, <1>9, <1>10

LEMMA ColasEncola ==
    ASSUME TypeOK, EnUnaCola, NEW p \in Pid, ~Espera(p), Encola(p)
    PROVE  EnUnaCola' /\ \A x : Espera(x)' <=> Espera(x) \/ x = p
<1> DEFINE q == ColaDe(p)
           n == Len(colas_ready[q])
<1>1. q \in Colas /\ n \in Nat /\ \A r \in Colas : Len(colas_ready[r]) \in Nat
  BY EnCola DEF TypeOK
<1>2. /\ \A r \in Colas : r # q => colas_ready'[r] = colas_ready[r]
      /\ Len(colas_ready'[q]) = n + 1 /\ colas_ready'[q][n + 1] = p
      /\ \A k \in 1 .. n : colas_ready'[q][k] = colas_ready[q][k]
  BY <1>1 DEF Encola, TypeOK
<1> HIDE DEF q
<1>3. ASSUME NEW r \in Colas, NEW k \in 1 .. Len(colas_ready'[r])
      PROVE  \/ r = q /\ k = n + 1 /\ colas_ready'[r][k] = p
             \/ k \in 1 .. Len(colas_ready[r]) /\ colas_ready'[r][k] = colas_ready[r][k] /\ colas_ready'[r][k] # p
  <2>1. CASE r = q
    <3>1. k = n + 1 \/ k \in 1 .. n
      BY <1>1, <1>2, <1>3, <2>1
    <3>2. QED
      BY <1>2, <1>3, <2>1, <3>1 DEF Espera
  <2>2. CASE r # q
    BY <1>2, <1>3, <2>2 DEF Espera
  <2>3. QED
    BY <2>1, <2>2
<1>4. EnUnaCola'
  BY <1>3 DEF EnUnaCola
<1>5. ASSUME NEW x PROVE Espera(x)' <=> Espera(x) \/ x = p
  <2>1. ASSUME NEW r \in Colas, NEW k \in 1 .. Len(colas_ready[r])
        PROVE  k \in 1 .. Len(colas_ready'[r]) /\ colas_ready'[r][k] = colas_ready[r][k]
    <3>1. CASE r = q
      BY <1>1, <1>2, <2>1, <3>1
    <3>2. CASE r # q
      BY <1>2, <2>1, <3>2
    <3>3. QED
      BY <3>1, <3>2
  <2>2. n + 1 \in 1 .. Len(colas_ready'[q])
    BY <1>1, <1>2
  <2>3. QED
    BY SMTT(30), <1>1, <1>2, <1>3, <2>1, <2>2 DEF Espera
<1>6. QED
  BY <1>4, <1>5

LEMMA ColasSaca ==
    ASSUME TypeOK, EnUnaCola, NEW q \in Colas, colas_ready[q] # <<>>,
           colas_ready' = [colas_ready EXCEPT ![q] = Tail(@)], NEW p, p = Head(colas_ready[q])
    PROVE  /\ EnUnaCola' /\ p \in Pid /\ Espera(p) /\ ~Espera(p)'
           /\ \A x : Espera(x)' => Espera(x)
<1> DEFINE n == Len(colas_ready[q])
<1>1. colas_ready[q] \in Seq(Pid) /\ n \in Nat \ {0} /\ \A r \in Colas : Len(colas_ready[r]) \in Nat
  BY EmptySeq DEF TypeOK
<1>2. /\ \A r \in Colas : r # q => colas_ready'[r] = colas_ready[r]
      /\ Len(colas_ready'[q]) = n - 1 /\ p = colas_ready[q][1] /\ p \in Pid
      /\ \A k \in 1 .. n - 1 : colas_ready'[q][k] = colas_ready[q][k + 1]
  BY <1>1, HeadTailProperties DEF TypeOK
<1> DEFINE lugar(r, k) == IF r = q THEN k + 1 ELSE k
<1>3. ASSUME NEW r \in Colas, NEW k \in 1 .. Len(colas_ready'[r])
      PROVE  /\ lugar(r, k) \in 1 .. Len(colas_ready[r]) /\ k \in Nat
             /\ colas_ready'[r][k] = colas_ready[r][lugar(r, k)]
             /\ ~(r = q /\ lugar(r, k) = 1)
  <2>1. CASE r = q
    BY <1>1, <1>2, <1>3, <2>1
  <2>2. CASE r # q
    BY <1>2, <1>3, <2>2
  <2>3. QED
    BY <2>1, <2>2
<1>4. 1 \in 1 .. n
  BY <1>1
<1>5. ASSUME NEW r \in Colas, NEW t \in Colas,
             NEW j \in 1 .. Len(colas_ready'[r]), NEW k \in 1 .. Len(colas_ready'[t]),
             colas_ready'[r][j] = colas_ready'[t][k]
      PROVE  r = t /\ j = k
  <2>1. r = t /\ lugar(r, j) = lugar(t, k)
    <3> HIDE DEF lugar
    <3>1. QED
      BY <1>3, <1>5 DEF EnUnaCola
  <2>2. j \in Nat /\ k \in Nat
    BY <1>3
  <2>3. QED
    BY <2>1, <2>2
<1>6. EnUnaCola'
  BY <1>5 DEF EnUnaCola
<1> HIDE DEF lugar
<1>7. \A x : Espera(x)' => Espera(x)
  BY <1>3 DEF Espera
<1>8. Espera(p)
  BY <1>2, <1>4 DEF Espera
<1>9. ASSUME NEW r \in Colas, NEW k \in 1 .. Len(colas_ready'[r]), colas_ready'[r][k] = p
      PROVE  FALSE
  <2>1. colas_ready[r][lugar(r, k)] = colas_ready[q][1] /\ lugar(r, k) \in 1 .. Len(colas_ready[r])
    BY <1>2, <1>3, <1>9
  <2>2. r = q /\ lugar(r, k) = 1
    BY <1>4, <2>1 DEF EnUnaCola
  <2>3. QED
    BY <1>3, <2>2
<1>10. ~Espera(p)'
  BY <1>9 DEF Espera
<1>11. QED
  BY <1>2, <1>6, <1>7, <1>8, <1>10

LEMMA UnSitioInit == Init => UnSitio
<1> SUFFICES ASSUME Init PROVE UnSitio
  OBVIOUS
<1>1. PICK p \in Pid : /\ colas_ready = [q \in Colas |-> IF q = ColaDe(p) THEN <<p>> ELSE <<>>]
                       /\ nuevos = Pid \ {p}
  BY DEF Init
<1>2. \A q \in Colas : Len(colas_ready[q]) = (IF q = ColaDe(p) THEN 1 ELSE 0)
                       /\ \A k \in 1 .. Len(colas_ready[q]) : q = ColaDe(p) /\ k = 1 /\ colas_ready[q][k] = p
  BY <1>1
<1>3. \A c \in Cpu : exec[c] = Nadie /\ mano[c] = Nadie
  BY SocketVacio DEF Init, exec, mano, Manejado, Asignado
<1>4. Nadie \notin Pid
  BY DistintosAssumption DEF DistintosAssumption
<1>5. EnUnaCola
  BY <1>2 DEF EnUnaCola
<1>6. \A x : Espera(x) => x = p
  BY <1>2 DEF Espera
<1>7. QED
  BY <1>1, <1>3, <1>4, <1>5, <1>6 DEF Init, UnSitio

LEMMA UnSitioNext == TypeOK /\ UnPcb /\ UnSitio /\ [Next]_vars => UnSitio'
<1> SUFFICES ASSUME TypeOK, UnPcb, UnSitio, [Next]_vars PROVE UnSitio'
  OBVIOUS
<1>1. Traslado
  BY Traslados
<1>2. TipoSitios /\ EnUnaCola /\ Nadie \notin Pid /\ nuevos \subseteq Pid /\ bloqueados \subseteq Pid
  BY TiposDeSitios, DistintosAssumption DEF DistintosAssumption, UnSitio, TypeOK
<1>3. CASE Quieto
  <2>1. EnUnaCola' = EnUnaCola /\ \A p : Espera(p)' = Espera(p)
    BY <1>3 DEF Quieto, EnUnaCola, Espera
  <2>2. QED
    BY <1>3, <2>1 DEF Quieto, UnSitio
<1>4. ASSUME NEW q \in Colas, Despachado(q) PROVE UnSitio'
  <2>1. PICK p : p = Head(colas_ready[q])
    OBVIOUS
  <2>2. EnUnaCola' /\ p \in Pid /\ Espera(p) /\ ~Espera(p)' /\ \A x : Espera(x)' => Espera(x)
    BY <1>2, <1>4, <2>1, ColasSaca DEF Despachado, ColaServida
  <2>3. /\ fd \in Cpu /\ \A c \in Cpu : exec'[c] = IF c = fd THEN p ELSE exec[c]
        /\ UNCHANGED <<mano, nuevos, bloqueados>>
    BY <1>2, <1>4, <2>1 DEF Despachado, TipoSitios
  <2>4. \A c \in Cpu : exec[c] # p /\ mano[c] # p
    BY <2>2 DEF UnSitio
  <2>5. /\ \A c, d \in Cpu : /\ exec'[c] = exec'[d] /\ exec'[c] # Nadie => c = d
                             /\ mano'[c] = mano'[d] /\ mano'[c] # Nadie => c = d
                             /\ exec'[c] = mano'[d] => exec'[c] = Nadie
    BY <2>3, <2>4 DEF UnSitio
  <2>6. p \notin nuevos \cup bloqueados
    BY <2>2 DEF UnSitio
  <2>7. /\ \A c \in Cpu : exec'[c] \notin nuevos' \cup bloqueados' /\ mano'[c] \notin nuevos' \cup bloqueados'
        /\ nuevos' \cap bloqueados' = {}
    BY <2>3, <2>6 DEF UnSitio
  <2>8. \A x \in Pid : Espera(x)' => /\ \A c \in Cpu : exec'[c] # x /\ mano'[c] # x
                                     /\ x \notin nuevos' \cup bloqueados'
    BY <2>2, <2>3 DEF UnSitio
  <2>9. QED
    BY <2>2, <2>5, <2>7, <2>8 DEF UnSitio
<1>5. ASSUME NEW c \in Cpu, Recibido(c) PROVE UnSitio'
  <2>1. /\ \A d \in Cpu : exec'[d] = IF d = c THEN Nadie ELSE exec[d]
        /\ \A d \in Cpu : mano'[d] = IF d = c THEN exec[c] ELSE mano[d]
        /\ UNCHANGED <<nuevos, bloqueados>> /\ exec[c] \in Pid
    BY <1>2, <1>5 DEF Recibido, TipoSitios
  <2>2. EnUnaCola' = EnUnaCola /\ \A p : Espera(p)' = Espera(p)
    BY <1>5 DEF Recibido, EnUnaCola, Espera
  <2>3. QED
    BY <1>2, <2>1, <2>2 DEF UnSitio
<1>6. ASSUME NEW c \in Cpu, Dejado(c) PROVE UnSitio'
  <2>1. /\ \A d \in Cpu : mano'[d] = IF d = c THEN Nadie ELSE mano[d]
        /\ UNCHANGED <<exec, nuevos>> /\ mano[c] \in Pid
        /\ UNCHANGED bloqueados \/ bloqueados' = bloqueados \cup {mano[c]}
    BY <1>2, <1>6 DEF Dejado, TipoSitios
  <2>2. EnUnaCola' = EnUnaCola /\ \A p : Espera(p)' = Espera(p)
    BY <1>6 DEF Dejado, EnUnaCola, Espera
  <2>3. QED
    BY <1>2, <2>1, <2>2 DEF UnSitio
<1>7. ASSUME NEW p \in Pid, Encolado(p) PROVE UnSitio'
  <2>1. ~Espera(p)
    BY <1>7 DEF Encolado, UnSitio
  <2>2. EnUnaCola' /\ \A x : Espera(x)' <=> Espera(x) \/ x = p
    BY <1>2, <1>7, <2>1, ColasEncola DEF Encolado
  <2>3. CASE \E c \in Cpu : mano[c] = p /\ mano' = [mano EXCEPT ![c] = Nadie] /\ UNCHANGED <<exec, nuevos, bloqueados>>
    <3>1. PICK c \in Cpu : mano[c] = p /\ mano' = [mano EXCEPT ![c] = Nadie] /\ UNCHANGED <<exec, nuevos, bloqueados>>
      BY <2>3
    <3>2. \A d \in Cpu : mano'[d] = IF d = c THEN Nadie ELSE mano[d]
      BY <1>2, <3>1 DEF TipoSitios
    <3>3. QED
      BY <1>2, <2>2, <3>1, <3>2 DEF UnSitio
  <2>4. CASE p \in nuevos /\ nuevos' = nuevos \ {p} /\ UNCHANGED <<exec, mano, bloqueados>>
    BY <1>2, <2>2, <2>4 DEF UnSitio
  <2>5. CASE p \in bloqueados /\ bloqueados' = bloqueados \ {p} /\ UNCHANGED <<exec, mano, nuevos>>
    BY <1>2, <2>2, <2>5 DEF UnSitio
  <2>6. QED
    BY <1>7, <2>3, <2>4, <2>5 DEF Encolado
<1>8. QED
  BY <1>1, <1>3, <1>4, <1>5, <1>6, <1>7 DEF Traslado

-----------------------------------------------------------------------------
(* The refinement of Reparto.                                               *)

LEMMA RepartoInit == Init => Tabla!Init
<1> SUFFICES ASSUME Init PROVE Tabla!Init
  OBVIOUS
<1>1. \A c \in Cpu : Asignado(c) = Nadie
  BY SocketVacio DEF Init, Asignado
<1>2. PICK p \in Pid : colas_ready = [q \in Colas |-> IF q = ColaDe(p) THEN <<p>> ELSE <<>>]
  BY DEF Init
<1>3. ColaDe(p) \in 0 .. CantidadColas - 1
  BY EnCola DEF Colas
<1>4. QED
  BY <1>1, <1>2, <1>3 DEF Tabla!Init, Colas

LEMMA RepartoNext == TypeOK /\ UnPcb /\ UnSitio /\ [Next]_vars => [Tabla!Next]_<<colas_ready, exec>>
<1> SUFFICES ASSUME TypeOK, UnPcb, UnSitio, [Next]_vars PROVE [Tabla!Next]_<<colas_ready, exec>>
  OBVIOUS
<1>1. Traslado
  BY Traslados
<1>2. CASE Quieto \/ \E c \in Cpu : Dejado(c)
  BY <1>2 DEF Quieto, Dejado
<1>3. ASSUME NEW q \in Colas, Despachado(q) PROVE Tabla!Next
  <2>1. Tabla!Despacha(fd, q)
    BY <1>3 DEF Despachado, ColaServida, Tabla!Despacha, Tabla!Mejor, exec
  <2>2. QED
    BY <1>3, <2>1 DEF Despachado, Tabla!Next, Colas
<1>4. ASSUME NEW c \in Cpu, Recibido(c) PROVE Tabla!Next
  <2>1. Tabla!Devuelve(c)
    BY <1>4 DEF Recibido, Tabla!Devuelve, exec
  <2>2. QED
    BY <2>1 DEF Tabla!Next
<1>5. ASSUME NEW p \in Pid, Encolado(p) PROVE Tabla!Next
  <2>1. ~Espera(p) /\ \A c \in Cpu : exec[c] # p
    BY <1>5, DistintosAssumption DEF DistintosAssumption, Encolado, UnSitio
  <2>2. ColaDe(p) \in 0 .. CantidadColas - 1
    BY EnCola DEF Colas
  <2>3. Tabla!Encola(p, ColaDe(p))
    BY <1>5, <2>1 DEF Encolado, Encola, Espera, Tabla!Encola, exec, Colas
  <2>4. QED
    BY <2>2, <2>3 DEF Tabla!Next
<1>6. QED
  BY <1>1, <1>2, <1>3, <1>4, <1>5 DEF Traslado

\* Semaphores, marks, sockets and late interruptions together do what Reparto says: a free CPU
\* is given the oldest process of the best queue, hands it back once, and no process is
\* enqueued while it is in a queue or in a CPU.
THEOREM RepartoCorrecto == Spec => CumpleReparto
<1>1. TypeOK /\ UnPcb /\ UnSitio /\ [Next]_vars => [Tabla!Next]_<<colas_ready, [c \in Cpu |-> Asignado(c)]>>
  BY RepartoNext DEF exec
<1>2. Spec => []UnSitio
  BY UnSitioInit, UnSitioNext, UnPcbSiempre, PTL DEF Spec
<1>3. QED
  BY <1>1, <1>2, UnPcbSiempre, RepartoInit, PTL DEF Spec, CumpleReparto, Tabla!Spec

=============================================================================

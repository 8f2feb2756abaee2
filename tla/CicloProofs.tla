---------------------------- MODULE CicloProofs ----------------------------
(***************************************************************************)
(* Suspension implements ProcessLifecycle, for any processes, CPUs,        *)
(* interfaces, program lengths and memory.  The argument:                  *)
(*   Estados  where a PCB is decides the state of its process;             *)
(*   Fines    a process whose I/O has ended and was not attended sleeps;   *)
(*   Paso     what a step of Suspension does to one process and to the     *)
(*            others is a step of ProcessLifecycle, or none.               *)
(* The first two hold in every reachable state because of the invariant    *)
(* of SuspensionProofs: a PCB is in one place, and its wakeup too.         *)
(***************************************************************************)
EXTENDS SuspensionProofs

EnCpu(p) == \E c \in Cpu : exec[c] = p \/ EnMano(c, p)
EnInterfazMano(p) == \E i \in Interfaz : EnMano(i, p)

EstadoPorLugar(p) ==
    /\ \A q \in Cola : p \in cola[q] => EstadoDe(p) = q
    /\ Limbo(p) => EstadoDe(p) = "SUSP_BLOCK"
    /\ EnInterfazMano(p) => EstadoDe(p) = "BLOCK"
    /\ EnCpu(p) => EstadoDe(p) = "EXEC"
    /\ (\E q \in Cola : p \in cola[q]) \/ Limbo(p) \/ EnInterfazMano(p) \/ EnCpu(p)

\* A timer has a process in its hands exactly while it is in limbo or in SWAP.
LEMMA LimboAhora == Tipos => \A p \in Pid : Limbo(p) <=> \E t \in Timer : EnMano(t, p)
BY DEF Tipos, TypeOK, TipoHilos, Limbo, EnMano, Pcb, ConPcb, PcTimer

LEMMA LimboDespues == Tipos' => \A p \in Pid : (Limbo(p) <=> \E t \in Timer : EnMano(t, p))'
<1>1. (Tipos => \A p \in Pid : Limbo(p) <=> \E t \in Timer : EnMano(t, p))'
  BY LimboAhora, PTL
<1>2. QED
  BY <1>1

\* Each process is in one place, and the place decides its state.
LEMMA EstadosAhora == Tipos /\ UnSoloLugar => \A p \in Pid : EstadoPorLugar(p)
<1> SUFFICES ASSUME Tipos, NEW p \in Pid, UnLugar(p) PROVE EstadoPorLugar(p)
  BY DEF UnSoloLugar
<1>1. Limbo(p) <=> \E t \in Timer : EnMano(t, p)
  BY LimboAhora
<1>2. ASSUME NEW q \in Cola, p \in cola[q] PROVE EstadoDe(p) = q
  <2>1. \A r \in Cola : p \in cola[r] <=> r = q
    BY <1>2 DEF UnLugar
  <2>2. (CHOOSE r \in Cola : p \in cola[r]) = q
    BY <2>1
  <2>3. ~Limbo(p) /\ ~(\E i \in Interfaz : EnMano(i, p))
    BY <1>1, <1>2 DEF UnLugar, Hilo
  <2>4. QED
    BY <1>2, <2>2, <2>3 DEF EstadoDe
<1>3. ASSUME Limbo(p) PROVE EstadoDe(p) = "SUSP_BLOCK"
  <2>1. ~(\E i \in Interfaz : EnMano(i, p)) /\ ~(\E q \in Cola : p \in cola[q])
    BY <1>1, <1>3, Disjuntos DEF UnLugar, Hilo
  <2>2. QED
    BY <1>3, <2>1 DEF EstadoDe
<1>4. ASSUME NEW i \in Interfaz, EnMano(i, p) PROVE EstadoDe(p) = "BLOCK"
  <2>1. ~Limbo(p) /\ \A q \in Cola : p \notin cola[q]
    BY <1>1, <1>4, Disjuntos DEF UnLugar, Hilo
  <2>2. QED
    BY <1>4, <2>1 DEF EstadoDe
<1>5. ASSUME NEW c \in Cpu, exec[c] = p \/ EnMano(c, p) PROVE EstadoDe(p) = "EXEC"
  <2>1. ~Limbo(p) /\ ~(\E i \in Interfaz : EnMano(i, p)) /\ \A q \in Cola : p \notin cola[q]
    BY <1>1, <1>5, Disjuntos DEF UnLugar, Hilo
  <2>2. QED
    BY <2>1 DEF EstadoDe
<1>6. (\E q \in Cola : p \in cola[q]) \/ Limbo(p) \/ EnInterfazMano(p) \/ EnCpu(p)
  BY <1>1 DEF UnLugar, EnInterfazMano, EnCpu, Hilo
<1>7. QED
  BY <1>2, <1>3, <1>4, <1>5, <1>6 DEF EstadoPorLugar, EnCpu, EnInterfazMano

LEMMA EstadosDespues == Tipos' /\ UnSoloLugar' => \A p \in Pid : EstadoPorLugar(p)'
<1>1. (Tipos /\ UnSoloLugar => \A p \in Pid : EstadoPorLugar(p))'
  BY EstadosAhora, PTL
<1>2. QED
  BY <1>1

\* Only a process that sleeps can have an I/O that ended and was not attended.
FinDormido(p) == FinSinAtender(p) => EstadoDe(p) \in {"BLOCK", "SUSP_BLOCK"}

LEMMA FinesAhora == Invariante => \A p \in Pid : FinDormido(p)
<1> SUFFICES ASSUME Invariante, NEW p \in Pid, FinSinAtender(p) PROVE EstadoDe(p) \in {"BLOCK", "SUSP_BLOCK"}
  BY DEF FinDormido
<1>1. EstadoPorLugar(p)
  BY EstadosAhora DEF Invariante
<1>2. CASE HayAviso(p)
  BY <1>1, <1>2 DEF Invariante, PendienteSoloEnLimbo, EstadoPorLugar
<1>3. CASE \E i \in Interfaz : EnMano(i, p)
  BY <1>1, <1>3 DEF EstadoPorLugar, EnInterfazMano
<1>4. CASE EnCamino(p)
  <2>1. Dormido(p)
    BY <1>4 DEF Invariante, NingunDespertarPerdido
  <2>2. QED
    BY <1>1, <2>1 DEF Dormido, EstadoPorLugar, Cola
<1>5. QED
  BY <1>2, <1>3, <1>4 DEF FinSinAtender, EnCamino

LEMMA FinesDespues == Invariante' => \A p \in Pid : FinDormido(p)'
<1>1. (Invariante => \A p \in Pid : FinDormido(p))'
  BY FinesAhora, PTL
<1>2. QED
  BY <1>1

-----------------------------------------------------------------------------
(* What a step does to a process.                                           *)

\* The step leaves p where it is: in its list, with its CPU or the thread that serves
\* it, in the hands of an interface thread or of a timer ...
MismoLugar(p) ==
    /\ \A q \in Cola : p \in cola'[q] <=> p \in cola[q]
    /\ \A c \in Cpu : exec'[c] = p \/ EnMano(c, p)' <=> exec[c] = p \/ EnMano(c, p)
    /\ \A i \in Interfaz : EnMano(i, p)' <=> EnMano(i, p)
    /\ \A t \in Timer : EnMano(t, p)' <=> EnMano(t, p)

\* ... and the end of its I/O too: answered, read, being attended, left to its timer.
Ajeno(p) ==
    /\ MismoLugar(p)
    /\ \A i \in Interfaz : /\ PorMirar(i, p)' <=> PorMirar(i, p)
                           /\ p \in respuestas'[i] <=> p \in respuestas[i]
    /\ HayAviso(p)' <=> HayAviso(p)

MismoEstado(p) == EstadoDe(p)' = EstadoDe(p)
MismoFin(p) == FinSinAtender(p)' <=> FinSinAtender(p)

LEMMA LugarNoCambia ==
    ASSUME Invariante, Invariante', NEW p \in Pid, MismoLugar(p)
    PROVE  MismoEstado(p)
<1>1. EstadoPorLugar(p) /\ EstadoPorLugar(p)'
  BY EstadosAhora, EstadosDespues DEF Invariante
<1>2. Limbo(p)' <=> Limbo(p)
  <2>1. (Limbo(p) <=> \E t \in Timer : EnMano(t, p)) /\ (Limbo(p) <=> \E t \in Timer : EnMano(t, p))'
    BY LimboAhora, LimboDespues DEF Invariante
  <2>2. QED
    BY <2>1 DEF MismoLugar
<1>3. (EnCpu(p)' <=> EnCpu(p)) /\ (EnInterfazMano(p)' <=> EnInterfazMano(p))
  BY DEF MismoLugar, EnCpu, EnInterfazMano
<1>4. QED
  BY <1>1, <1>2, <1>3 DEF EstadoPorLugar, MismoLugar, MismoEstado

LEMMA AjenoNoCambia ==
    ASSUME Invariante, Invariante', NEW p \in Pid, Ajeno(p)
    PROVE  MismoEstado(p) /\ MismoFin(p)
<1>1. MismoEstado(p)
  BY LugarNoCambia DEF Ajeno
<1>2. MismoFin(p)
  BY DEF MismoFin, FinSinAtender, Ajeno, MismoLugar
<1>3. QED
  BY <1>1, <1>2

\* A step that changes no process's state is no step of ProcessLifecycle.
LEMMA Tartamudeo ==
    ASSUME Invariante, Invariante', \A q \in Pid : Ajeno(q) \/ (MismoEstado(q) /\ MismoFin(q))
    PROVE  UNCHANGED Ciclo!vars
<1>1. \A q \in Pid : MismoEstado(q) /\ MismoFin(q)
  BY AjenoNoCambia
<1>2. QED
  BY <1>1 DEF Ciclo!vars, MismoEstado, MismoFin

\* A step that takes one process from a state to another.
LEMMA Pasaje ==
    ASSUME Invariante, Invariante', NEW p \in Pid, NEW de, NEW a,
           EstadoDe(p) = de, EstadoDe(p)' = a, \A q \in Pid : q # p => Ajeno(q)
    PROVE  /\ Ciclo!Pasa(p, de, a)
           /\ MismoFin(p) => {q \in Pid : FinSinAtender(q)}' = {q \in Pid : FinSinAtender(q)}
           /\ ~FinSinAtender(p)' => {q \in Pid : FinSinAtender(q)}' = {q \in Pid : FinSinAtender(q)} \ {p}
<1>1. \A q \in Pid : q # p => MismoEstado(q) /\ MismoFin(q)
  BY AjenoNoCambia
<1>2. QED
  BY <1>1 DEF Ciclo!Pasa, MismoEstado, MismoFin

-----------------------------------------------------------------------------
(* The steps.                                                               *)

\* Every step is one passage of ProcessLifecycle by one process, or none.
LEMMA CicloNext == Invariante /\ Invariante' /\ [Next]_vars => [Ciclo!Next]_(Ciclo!vars)
<1> SUFFICES ASSUME Invariante, Invariante', [Next]_vars PROVE Ciclo!Next \/ UNCHANGED Ciclo!vars
  OBVIOUS
<1>1. /\ TipoColas /\ TipoHilos /\ TipoIO /\ TipoMemoria /\ HilosOK /\ BuclesOK
      /\ \A p \in Pid : UnLugar(p) /\ FichaDe(p) /\ DespertarDe(p) /\ PendienteDe(p)
      /\ \A p \in Pid : EstadoPorLugar(p) /\ FinDormido(p)
  BY EstadosAhora, FinesAhora DEF Invariante, Tipos, TypeOK, UnSoloLugar, FichaUnica,
     NingunDespertarPerdido, DespertarDe, PendienteSoloEnLimbo, PendienteDe
<1>2. \A p \in Pid : EstadoPorLugar(p)' /\ FinDormido(p)'
  BY EstadosDespues, FinesDespues DEF Invariante
<1>3. TipoColas' /\ TipoHilos' /\ TipoIO'
  BY DEF Invariante, Tipos, TypeOK
<1> USE Disjuntos, NadieAssumption, LlamadasAssumption DEF NadieAssumption, LlamadasAssumption,
        colas, hilos, relojes, io, susp, espera, memoria
<1>4. ASSUME NEW c \in Cpu, NEW p \in Pid, Despacha(c, p) PROVE Ciclo!Next
  <2>1. \A q \in Pid : q # p => Ajeno(q)
    BY <1>1, <1>3, <1>4 DEF Despacha, Saca, TipoColas, TipoHilos, TipoIO, TipoMemoria, HilosOK,
       Hilo, Cola, EnMano, Pcb, ConPcb, Timer, MismoLugar, Ajeno, PorMirar, HayAviso
  <2>2. EstadoDe(p) = "READY" /\ EstadoDe(p)' = "EXEC"
    BY <1>1, <1>2, <1>3, <1>4 DEF Despacha, Saca, EstadoPorLugar, EnCpu, EnInterfazMano, Limbo,
       TipoColas, TipoHilos, TipoIO, TipoMemoria, HilosOK, Hilo, Cola, EnMano, Pcb, ConPcb,
       Timer
  <2>3. MismoFin(p)
    BY <1>1, <1>2, <1>3, <1>4, <2>2 DEF Despacha, Saca, MismoFin, FinSinAtender, FinDormido,
       PorMirar, HayAviso, TipoColas, TipoHilos, TipoIO, TipoMemoria, HilosOK, Hilo, Cola,
       EnMano, Pcb, ConPcb, Timer
  <2>4. Ciclo!Ejecutar(p)
    BY <2>1, <2>2, <2>3, Pasaje DEF Ciclo!Ejecutar
  <2>5. QED
    BY <2>4 DEF Ciclo!Next
<1>5. ASSUME NEW c \in Cpu, CpuRetorna(c) PROVE UNCHANGED Ciclo!vars
  <2>1. /\ exec[c] \in Pid /\ pc[c] = "espera" /\ c \in Hilo
        /\ sujeto' = [sujeto EXCEPT ![c] = exec[c]] /\ exec' = [exec EXCEPT ![c] = Nadie]
        /\ UNCHANGED <<cola, pending_wakeup, respuestas>>
    BY <1>1, <1>5 DEF CpuRetorna, TipoColas, Hilo
  <2>2. PICK paso \in Llamadas \cup {"BLOCK", "EXIT"} : pc' = [pc EXCEPT ![c] = paso]
    BY <1>5 DEF CpuRetorna, Sigue
  <2>3. paso \in ConPcb
    BY <2>2 DEF ConPcb
  <2>4. \A h \in Hilo : h # c => pc'[h] = pc[h] /\ (h \notin Timer => sujeto'[h] = sujeto[h])
    BY <1>1, <2>1, <2>2 DEF TipoHilos, Hilo
  <2>5. pc'[c] \in ConPcb /\ pc[c] \notin ConPcb /\ sujeto'[c] = exec[c] /\ exec'[c] = Nadie
    BY <1>1, <2>1, <2>2, <2>3 DEF TipoHilos, TipoColas, ConPcb
  <2>6. \A q \in Pid : /\ EnMano(c, q)' <=> exec[c] = q
                       /\ ~EnMano(c, q) /\ exec'[c] # q
                       /\ \A h \in Hilo : h # c => /\ EnMano(h, q)' <=> EnMano(h, q)
                                                   /\ h \notin Timer => (PorMirar(h, q)' <=> PorMirar(h, q))
    <3>1. \A q \in Pid : (EnMano(c, q)' <=> exec[c] = q) /\ ~EnMano(c, q) /\ exec'[c] # q
      BY <2>1, <2>5 DEF EnMano, Pcb
    <3>2. ASSUME NEW q \in Pid, NEW h \in Hilo, h # c
          PROVE  (EnMano(h, q)' <=> EnMano(h, q)) /\ (h \notin Timer => (PorMirar(h, q)' <=> PorMirar(h, q)))
      BY <2>4, <3>2 DEF EnMano, Pcb, PorMirar, Timer, Hilo
    <3>3. QED
      BY <3>1, <3>2
  <2>7. \A q \in Pid : Ajeno(q)
    BY <1>1, <2>1, <2>6 DEF Ajeno, MismoLugar, TipoColas, HayAviso, Hilo
  <2>8. QED
    BY <2>7, Tartamudeo
<1>6. ASSUME NEW c \in Cpu, NEW p \in Pid, p = sujeto[c], VuelveAReady(c) PROVE Ciclo!Next
  <2>1. \A q \in Pid : q # p => Ajeno(q)
    BY <1>1, <1>3, <1>6 DEF VuelveAReady, Mete, Atendido, Sigue, TipoColas, TipoHilos, TipoIO,
       TipoMemoria, HilosOK, Hilo, Cola, EnMano, Pcb, ConPcb, Timer, MismoLugar, Ajeno,
       PorMirar, HayAviso
  <2>2. EstadoDe(p) = "EXEC" /\ EstadoDe(p)' = "READY"
    BY <1>1, <1>2, <1>3, <1>6 DEF VuelveAReady, Mete, Atendido, Sigue, EstadoPorLugar, EnCpu,
       EnInterfazMano, Limbo, TipoColas, TipoHilos, TipoIO, TipoMemoria, HilosOK, Hilo, Cola,
       EnMano, Pcb, ConPcb, Timer
  <2>3. MismoFin(p)
    BY <1>1, <1>2, <1>3, <1>6, <2>2 DEF VuelveAReady, Mete, Atendido, Sigue, MismoFin,
       FinSinAtender, FinDormido, PorMirar, HayAviso, TipoColas, TipoHilos, TipoIO, TipoMemoria,
       HilosOK, Hilo, Cola, EnMano, Pcb, ConPcb, Timer
  <2>4. Ciclo!Devolver(p)
    BY <2>1, <2>2, <2>3, Pasaje DEF Ciclo!Devolver
  <2>5. QED
    BY <2>4 DEF Ciclo!Next
<1>7. ASSUME NEW c \in Cpu, NEW p \in Pid, p = sujeto[c], Sale(c) PROVE Ciclo!Next
  <2>1. \A q \in Pid : q # p => Ajeno(q)
    BY <1>1, <1>3, <1>7 DEF Sale, Mete, LiberaTodo, Sigue, TipoColas, TipoHilos, TipoIO,
       TipoMemoria, HilosOK, Hilo, Cola, EnMano, Pcb, ConPcb, Timer, MismoLugar, Ajeno,
       PorMirar, HayAviso
  <2>2. EstadoDe(p) = "EXEC" /\ EstadoDe(p)' = "EXIT"
    BY <1>1, <1>2, <1>3, <1>7 DEF Sale, Mete, LiberaTodo, Sigue, EstadoPorLugar, EnCpu,
       EnInterfazMano, Limbo, TipoColas, TipoHilos, TipoIO, TipoMemoria, HilosOK, Hilo, Cola,
       EnMano, Pcb, ConPcb, Timer
  <2>3. MismoFin(p)
    BY <1>1, <1>2, <1>3, <1>7, <2>2 DEF Sale, Mete, LiberaTodo, Sigue, MismoFin, FinSinAtender,
       FinDormido, PorMirar, HayAviso, TipoColas, TipoHilos, TipoIO, TipoMemoria, HilosOK, Hilo,
       Cola, EnMano, Pcb, ConPcb, Timer
  <2>4. Ciclo!Finalizar(p)
    BY <2>1, <2>2, <2>3, Pasaje DEF Ciclo!Finalizar
  <2>5. QED
    BY <2>4 DEF Ciclo!Next
<1>8. ASSUME NEW c \in Cpu, InitProc(c) PROVE Ciclo!Next \/ UNCHANGED Ciclo!vars
  <2>1. CASE cola["NEW"] = {}
    <3>1. \A q \in Pid : Ajeno(q)
      BY <1>1, <1>3, <1>8, <2>1 DEF InitProc, Sigue, TipoColas, TipoHilos, TipoIO, TipoMemoria,
         HilosOK, Hilo, Cola, EnMano, Pcb, ConPcb, Timer, MismoLugar, Ajeno, PorMirar, HayAviso
    <3>2. QED
      BY <3>1, Tartamudeo
  <2>2. ASSUME NEW p \in cola["NEW"], Mueve(p, "NEW", "READY") PROVE Ciclo!Next
    <3> p \in Pid
      BY <1>1 DEF TipoColas, Cola
    <3>1. \A q \in Pid : q # p => Ajeno(q)
      BY <1>1, <1>3, <1>8, <2>2 DEF InitProc, Sigue, Mueve, TipoColas, TipoHilos, TipoIO,
         TipoMemoria, HilosOK, Hilo, Cola, EnMano, Pcb, ConPcb, Timer, MismoLugar, Ajeno,
         PorMirar, HayAviso
    <3>2. EstadoDe(p) = "NEW" /\ EstadoDe(p)' = "READY"
      BY <1>1, <1>2, <1>3, <1>8, <2>2 DEF InitProc, Sigue, Mueve, EstadoPorLugar, EnCpu,
         EnInterfazMano, Limbo, TipoColas, TipoHilos, TipoIO, TipoMemoria, HilosOK, Hilo, Cola,
         EnMano, Pcb, ConPcb, Timer
    <3>3. MismoFin(p)
      BY <1>1, <1>2, <1>3, <1>8, <2>2, <3>2 DEF InitProc, Sigue, Mueve, MismoFin, FinSinAtender,
         FinDormido, PorMirar, HayAviso, TipoColas, TipoHilos, TipoIO, TipoMemoria, HilosOK,
         Hilo, Cola, EnMano, Pcb, ConPcb, Timer
    <3>4. Ciclo!Crear(p)
      BY <3>1, <3>2, <3>3, Pasaje DEF Ciclo!Crear
    <3>5. QED
      BY <3>4 DEF Ciclo!Next
  <2>3. QED
    BY <1>8, <2>1, <2>2 DEF InitProc
<1>9. ASSUME NEW c \in Cpu, MemAlloc(c) PROVE UNCHANGED Ciclo!vars
  <2>1. \A q \in Pid : Ajeno(q)
    BY <1>1, <1>3, <1>9 DEF MemAlloc, Sigue, TipoColas, TipoHilos, TipoIO, TipoMemoria, HilosOK,
       Hilo, Cola, EnMano, Pcb, ConPcb, Timer, MismoLugar, Ajeno, PorMirar, HayAviso
  <2>2. QED
    BY <2>1, Tartamudeo
<1>10. ASSUME NEW c \in Cpu, NEW p \in Pid, p = sujeto[c], EsperaMemoria(c) PROVE Ciclo!Next
  <2>1. \A q \in Pid : q # p => Ajeno(q)
    BY <1>1, <1>3, <1>10 DEF EsperaMemoria, Mete, Atendido, Sigue, TipoColas, TipoHilos, TipoIO,
       TipoMemoria, HilosOK, Hilo, Cola, EnMano, Pcb, ConPcb, Timer, MismoLugar, Ajeno,
       PorMirar, HayAviso
  <2>2. EstadoDe(p) = "EXEC" /\ EstadoDe(p)' = "ESPERA"
    BY <1>1, <1>2, <1>3, <1>10 DEF EsperaMemoria, Mete, Atendido, Sigue, EstadoPorLugar, EnCpu,
       EnInterfazMano, Limbo, TipoColas, TipoHilos, TipoIO, TipoMemoria, HilosOK, Hilo, Cola,
       EnMano, Pcb, ConPcb, Timer
  <2>3. MismoFin(p)
    BY <1>1, <1>2, <1>3, <1>10, <2>2 DEF EsperaMemoria, Mete, Atendido, Sigue, MismoFin,
       FinSinAtender, FinDormido, PorMirar, HayAviso, TipoColas, TipoHilos, TipoIO, TipoMemoria,
       HilosOK, Hilo, Cola, EnMano, Pcb, ConPcb, Timer
  <2>4. Ciclo!Esperar(p)
    BY <2>1, <2>2, <2>3, Pasaje DEF Ciclo!Esperar
  <2>5. QED
    BY <2>4 DEF Ciclo!Next
<1>11. ASSUME NEW c \in Cpu, MemFree(c) PROVE UNCHANGED Ciclo!vars
  <2>1. \A q \in Pid : Ajeno(q)
    BY <1>1, <1>3, <1>11 DEF MemFree, Sigue, TipoColas, TipoHilos, TipoIO, TipoMemoria, HilosOK,
       Hilo, Cola, EnMano, Pcb, ConPcb, Timer, MismoLugar, Ajeno, PorMirar, HayAviso
  <2>2. QED
    BY <2>1, Tartamudeo
<1>12. ASSUME NEW c \in Cpu, NEW p \in Pid, p = sujeto[c], EntraABlock(c) PROVE Ciclo!Next
  <2>1. \A q \in Pid : q # p => Ajeno(q)
    BY <1>1, <1>3, <1>12 DEF EntraABlock, Mete, Sigue, TipoColas, TipoHilos, TipoIO,
       TipoMemoria, HilosOK, Hilo, Cola, EnMano, Pcb, ConPcb, Timer, MismoLugar, Ajeno,
       PorMirar, HayAviso
  <2>2. EstadoDe(p) = "EXEC" /\ EstadoDe(p)' = "BLOCK"
    BY <1>1, <1>2, <1>3, <1>12 DEF EntraABlock, Mete, Sigue, EstadoPorLugar, EnCpu,
       EnInterfazMano, Limbo, TipoColas, TipoHilos, TipoIO, TipoMemoria, HilosOK, Hilo, Cola,
       EnMano, Pcb, ConPcb, Timer
  <2>3. MismoFin(p)
    BY <1>1, <1>2, <1>3, <1>12, <2>2 DEF EntraABlock, Mete, Sigue, MismoFin, FinSinAtender,
       FinDormido, PorMirar, HayAviso, TipoColas, TipoHilos, TipoIO, TipoMemoria, HilosOK, Hilo,
       Cola, EnMano, Pcb, ConPcb, Timer
  <2>4. Ciclo!Bloquear(p)
    BY <2>1, <2>2, <2>3, Pasaje DEF Ciclo!Bloquear
  <2>5. QED
    BY <2>4 DEF Ciclo!Next
<1>13. ASSUME NEW c \in Cpu, LanzaTimer(c) PROVE UNCHANGED Ciclo!vars
  <2>1. UNCHANGED <<cola, exec, sujeto, pending_wakeup, respuestas>>
    BY <1>13 DEF LanzaTimer
  <2>2. \A q \in Pid, h \in Hilo : (EnMano(h, q)' <=> EnMano(h, q)) /\ (PorMirar(h, q)' <=> PorMirar(h, q))
    BY <1>13, <2>1, LanzaPc DEF Invariante, EnMano, Pcb, ConPcb, PorMirar, Hilo
  <2>3. \A q \in Pid : Ajeno(q)
    BY <2>1, <2>2 DEF Ajeno, MismoLugar, HayAviso, Hilo
  <2>4. QED
    BY <2>3, Tartamudeo
<1>14. ASSUME NEW c \in Cpu, LeeMemoria(c) PROVE UNCHANGED Ciclo!vars
  <2>1. \A q \in Pid : Ajeno(q)
    BY <1>1, <1>3, <1>14 DEF LeeMemoria, Sigue, TipoColas, TipoHilos, TipoIO, TipoMemoria,
       HilosOK, Hilo, Cola, EnMano, Pcb, ConPcb, Timer, MismoLugar, Ajeno, PorMirar, HayAviso
  <2>2. QED
    BY <2>1, Tartamudeo
<1>15. ASSUME NEW c \in Cpu, PideIO(c) PROVE UNCHANGED Ciclo!vars
  <2>1. \A q \in Pid : Ajeno(q)
    BY <1>1, <1>3, <1>15 DEF PideIO, Atendido, Sigue, TipoColas, TipoHilos, TipoIO, TipoMemoria,
       HilosOK, Hilo, Cola, EnMano, Pcb, ConPcb, Timer, MismoLugar, Ajeno, PorMirar, HayAviso
  <2>2. QED
    BY <2>1, Tartamudeo
<1>16. ASSUME NEW i \in Interfaz, Conecta(i) PROVE UNCHANGED Ciclo!vars
  <2>1. \A q \in Pid : Ajeno(q)
    BY <1>1, <1>3, <1>16 DEF Conecta, TipoColas, TipoHilos, TipoIO, TipoMemoria, HilosOK, Hilo,
       Cola, EnMano, Pcb, ConPcb, Timer, MismoLugar, Ajeno, PorMirar, HayAviso
  <2>2. QED
    BY <2>1, Tartamudeo
<1>17. ASSUME NEW i \in Interfaz, Desconecta(i) PROVE UNCHANGED Ciclo!vars
  <2>1. \A q \in Pid : Ajeno(q)
    BY <1>1, <1>3, <1>17 DEF Desconecta, TipoColas, TipoHilos, TipoIO, TipoMemoria, HilosOK,
       Hilo, Cola, EnMano, Pcb, ConPcb, Timer, MismoLugar, Ajeno, PorMirar, HayAviso
  <2>2. QED
    BY <2>1, Tartamudeo
<1>18. ASSUME NEW i \in Interfaz, NEW p \in Pid, RespondeIO(i, p) PROVE Ciclo!Next
  <2>1. \A q \in Pid : MismoLugar(q) /\ (q # p => Ajeno(q))
    BY <1>1, <1>3, <1>18 DEF RespondeIO, TipoColas, TipoHilos, TipoIO, TipoMemoria, HilosOK,
       Hilo, Cola, EnMano, Pcb, ConPcb, Timer, MismoLugar, Ajeno, PorMirar, HayAviso
  <2>2. \A q \in Pid : MismoEstado(q) /\ (q # p => MismoFin(q))
    BY <2>1, LugarNoCambia, AjenoNoCambia
  <2>3. Dormido(p)
    BY <1>1, <1>18 DEF RespondeIO, DespertarDe, EnCamino
  <2>4. EstadoDe(p) \in {"BLOCK", "SUSP_BLOCK"}
    BY <1>1, <2>3 DEF EstadoPorLugar, Dormido, Cola
  <2>5. ~FinSinAtender(p)
    <3>1. \A j \in Interfaz : p \notin respuestas[j] /\ ~PorMirar(j, p)
      BY <1>1, <1>18 DEF RespondeIO, FichaDe, EnInterfaz
    <3>2. ~HayAviso(p)
      BY <1>1, <2>3 DEF UnLugar, PendienteDe, Dormido, Limbo, EnMano, Pcb, ConPcb, Hilo, Cola
    <3>3. \A j \in Interfaz : ~EnMano(j, p)
      BY <1>1, <2>3 DEF UnLugar, Dormido, Limbo, EnMano, Pcb, ConPcb, Hilo, Cola
    <3>4. QED
      BY <3>1, <3>2, <3>3 DEF FinSinAtender
  <2>6. FinSinAtender(p)'
    BY <1>1, <1>18 DEF RespondeIO, FinSinAtender, TipoIO
  <2>7. Ciclo!TerminarIO(p)
    BY <2>2, <2>4, <2>5, <2>6 DEF Ciclo!TerminarIO, MismoEstado, MismoFin
  <2>8. QED
    BY <2>7 DEF Ciclo!Next
<1>19. ASSUME NEW i \in Interfaz, NEW p \in Pid, RecibeFin(i, p) PROVE UNCHANGED Ciclo!vars
  <2>1. \A q \in Pid : q # p => Ajeno(q)
    BY SMTT(30), <1>1, <1>3, <1>19 DEF RecibeFin, RemueveDeBlock, Saca, Sigue, TipoColas, TipoHilos,
       TipoIO, TipoMemoria, HilosOK, Hilo, Cola, EnMano, Pcb, ConPcb, Timer, MismoLugar, Ajeno,
       PorMirar, HayAviso
  <2>2. FinSinAtender(p)
    BY <1>19 DEF RecibeFin, FinSinAtender
  <2>3. FinSinAtender(p)'
    BY <1>1, <1>19 DEF RecibeFin, RemueveDeBlock, Saca, Sigue, FinSinAtender, PorMirar,
       TipoColas, TipoHilos, TipoIO, TipoMemoria, HilosOK, Hilo, Cola, EnMano, Pcb, ConPcb,
       Timer
  <2>4. MismoEstado(p)
    <3>1. CASE p \in cola["BLOCK"]
      <4>1. EnMano(i, p)'
        BY <1>1, <1>19, <3>1 DEF RecibeFin, RemueveDeBlock, Saca, Sigue, TipoColas, TipoHilos,
           TipoIO, TipoMemoria, HilosOK, Hilo, Cola, EnMano, Pcb, ConPcb, Timer
      <4>2. EstadoDe(p) = "BLOCK" /\ EstadoDe(p)' = "BLOCK"
        BY <1>1, <1>2, <3>1, <4>1 DEF EstadoPorLugar, EnInterfazMano, Cola
      <4>3. QED
        BY <4>2 DEF MismoEstado
    <3>2. CASE p \notin cola["BLOCK"]
      <4>1. MismoLugar(p)
        BY <1>1, <1>3, <1>19, <3>2 DEF RecibeFin, RemueveDeBlock, Saca, Sigue, MismoLugar,
           TipoColas, TipoHilos, TipoIO, TipoMemoria, HilosOK, Hilo, Cola, EnMano, Pcb, ConPcb,
           Timer
      <4>2. QED
        BY <4>1, LugarNoCambia
    <3>3. QED
      BY <3>1, <3>2
  <2>5. QED
    BY <2>1, <2>2, <2>3, <2>4, Tartamudeo DEF MismoFin
<1>20. ASSUME NEW i \in Interfaz, EscribeMemoria(i) PROVE UNCHANGED Ciclo!vars
  <2>1. \A q \in Pid : Ajeno(q)
    BY <1>1, <1>3, <1>20 DEF EscribeMemoria, Sigue, TipoColas, TipoHilos, TipoIO, TipoMemoria,
       HilosOK, Hilo, Cola, EnMano, Pcb, ConPcb, Timer, MismoLugar, Ajeno, PorMirar, HayAviso
  <2>2. QED
    BY <2>1, Tartamudeo
<1>21. ASSUME NEW i \in Interfaz, NEW p \in Pid, p = sujeto[i], Despierta(i) PROVE Ciclo!Next
  <2>1. \A q \in Pid : q # p => Ajeno(q)
    BY <1>1, <1>3, <1>21 DEF Despierta, Mete, Atendido, Sigue, TipoColas, TipoHilos, TipoIO,
       TipoMemoria, HilosOK, Hilo, Cola, EnMano, Pcb, ConPcb, Timer, MismoLugar, Ajeno,
       PorMirar, HayAviso
  <2>2. EstadoDe(p) = "BLOCK" /\ EstadoDe(p)' = "READY"
    BY <1>1, <1>2, <1>3, <1>21 DEF Despierta, Mete, Atendido, Sigue, EstadoPorLugar, EnCpu,
       EnInterfazMano, Limbo, TipoColas, TipoHilos, TipoIO, TipoMemoria, HilosOK, Hilo, Cola,
       EnMano, Pcb, ConPcb, Timer
  <2>3. FinSinAtender(p) /\ ~FinSinAtender(p)'
    BY <1>1, <1>2, <1>3, <1>21, <2>2 DEF Despierta, Mete, Atendido, Sigue, MismoFin,
       FinSinAtender, FinDormido, PorMirar, HayAviso, TipoColas, TipoHilos, TipoIO, TipoMemoria,
       HilosOK, Hilo, Cola, EnMano, Pcb, ConPcb, Timer
  <2>4. Ciclo!Despertar(p)
    BY <2>1, <2>2, <2>3, Pasaje DEF Ciclo!Despertar
  <2>5. QED
    BY <2>4 DEF Ciclo!Next
<1>22. ASSUME NEW i \in Interfaz, NEW p \in Pid, p = sujeto[i], MiraSuspendidos(i) PROVE Ciclo!Next \/ UNCHANGED Ciclo!vars
  <2>1. CASE p \in cola["SUSP_BLOCK"]
    <3>1. \A q \in Pid : q # p => Ajeno(q)
      BY <1>1, <1>3, <1>22, <2>1 DEF MiraSuspendidos, Mueve, Atendido, AvisaAlTimer, Sigue,
         TipoColas, TipoHilos, TipoIO, TipoMemoria, HilosOK, Hilo, Cola, EnMano, Pcb, ConPcb,
         Timer, MismoLugar, Ajeno, PorMirar, HayAviso
    <3>2. EstadoDe(p) = "SUSP_BLOCK" /\ EstadoDe(p)' = "SUSP_READY"
      BY <1>1, <1>2, <1>3, <1>22, <2>1 DEF MiraSuspendidos, Mueve, Atendido, AvisaAlTimer,
         Sigue, EstadoPorLugar, EnCpu, EnInterfazMano, Limbo, TipoColas, TipoHilos, TipoIO,
         TipoMemoria, HilosOK, Hilo, Cola, EnMano, Pcb, ConPcb, Timer
    <3>3. FinSinAtender(p) /\ ~FinSinAtender(p)'
      BY <1>1, <1>2, <1>3, <1>22, <2>1, <3>2 DEF MiraSuspendidos, Mueve, Atendido, AvisaAlTimer,
         Sigue, MismoFin, FinSinAtender, FinDormido, PorMirar, HayAviso, TipoColas, TipoHilos,
         TipoIO, TipoMemoria, HilosOK, Hilo, Cola, EnMano, Pcb, ConPcb, Timer
    <3>4. Ciclo!Despertar(p)
      BY <3>1, <3>2, <3>3, Pasaje DEF Ciclo!Despertar
    <3>5. QED
      BY <3>4 DEF Ciclo!Next
  <2>2. CASE p \notin cola["SUSP_BLOCK"]
    <3>1. \A q \in Pid : MismoLugar(q) /\ (q # p => Ajeno(q))
      BY <1>1, <1>3, <1>22, <2>2 DEF MiraSuspendidos, Mueve, Atendido, AvisaAlTimer, Sigue,
         TipoColas, TipoHilos, TipoIO, TipoMemoria, HilosOK, Hilo, Cola, EnMano, Pcb, ConPcb,
         Timer, MismoLugar, Ajeno, PorMirar, HayAviso
    <3>2. FinSinAtender(p)
      BY <1>22 DEF MiraSuspendidos, FinSinAtender, PorMirar
    <3>3. FinSinAtender(p)'
      BY <1>1, <1>22, <2>2 DEF MiraSuspendidos, AvisaAlTimer, FinSinAtender, HayAviso, TipoIO
    <3>4. QED
      BY <3>1, <3>2, <3>3, LugarNoCambia, Tartamudeo DEF MismoFin
  <2>3. QED
    BY <2>1, <2>2
<1>23. ASSUME NEW t \in Timer, Vence(t) PROVE UNCHANGED Ciclo!vars
  <2>1. \A q \in Pid : Ajeno(q)
    BY <1>1, <1>3, <1>23 DEF Vence, Sigue, TipoColas, TipoHilos, TipoIO, TipoMemoria, HilosOK,
       Hilo, Cola, EnMano, Pcb, ConPcb, Timer, MismoLugar, Ajeno, PorMirar, HayAviso
  <2>2. QED
    BY <2>1, Tartamudeo
<1>24. ASSUME NEW t \in Timer, NEW p \in Pid, p = t[1], SacaDeBlock(t) PROVE Ciclo!Next \/ UNCHANGED Ciclo!vars
  <2>1. CASE p \in cola["BLOCK"]
    <3>1. \A q \in Pid : q # p => Ajeno(q)
      BY <1>1, <1>3, <1>24, <2>1 DEF SacaDeBlock, RemueveDeBlock, Saca, Sigue, TipoColas,
         TipoHilos, TipoIO, TipoMemoria, HilosOK, Hilo, Cola, EnMano, Pcb, ConPcb, Timer,
         MismoLugar, Ajeno, PorMirar, HayAviso
    <3>2. EstadoDe(p) = "BLOCK" /\ EstadoDe(p)' = "SUSP_BLOCK"
      BY <1>1, <1>2, <1>3, <1>24, <2>1 DEF SacaDeBlock, RemueveDeBlock, Saca, Sigue,
         EstadoPorLugar, EnCpu, EnInterfazMano, Limbo, TipoColas, TipoHilos, TipoIO,
         TipoMemoria, HilosOK, Hilo, Cola, EnMano, Pcb, ConPcb, Timer
    <3>3. MismoFin(p)
      BY <1>1, <1>2, <1>3, <1>24, <2>1, <3>2 DEF SacaDeBlock, RemueveDeBlock, Saca, Sigue,
         MismoFin, FinSinAtender, FinDormido, PorMirar, HayAviso, TipoColas, TipoHilos, TipoIO,
         TipoMemoria, HilosOK, Hilo, Cola, EnMano, Pcb, ConPcb, Timer
    <3>4. Ciclo!Suspender(p)
      BY <3>1, <3>2, <3>3, Pasaje DEF Ciclo!Suspender
    <3>5. QED
      BY <3>4 DEF Ciclo!Next
  <2>2. CASE p \notin cola["BLOCK"]
    <3>1. \A q \in Pid : Ajeno(q)
      BY <1>1, <1>3, <1>24, <2>2 DEF SacaDeBlock, RemueveDeBlock, Saca, Sigue, TipoColas,
         TipoHilos, TipoIO, TipoMemoria, HilosOK, Hilo, Cola, EnMano, Pcb, ConPcb, Timer,
         MismoLugar, Ajeno, PorMirar, HayAviso
    <3>2. QED
      BY <3>1, Tartamudeo
  <2>3. QED
    BY <2>1, <2>2
<1>25. ASSUME NEW t \in Timer, EscribeSwap(t) PROVE UNCHANGED Ciclo!vars
  <2>1. \A q \in Pid : Ajeno(q)
    BY <1>1, <1>3, <1>25 DEF EscribeSwap, Sigue, SwapEscritura, TipoColas, TipoHilos, TipoIO,
       TipoMemoria, HilosOK, Hilo, Cola, EnMano, Pcb, ConPcb, Timer, MismoLugar, Ajeno,
       PorMirar, HayAviso
  <2>2. QED
    BY <2>1, Tartamudeo
<1>26. ASSUME NEW t \in Timer, NEW p \in Pid, p = t[1], DecideSuspension(t) PROVE Ciclo!Next \/ UNCHANGED Ciclo!vars
  <2>1. CASE HayAviso(p)
    <3>1. \A q \in Pid : q # p => Ajeno(q)
      BY <1>1, <1>3, <1>26, <2>1 DEF DecideSuspension, Mete, TomaAviso, Sigue, HayAviso,
         TipoColas, TipoHilos, TipoIO, TipoMemoria, HilosOK, Hilo, Cola, EnMano, Pcb, ConPcb,
         Timer, MismoLugar, Ajeno, PorMirar
    <3>2. EstadoDe(p) = "SUSP_BLOCK" /\ EstadoDe(p)' = "SUSP_READY"
      BY <1>1, <1>2, <1>3, <1>26, <2>1 DEF DecideSuspension, Mete, TomaAviso, Sigue, HayAviso,
         EstadoPorLugar, EnCpu, EnInterfazMano, Limbo, TipoColas, TipoHilos, TipoIO,
         TipoMemoria, HilosOK, Hilo, Cola, EnMano, Pcb, ConPcb, Timer
    <3>3. FinSinAtender(p) /\ ~FinSinAtender(p)'
      BY <1>1, <1>2, <1>3, <1>26, <2>1, <3>2 DEF DecideSuspension, Mete, TomaAviso, Sigue,
         HayAviso, MismoFin, FinSinAtender, FinDormido, PorMirar, TipoColas, TipoHilos, TipoIO,
         TipoMemoria, HilosOK, Hilo, Cola, EnMano, Pcb, ConPcb, Timer
    <3>4. Ciclo!Despertar(p)
      BY <3>1, <3>2, <3>3, Pasaje DEF Ciclo!Despertar
    <3>5. QED
      BY <3>4 DEF Ciclo!Next
  <2>2. CASE ~HayAviso(p)
    <3>1. \A q \in Pid : q # p => Ajeno(q)
      BY <1>1, <1>3, <1>26, <2>2 DEF DecideSuspension, Mete, TomaAviso, Sigue, TipoColas,
         TipoHilos, TipoIO, TipoMemoria, HilosOK, Hilo, Cola, EnMano, Pcb, ConPcb, Timer,
         MismoLugar, Ajeno, PorMirar, HayAviso
    <3>2. EstadoDe(p) = "SUSP_BLOCK" /\ EstadoDe(p)' = "SUSP_BLOCK"
      BY <1>1, <1>2, <1>3, <1>26, <2>2 DEF DecideSuspension, Mete, TomaAviso, Sigue,
         EstadoPorLugar, EnCpu, EnInterfazMano, Limbo, HayAviso, TipoColas, TipoHilos, TipoIO,
         TipoMemoria, HilosOK, Hilo, Cola, EnMano, Pcb, ConPcb, Timer
    <3>3. MismoFin(p)
      BY <1>1, <1>3, <1>26, <2>2 DEF DecideSuspension, Mete, TomaAviso, Sigue, MismoFin,
         FinSinAtender, FinDormido, PorMirar, HayAviso, TipoColas, TipoHilos, TipoIO,
         TipoMemoria, HilosOK, Hilo, Cola, EnMano, Pcb, ConPcb, Timer
    <3>4. QED
      BY <3>1, <3>2, <3>3, Tartamudeo DEF MismoEstado
  <2>3. QED
    BY <2>1, <2>2
<1>27. ASSUME NEW h \in Hilo, EntraDesuspender(h) PROVE UNCHANGED Ciclo!vars
  <2>1. \A q \in Pid : Ajeno(q)
    BY <1>1, <1>3, <1>27 DEF EntraDesuspender, TipoColas, TipoHilos, TipoIO, TipoMemoria,
       HilosOK, Hilo, Cola, EnMano, Pcb, ConPcb, Timer, MismoLugar, Ajeno, PorMirar, HayAviso
  <2>2. QED
    BY <2>1, Tartamudeo
<1>28. ASSUME NEW h \in Hilo, NEW p \in Pid, Desuspende(h, p) PROVE Ciclo!Next \/ UNCHANGED Ciclo!vars
  <2>1. p \in cola["SUSP_READY"] /\ UNCHANGED <<hilos, exec, pending_wakeup, respuestas>>
    BY <1>1, <1>28 DEF Desuspende, Siguiente, BuclesOK, Hilo
  <2>2. CASE Mueve(p, "SUSP_READY", "READY")
    <3>1. \A q \in Pid : q # p => Ajeno(q)
      BY <1>1, <1>3, <2>1, <2>2 DEF Mueve, TipoColas, TipoHilos, TipoIO, TipoMemoria, HilosOK,
         Hilo, Cola, EnMano, Pcb, ConPcb, Timer, MismoLugar, Ajeno, PorMirar, HayAviso
    <3>2. EstadoDe(p) = "SUSP_READY" /\ EstadoDe(p)' = "READY"
      BY <1>1, <1>2, <1>3, <2>1, <2>2 DEF Mueve, EstadoPorLugar, EnCpu, EnInterfazMano, Limbo,
         TipoColas, TipoHilos, TipoIO, TipoMemoria, HilosOK, Hilo, Cola, EnMano, Pcb, ConPcb,
         Timer
    <3>3. MismoFin(p)
      BY <1>1, <1>2, <1>3, <2>1, <2>2, <3>2 DEF Mueve, MismoFin, FinSinAtender, FinDormido,
         PorMirar, HayAviso, TipoColas, TipoHilos, TipoIO, TipoMemoria, HilosOK, Hilo, Cola,
         EnMano, Pcb, ConPcb, Timer
    <3>4. Ciclo!Desuspender(p)
      BY <3>1, <3>2, <3>3, Pasaje DEF Ciclo!Desuspender
    <3>5. QED
      BY <3>4 DEF Ciclo!Next
  <2>3. CASE UNCHANGED cola
    <3>1. \A q \in Pid : Ajeno(q)
      BY <1>1, <2>1, <2>3 DEF TipoColas, TipoHilos, TipoIO, TipoMemoria, HilosOK, Hilo, Cola,
         EnMano, Pcb, ConPcb, Timer, MismoLugar, Ajeno, PorMirar, HayAviso
    <3>2. QED
      BY <3>1, Tartamudeo
  <2>4. QED
    BY <1>28, <2>2, <2>3 DEF Desuspende
<1>29. ASSUME NEW h \in Hilo, SaleDesuspender(h) PROVE UNCHANGED Ciclo!vars
  <2>1. \A q \in Pid : Ajeno(q)
    BY <1>1, <1>3, <1>29 DEF SaleDesuspender, Sigue, TipoColas, TipoHilos, TipoIO, TipoMemoria,
       HilosOK, Hilo, Cola, EnMano, Pcb, ConPcb, Timer, MismoLugar, Ajeno, PorMirar, HayAviso
  <2>2. QED
    BY <2>1, Tartamudeo
<1>30. ASSUME NEW h \in Hilo, EntraReintentar(h) PROVE UNCHANGED Ciclo!vars
  <2>1. \A q \in Pid : Ajeno(q)
    BY <1>1, <1>3, <1>30 DEF EntraReintentar, TipoColas, TipoHilos, TipoIO, TipoMemoria,
       HilosOK, Hilo, Cola, EnMano, Pcb, ConPcb, Timer, MismoLugar, Ajeno, PorMirar, HayAviso
  <2>2. QED
    BY <2>1, Tartamudeo
<1>31. ASSUME NEW h \in Hilo, NEW p \in Pid, Reintenta(h, p) PROVE Ciclo!Next \/ UNCHANGED Ciclo!vars
  <2>1. p \in cola["ESPERA"] /\ UNCHANGED <<hilos, exec, pending_wakeup, respuestas>>
    BY <1>1, <1>31 DEF Reintenta, BuclesOK, Hilo
  <2>2. CASE Mueve(p, "ESPERA", "READY")
    <3>1. \A q \in Pid : q # p => Ajeno(q)
      BY SMTT(30), <1>1, <1>3, <2>1, <2>2 DEF Mueve, TipoColas, TipoHilos, TipoIO, TipoMemoria, HilosOK,
         Hilo, Cola, EnMano, Pcb, ConPcb, Timer, MismoLugar, Ajeno, PorMirar, HayAviso
    <3>2. EstadoDe(p) = "ESPERA" /\ EstadoDe(p)' = "READY"
      BY <1>1, <1>2, <1>3, <2>1, <2>2 DEF Mueve, EstadoPorLugar, EnCpu, EnInterfazMano, Limbo,
         TipoColas, TipoHilos, TipoIO, TipoMemoria, HilosOK, Hilo, Cola, EnMano, Pcb, ConPcb,
         Timer
    <3>3. MismoFin(p)
      BY <1>1, <1>2, <1>3, <2>1, <2>2, <3>2 DEF Mueve, MismoFin, FinSinAtender, FinDormido,
         PorMirar, HayAviso, TipoColas, TipoHilos, TipoIO, TipoMemoria, HilosOK, Hilo, Cola,
         EnMano, Pcb, ConPcb, Timer
    <3>4. Ciclo!Conseguir(p)
      BY <3>1, <3>2, <3>3, Pasaje DEF Ciclo!Conseguir
    <3>5. QED
      BY <3>4 DEF Ciclo!Next
  <2>3. CASE UNCHANGED cola
    <3>1. \A q \in Pid : Ajeno(q)
      BY <1>1, <2>1, <2>3 DEF TipoColas, TipoHilos, TipoIO, TipoMemoria, HilosOK, Hilo, Cola,
         EnMano, Pcb, ConPcb, Timer, MismoLugar, Ajeno, PorMirar, HayAviso
    <3>2. QED
      BY <3>1, Tartamudeo
  <2>4. QED
    BY <1>31, <2>2, <2>3 DEF Reintenta
<1>32. ASSUME NEW h \in Hilo, SaleReintentar(h) PROVE UNCHANGED Ciclo!vars
  <2>1. \A q \in Pid : Ajeno(q)
    BY <1>1, <1>3, <1>32 DEF SaleReintentar, Termina, Atendido, Sigue, TipoColas, TipoHilos,
       TipoIO, TipoMemoria, HilosOK, Hilo, Cola, EnMano, Pcb, ConPcb, Timer, MismoLugar, Ajeno,
       PorMirar, HayAviso
  <2>2. QED
    BY <2>1, Tartamudeo
<1>33. CASE UNCHANGED vars
  <2>1. \A q \in Pid : Ajeno(q)
    BY <1>33 DEF vars, Ajeno, MismoLugar, EnMano, Pcb, PorMirar, HayAviso
  <2>2. QED
    BY <2>1, Tartamudeo
<1>34. ASSUME NEW h \in Hilo, Bucles(h) PROVE Ciclo!Next \/ UNCHANGED Ciclo!vars
  BY <1>34, <1>27, <1>28, <1>29, <1>30, <1>31, <1>32 DEF Bucles
<1>35. ASSUME NEW c \in Cpu, HiloCpu(c) PROVE Ciclo!Next \/ UNCHANGED Ciclo!vars
  <2>1. pc[c] # "espera" => sujeto[c] \in Pid
    BY <1>1 DEF HilosOK
  <2>2. CASE VuelveAReady(c) \/ Sale(c) \/ EsperaMemoria(c) \/ EntraABlock(c)
    BY <2>1, <2>2, <1>6, <1>7, <1>10, <1>12 DEF VuelveAReady, Sale, EsperaMemoria, EntraABlock
  <2>3. CASE CpuRetorna(c) \/ InitProc(c) \/ MemAlloc(c) \/ MemFree(c)
             \/ LanzaTimer(c) \/ LeeMemoria(c) \/ PideIO(c)
    BY <2>3, <1>5, <1>8, <1>9, <1>11, <1>13, <1>14, <1>15
  <2>4. CASE Bucles(c)
    BY <2>4, <1>34 DEF Hilo
  <2>5. QED
    BY <1>35, <2>2, <2>3, <2>4 DEF HiloCpu
<1>36. ASSUME NEW i \in Interfaz, HiloInterfaz(i) PROVE Ciclo!Next \/ UNCHANGED Ciclo!vars
  <2>1. pc[i] # "espera" => sujeto[i] \in Pid
    BY <1>1 DEF HilosOK
  <2>2. CASE Despierta(i) \/ MiraSuspendidos(i)
    BY <2>1, <2>2, <1>21, <1>22 DEF Despierta, MiraSuspendidos
  <2>3. CASE EscribeMemoria(i) \/ \E p \in Pid : RecibeFin(i, p)
    BY <2>3, <1>20, <1>19
  <2>4. CASE Bucles(i)
    BY <2>4, <1>34 DEF Hilo
  <2>5. QED
    BY <1>36, <2>2, <2>3, <2>4 DEF HiloInterfaz
<1>37. ASSUME NEW t \in Timer, HiloTimer(t) PROVE Ciclo!Next \/ UNCHANGED Ciclo!vars
  <2>1. t[1] \in Pid
    BY DEF Timer
  <2>2. CASE Vence(t) \/ SacaDeBlock(t) \/ EscribeSwap(t) \/ DecideSuspension(t)
    BY <2>1, <2>2, <1>23, <1>24, <1>25, <1>26
  <2>3. CASE Bucles(t)
    BY <2>3, <1>34 DEF Hilo
  <2>4. QED
    BY <1>37, <2>2, <2>3 DEF HiloTimer
<1>38. QED
  BY <1>4, <1>16, <1>17, <1>18, <1>33, <1>35, <1>36, <1>37 DEF Next, Planificador, TodoTerminado

LEMMA CicloInit == Init => Ciclo!Init
<1> SUFFICES ASSUME Init PROVE Ciclo!Init
  OBVIOUS
<1>1. Invariante
  BY InvarianteInit
<1>2. PICK p \in Pid : cola = [q \in Cola |-> IF q = "READY" THEN {p}
                                             ELSE IF q = "NEW" THEN Pid \ {p} ELSE {}]
  BY DEF Init
<1>3. \A q \in Pid : EstadoDe(q) = IF q = p THEN "READY" ELSE "NEW"
  BY <1>1, <1>2, EstadosAhora DEF Invariante, EstadoPorLugar, Cola
<1>4. {q \in Pid : FinSinAtender(q)} = {}
  BY <1>1, <1>3, FinesAhora DEF FinDormido
<1>5. QED
  BY <1>3, <1>4 DEF Ciclo!Init

\* Suspended or not, whatever the interleaving of the timers, the interfaces and the
\* loops: a process goes through the states of the diagram in order, is suspended only
\* while it is blocked, and is woken by its own I/O, once.
THEOREM CicloCorrecto == Spec => CumpleCiclo
<1>1. Spec => []Invariante
  BY InvarianteSiempre
<1>2. QED
  BY <1>1, CicloInit, CicloNext, PTL DEF Spec, CumpleCiclo, Ciclo!Spec

=============================================================================

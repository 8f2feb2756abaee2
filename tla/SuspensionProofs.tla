-------------------------- MODULE SuspensionProofs --------------------------
(***************************************************************************)
(* Proofs about Suspension, for any processes, CPUs, interfaces, program   *)
(* lengths and memory.  The argument, from the bottom up:                  *)
(*   Tipos   types, and that a thread past recv has a process;             *)
(*   Lugar   every PCB is in exactly one place;                            *)
(*   Bucles  what a loop has still to visit is in its list;                *)
(*   Ficha   a process has at most one wakeup on its way;                  *)
(* and from those that no wakeup is lost or invented, and that scheduler   *)
(* and memory agree on who is in SWAP.                                     *)
(***************************************************************************)
EXTENDS Suspension, FiniteSetTheorems, TLAPS

\* A connection thread that is past recv works for a process, and one that is
\* blocking it knows the interface; whoever holds a loop's mutex is in that loop;
\* the timers of blockings yet to come have not started.
HilosOK ==
    /\ \A h \in Cpu \cup Interfaz : pc[h] # "espera" => sujeto[h] \in Pid
    /\ \A c \in Cpu : pc[c] \in {"BLOCK", "epoch", "lee", "pide"} => pide[c] \in Interfaz
    /\ m_susp # Nadie => pc[m_susp] = "desuspender"
    /\ m_esperando # Nadie => pc[m_esperando] = "reintentar"
    /\ \A t \in Timer : t[2] > block_epoch[t[1]] => pc[t] = "no_lanzado"

\* What a loop has still to visit is in its list.
BuclesOK ==
    /\ m_susp # Nadie => por_desuspender \subseteq cola["SUSP_READY"]
    /\ m_esperando # Nadie => por_reintentar \subseteq cola["ESPERA"]

EnInterfaz(i, p) == p \in pedidos[i] \cup respuestas[i] \/ PorMirar(i, p)

FichaDe(p) ==
    /\ \A c1, c2 \in Cpu : PorPedir(c1, p) /\ PorPedir(c2, p) => c1 = c2
    /\ \A i, j \in Interfaz : EnInterfaz(i, p) /\ EnInterfaz(j, p) => i = j
    /\ \A i \in Interfaz : /\ ~(p \in pedidos[i] /\ p \in respuestas[i])
                           /\ PorMirar(i, p) => p \notin pedidos[i] \cup respuestas[i] \cup cola["BLOCK"]
    /\ \A c \in Cpu, i \in Interfaz : ~(PorPedir(c, p) /\ EnInterfaz(i, p))
    /\ p \in perdidos => /\ \A c \in Cpu : ~PorPedir(c, p)
                         /\ \A i \in Interfaz : ~EnInterfaz(i, p)

\* The places a wakeup can be in exclude each other, and who looks for a process
\* among the suspended will not find it in cola_block.
FichaUnica == \A p \in Pid : FichaDe(p)

DespertarDe(p) == Dormido(p) <=> EnCamino(p)
PendienteDe(p) == HayAviso(p) => Limbo(p)
ResidenciaDe(p) == p \in en_swap <=> \/ p \in cola["SUSP_BLOCK"] \cup cola["SUSP_READY"]
                                     \/ \E t \in Timer : t[1] = p /\ pc[t] = "en_swap"

Tipos == TypeOK /\ HilosOK

\* CPU threads, interface threads and timers are different things.
LEMMA Disjuntos == Cpu \cap Interfaz = {} /\ (Cpu \cup Interfaz) \cap Timer = {}
BY HiloAssumption, NumerosAssumption DEF HiloAssumption, NumerosAssumption, Timer

\* A step keeps every variable in its type, and every thread past recv with a
\* process to work for.
LEMMA TiposNext == Tipos /\ [Next]_vars => Tipos'
<1> SUFFICES ASSUME TipoColas, TipoHilos, TipoIO, TipoMemoria, HilosOK, [Next]_vars PROVE Tipos'
  BY DEF Tipos, TypeOK
<1> USE Disjuntos, InterfazAssumption, HiloAssumption, NadieAssumption, LlamadasAssumption, NumerosAssumption
    DEF InterfazAssumption, HiloAssumption, NadieAssumption, LlamadasAssumption, NumerosAssumption,
        colas, hilos, relojes, io, susp, espera, memoria
<1>1. ASSUME NEW c \in Cpu, NEW p \in Pid, Despacha(c, p) PROVE Tipos'
  BY <1>1 DEF Despacha, Saca, Tipos, TypeOK, TipoColas, TipoHilos, TipoIO, TipoMemoria,
     HilosOK, Hilo, Timer, Cola, PcCpu, PcInterfaz, PcTimer
<1>2. ASSUME NEW c \in Cpu, CpuRetorna(c) PROVE Tipos'
  <2>1. exec[c] \in Pid /\ pc[c] = "espera"
    BY <1>2 DEF CpuRetorna, TipoColas
  <2>2. PICK paso \in Llamadas \cup {"BLOCK", "EXIT"} :
           Sigue(c, paso) /\ (paso = "BLOCK" => \E i \in Interfaz : pide' = [pide EXCEPT ![c] = i])
    <3>1. CASE \E op \in Llamadas : Sigue(c, op) /\ UNCHANGED pide
      BY <3>1
    <3>2. CASE \E i \in Interfaz : Sigue(c, "BLOCK") /\ pide' = [pide EXCEPT ![c] = i]
      BY <3>2
    <3>3. CASE Sigue(c, "EXIT")
      BY <3>3
    <3>4. QED
      BY <1>2, <3>1, <3>2, <3>3 DEF CpuRetorna
  <2>3. TipoColas' /\ TipoMemoria'
    BY <1>2 DEF CpuRetorna, TipoColas, TipoMemoria
  <2>4. TipoIO' /\ pide' \in [Cpu -> Interfaz \cup {Nadie}]
           /\ \A d \in Cpu : d # c => pide'[d] = pide[d]
    BY <1>2, <2>1 DEF CpuRetorna, TipoIO, TipoHilos
  <2>5. paso \in PcCpu
    BY <2>2 DEF PcCpu
  <2>6. TipoHilos'
    BY <1>2, <2>1, <2>2, <2>4, <2>5 DEF CpuRetorna, TipoHilos, Sigue, Hilo
  <2>7. HilosOK'
    BY <1>2, <2>1, <2>2, <2>4 DEF CpuRetorna, TipoHilos, TipoIO, TipoMemoria, HilosOK, Hilo, Sigue
  <2>8. QED
    BY <2>3, <2>4, <2>6, <2>7 DEF Tipos, TypeOK
<1>3. ASSUME NEW c \in Cpu, VuelveAReady(c) PROVE Tipos'
  BY <1>3 DEF VuelveAReady, Mete, Atendido, Sigue, Tipos, TypeOK, TipoColas, TipoHilos,
     TipoIO, TipoMemoria, HilosOK, Hilo, Timer, Cola, PcCpu, PcInterfaz, PcTimer
<1>4. ASSUME NEW c \in Cpu, Sale(c) PROVE Tipos'
  BY <1>4 DEF Sale, Sigue, Mete, LiberaTodo, Tipos, TypeOK, TipoColas, TipoHilos,
     TipoIO, TipoMemoria, HilosOK, Hilo, Timer, Cola, PcCpu, PcInterfaz, PcTimer
<1>5. ASSUME NEW c \in Cpu, InitProc(c) PROVE Tipos'
  <2>1. TipoColas'
    BY <1>5 DEF InitProc, Sigue, Mueve, TipoColas, TipoHilos, HilosOK, Cola, Hilo, Timer
  <2>2. TipoHilos'
    BY <1>5 DEF InitProc, Sigue, Mueve, TipoColas, TipoHilos, HilosOK, Hilo, Timer,
       PcCpu, PcInterfaz, PcTimer
  <2>3. TipoIO'
    BY <1>5 DEF InitProc, Sigue, Mueve, TipoColas, TipoHilos, TipoIO, HilosOK, Timer
  <2>4. TipoMemoria'
    BY <1>5 DEF InitProc, Sigue, Mueve, TipoColas, TipoHilos, TipoMemoria, HilosOK,
       Hilo, Timer, Cola
  <2>5. HilosOK'
    BY <1>5 DEF InitProc, Sigue, Mueve, TipoColas, TipoHilos, TipoMemoria, HilosOK,
       Hilo, Timer, PcCpu, PcInterfaz, PcTimer
  <2>6. QED
    BY <2>1, <2>2, <2>3, <2>4, <2>5 DEF Tipos, TypeOK
<1>6. ASSUME NEW c \in Cpu, MemAlloc(c) PROVE Tipos'
  <2>1. TipoColas'
    BY <1>6 DEF MemAlloc, Sigue, TipoColas, TipoHilos, HilosOK, Cola, Hilo, Timer
  <2>2. TipoHilos'
    BY <1>6 DEF MemAlloc, Sigue, TipoColas, TipoHilos, HilosOK, Hilo, Timer, PcCpu,
       PcInterfaz, PcTimer
  <2>3. TipoIO'
    BY <1>6 DEF MemAlloc, Sigue, TipoColas, TipoHilos, TipoIO, HilosOK, Timer
  <2>4. TipoMemoria'
    BY <1>6 DEF MemAlloc, Sigue, TipoColas, TipoHilos, TipoMemoria, HilosOK, Hilo,
       Timer, Cola
  <2>5. HilosOK'
    BY <1>6 DEF MemAlloc, Sigue, TipoColas, TipoHilos, TipoMemoria, HilosOK, Hilo,
       Timer, PcCpu, PcInterfaz, PcTimer
  <2>6. QED
    BY <2>1, <2>2, <2>3, <2>4, <2>5 DEF Tipos, TypeOK
<1>7. ASSUME NEW c \in Cpu, EsperaMemoria(c) PROVE Tipos'
  BY <1>7 DEF EsperaMemoria, Mete, Atendido, Sigue, Tipos, TypeOK, TipoColas, TipoHilos,
     TipoIO, TipoMemoria, HilosOK, Hilo, Timer, Cola, PcCpu, PcInterfaz, PcTimer
<1>8. ASSUME NEW c \in Cpu, MemFree(c) PROVE Tipos'
  BY <1>8 DEF MemFree, Sigue, Tipos, TypeOK, TipoColas, TipoHilos, TipoIO, TipoMemoria,
     HilosOK, Hilo, Timer, Cola, PcCpu, PcInterfaz, PcTimer
<1>9. ASSUME NEW c \in Cpu, EntraABlock(c) PROVE Tipos'
  BY <1>9 DEF EntraABlock, Sigue, Mete, Tipos, TypeOK, TipoColas, TipoHilos, TipoIO,
     TipoMemoria, HilosOK, Hilo, Timer, Cola, PcCpu, PcInterfaz, PcTimer
<1>10. ASSUME NEW c \in Cpu, LanzaTimer(c) PROVE Tipos'
  <2> DEFINE t0 == <<sujeto[c], block_epoch[sujeto[c]] + 1>>
             paso == IF pide[c] = STDOUT THEN "lee" ELSE "pide"
  <2>1. sujeto[c] \in Pid /\ block_epoch[sujeto[c]] \in Nat /\ pc[c] = "epoch"
    BY <1>10 DEF LanzaTimer, TipoIO, HilosOK
  <2>2. t0 \notin Cpu \cup Interfaz /\ (t0 \in Hilo => t0 \in Timer) /\ c # t0
    BY <2>1, <1>10 DEF Hilo
  <2>3. pc' = [pc EXCEPT ![t0] = "duerme", ![c] = paso]
    BY <1>10 DEF LanzaTimer
  <2>4. TipoColas' /\ TipoIO' /\ TipoMemoria'
    BY <1>10, <2>1 DEF LanzaTimer, TipoColas, TipoIO, TipoMemoria
  <2>5. paso \in PcCpu /\ "duerme" \in PcTimer /\ paso \in {"lee", "pide"}
    BY DEF PcCpu, PcTimer
  <2>6. UNCHANGED <<sujeto, pide, m_susp, m_esperando>>
    BY <1>10 DEF LanzaTimer
  <2> HIDE DEF t0, paso
  <2>7. TipoHilos'
    BY <1>10, <2>2, <2>3, <2>5, <2>6 DEF TipoHilos, Hilo
  <2>8. t0 \in Hilo => pc[t0] \in PcTimer
    BY <2>2 DEF TipoHilos
  <2>9. (m_susp # Nadie => m_susp # t0) /\ (m_esperando # Nadie => m_esperando # t0)
    <3>1. t0 \in Timer => pc[t0] = "no_lanzado"
      BY <2>1 DEF t0, HilosOK
    <3>2. QED
      BY <2>2, <3>1 DEF HilosOK, TipoMemoria
  <2>10. HilosOK'
    <3>1. \A t \in Timer : t[2] > block_epoch'[t[1]] => t # t0 /\ t[2] > block_epoch[t[1]]
      BY <1>10, <2>1 DEF LanzaTimer, t0, TipoIO, Timer
    <3>2. \A h \in Hilo : h # t0 /\ h # c => pc'[h] = pc[h]
      BY <2>3 DEF TipoHilos
    <3>3. pc'[c] = paso
      BY <2>3 DEF TipoHilos, Hilo
    <3>4. QED
      BY <1>10, <2>1, <2>2, <2>5, <2>6, <2>9, <3>1, <3>2, <3>3 DEF HilosOK, TipoHilos,
         TipoMemoria, Hilo
  <2>11. QED
    BY <2>4, <2>7, <2>10 DEF Tipos, TypeOK
<1>11. ASSUME NEW c \in Cpu, LeeMemoria(c) PROVE Tipos'
  BY <1>11 DEF LeeMemoria, Sigue, Tipos, TypeOK, TipoColas, TipoHilos, TipoIO,
     TipoMemoria, HilosOK, Hilo, Timer, Cola, PcCpu, PcInterfaz, PcTimer
<1>12. ASSUME NEW c \in Cpu, PideIO(c) PROVE Tipos'
  <2>1. TipoColas'
    BY <1>12 DEF PideIO, Atendido, Sigue, TipoColas, TipoHilos, HilosOK, Cola, Hilo,
       Timer
  <2>2. TipoHilos'
    BY <1>12 DEF PideIO, Atendido, Sigue, TipoColas, TipoHilos, HilosOK, Hilo, Timer,
       PcCpu, PcInterfaz, PcTimer
  <2>3. TipoIO'
    BY <1>12 DEF PideIO, Atendido, Sigue, TipoColas, TipoHilos, TipoIO, HilosOK, Timer
  <2>4. TipoMemoria'
    BY <1>12 DEF PideIO, Atendido, Sigue, TipoColas, TipoHilos, TipoMemoria, HilosOK,
       Hilo, Timer, Cola
  <2>5. HilosOK'
    BY <1>12 DEF PideIO, Atendido, Sigue, TipoColas, TipoHilos, TipoMemoria, HilosOK,
       Hilo, Timer, PcCpu, PcInterfaz, PcTimer
  <2>6. QED
    BY <2>1, <2>2, <2>3, <2>4, <2>5 DEF Tipos, TypeOK
<1>13. ASSUME NEW i \in Interfaz, Conecta(i) PROVE Tipos'
  BY <1>13 DEF Conecta, Tipos, TypeOK, TipoColas, TipoHilos, TipoIO, TipoMemoria,
     HilosOK, Hilo, Timer, Cola, PcCpu, PcInterfaz, PcTimer
<1>14. ASSUME NEW i \in Interfaz, Desconecta(i) PROVE Tipos'
  BY <1>14 DEF Desconecta, Tipos, TypeOK, TipoColas, TipoHilos, TipoIO, TipoMemoria,
     HilosOK, Hilo, Timer, Cola, PcCpu, PcInterfaz, PcTimer
<1>15. ASSUME NEW i \in Interfaz, NEW p \in Pid, RespondeIO(i, p) PROVE Tipos'
  BY <1>15 DEF RespondeIO, Tipos, TypeOK, TipoColas, TipoHilos, TipoIO, TipoMemoria,
     HilosOK, Hilo, Timer, Cola, PcCpu, PcInterfaz, PcTimer
<1>16. ASSUME NEW i \in Interfaz, NEW p \in Pid, RecibeFin(i, p) PROVE Tipos'
  <2>1. TipoColas'
    BY <1>16 DEF RecibeFin, Sigue, RemueveDeBlock, Saca, TipoColas, TipoHilos, HilosOK,
       Cola, Hilo, Timer
  <2>2. TipoHilos'
    BY <1>16 DEF RecibeFin, Sigue, RemueveDeBlock, Saca, TipoColas, TipoHilos, HilosOK,
       Hilo, Timer, PcCpu, PcInterfaz, PcTimer
  <2>3. TipoIO'
    BY <1>16 DEF RecibeFin, Sigue, RemueveDeBlock, Saca, TipoColas, TipoHilos, TipoIO,
       HilosOK, Timer
  <2>4. TipoMemoria'
    BY <1>16 DEF RecibeFin, Sigue, RemueveDeBlock, Saca, TipoColas, TipoHilos,
       TipoMemoria, HilosOK, Hilo, Timer, Cola
  <2>5. HilosOK'
    BY <1>16 DEF RecibeFin, Sigue, RemueveDeBlock, Saca, TipoColas, TipoHilos,
       TipoMemoria, HilosOK, Hilo, Timer, PcCpu, PcInterfaz, PcTimer
  <2>6. QED
    BY <2>1, <2>2, <2>3, <2>4, <2>5 DEF Tipos, TypeOK
<1>17. ASSUME NEW i \in Interfaz, EscribeMemoria(i) PROVE Tipos'
  BY <1>17 DEF EscribeMemoria, Sigue, Tipos, TypeOK, TipoColas, TipoHilos, TipoIO,
     TipoMemoria, HilosOK, Hilo, Timer, Cola, PcCpu, PcInterfaz, PcTimer
<1>18. ASSUME NEW i \in Interfaz, Despierta(i) PROVE Tipos'
  BY <1>18 DEF Despierta, Mete, Atendido, Sigue, Tipos, TypeOK, TipoColas, TipoHilos,
     TipoIO, TipoMemoria, HilosOK, Hilo, Timer, Cola, PcCpu, PcInterfaz, PcTimer
<1>19. ASSUME NEW i \in Interfaz, MiraSuspendidos(i) PROVE Tipos'
  <2>1. TipoColas'
    BY <1>19 DEF MiraSuspendidos, Sigue, Mueve, Atendido, AvisaAlTimer, TipoColas,
       TipoHilos, HilosOK, Cola, Hilo, Timer
  <2>2. TipoHilos'
    BY <1>19 DEF MiraSuspendidos, Sigue, Mueve, Atendido, AvisaAlTimer, TipoColas,
       TipoHilos, HilosOK, Hilo, Timer, PcCpu, PcInterfaz, PcTimer
  <2>3. TipoIO'
    BY <1>19 DEF MiraSuspendidos, Sigue, Mueve, Atendido, AvisaAlTimer, TipoColas,
       TipoHilos, TipoIO, HilosOK, Timer
  <2>4. TipoMemoria'
    BY <1>19 DEF MiraSuspendidos, Sigue, Mueve, Atendido, AvisaAlTimer, TipoColas,
       TipoHilos, TipoMemoria, HilosOK, Hilo, Timer, Cola
  <2>5. HilosOK'
    BY <1>19 DEF MiraSuspendidos, Sigue, Mueve, Atendido, AvisaAlTimer, TipoColas,
       TipoHilos, TipoMemoria, HilosOK, Hilo, Timer, PcCpu, PcInterfaz, PcTimer
  <2>6. QED
    BY <2>1, <2>2, <2>3, <2>4, <2>5 DEF Tipos, TypeOK
<1>20. ASSUME NEW t \in Timer, Vence(t) PROVE Tipos'
  BY <1>20 DEF Vence, Sigue, Tipos, TypeOK, TipoColas, TipoHilos, TipoIO, TipoMemoria,
     HilosOK, Hilo, Timer, Cola, PcCpu, PcInterfaz, PcTimer
<1>21. ASSUME NEW t \in Timer, SacaDeBlock(t) PROVE Tipos'
  <2>1. TipoColas'
    BY <1>21 DEF SacaDeBlock, Sigue, RemueveDeBlock, Saca, TipoColas, TipoHilos,
       HilosOK, Cola, Hilo, Timer
  <2>2. TipoHilos'
    BY <1>21 DEF SacaDeBlock, Sigue, RemueveDeBlock, Saca, TipoColas, TipoHilos,
       HilosOK, Hilo, Timer, PcCpu, PcInterfaz, PcTimer
  <2>3. TipoIO'
    BY <1>21 DEF SacaDeBlock, Sigue, RemueveDeBlock, Saca, TipoColas, TipoHilos, TipoIO,
       HilosOK, Timer
  <2>4. TipoMemoria'
    BY <1>21 DEF SacaDeBlock, Sigue, RemueveDeBlock, Saca, TipoColas, TipoHilos,
       TipoMemoria, HilosOK, Hilo, Timer, Cola
  <2>5. HilosOK'
    BY <1>21 DEF SacaDeBlock, Sigue, RemueveDeBlock, Saca, TipoColas, TipoHilos,
       TipoMemoria, HilosOK, Hilo, Timer, PcCpu, PcInterfaz, PcTimer
  <2>6. QED
    BY <2>1, <2>2, <2>3, <2>4, <2>5 DEF Tipos, TypeOK
<1>22. ASSUME NEW t \in Timer, EscribeSwap(t) PROVE Tipos'
  BY <1>22 DEF EscribeSwap, Sigue, SwapEscritura, Tipos, TypeOK, TipoColas, TipoHilos,
     TipoIO, TipoMemoria, HilosOK, Hilo, Timer, Cola, PcCpu, PcInterfaz, PcTimer
<1>23. ASSUME NEW t \in Timer, DecideSuspension(t) PROVE Tipos'
  <2>1. TipoColas'
    BY <1>23 DEF DecideSuspension, Sigue, Mete, TomaAviso, HayAviso, TipoColas,
       TipoHilos, HilosOK, Cola, Hilo, Timer
  <2>2. TipoHilos'
    BY SMTT(30), <1>23 DEF DecideSuspension, Sigue, Mete, TomaAviso, HayAviso, TipoColas,
       TipoHilos, HilosOK, Hilo, Timer, PcCpu, PcInterfaz, PcTimer
  <2>3. TipoIO'
    BY <1>23 DEF DecideSuspension, Sigue, Mete, TomaAviso, HayAviso, TipoColas,
       TipoHilos, TipoIO, HilosOK, Timer
  <2>4. TipoMemoria'
    BY <1>23 DEF DecideSuspension, Sigue, Mete, TomaAviso, HayAviso, TipoColas,
       TipoHilos, TipoMemoria, HilosOK, Hilo, Timer, Cola
  <2>5. HilosOK'
    BY <1>23 DEF DecideSuspension, Sigue, Mete, TomaAviso, HayAviso, TipoColas,
       TipoHilos, TipoMemoria, HilosOK, Hilo, Timer, PcCpu, PcInterfaz, PcTimer
  <2>6. QED
    BY <2>1, <2>2, <2>3, <2>4, <2>5 DEF Tipos, TypeOK
<1>24. ASSUME NEW h \in Hilo, EntraDesuspender(h) PROVE Tipos'
  BY <1>24 DEF EntraDesuspender, Tipos, TypeOK, TipoColas, TipoHilos, TipoIO,
     TipoMemoria, HilosOK, Hilo, Timer, Cola, PcCpu, PcInterfaz, PcTimer
<1>25. ASSUME NEW h \in Hilo, NEW p \in Pid, Desuspende(h, p) PROVE Tipos'
  BY <1>25 DEF Desuspende, Mueve, Cabe, SwapLectura, Siguiente, Tipos, TypeOK,
     TipoColas, TipoHilos, TipoIO, TipoMemoria, HilosOK, Hilo, Timer, Cola, PcCpu,
     PcInterfaz, PcTimer
<1>26. ASSUME NEW h \in Hilo, SaleDesuspender(h) PROVE Tipos'
  BY <1>26 DEF SaleDesuspender, Sigue, Tipos, TypeOK, TipoColas, TipoHilos, TipoIO,
     TipoMemoria, HilosOK, Hilo, Timer, Cola, PcCpu, PcInterfaz, PcTimer
<1>27. ASSUME NEW h \in Hilo, EntraReintentar(h) PROVE Tipos'
  BY <1>27 DEF EntraReintentar, Tipos, TypeOK, TipoColas, TipoHilos, TipoIO,
     TipoMemoria, HilosOK, Hilo, Timer, Cola, PcCpu, PcInterfaz, PcTimer
<1>28. ASSUME NEW h \in Hilo, NEW p \in Pid, Reintenta(h, p) PROVE Tipos'
  BY <1>28 DEF Reintenta, Mueve, Tipos, TypeOK, TipoColas, TipoHilos, TipoIO,
     TipoMemoria, HilosOK, Hilo, Timer, Cola, PcCpu, PcInterfaz, PcTimer
<1>29. ASSUME NEW h \in Hilo, SaleReintentar(h) PROVE Tipos'
  <2>1. TipoColas'
    BY <1>29 DEF SaleReintentar, Termina, Sigue, Atendido, TipoColas, TipoHilos,
       HilosOK, Cola, Hilo, Timer
  <2>2. TipoHilos'
    BY <1>29 DEF SaleReintentar, Termina, Sigue, Atendido, TipoColas, TipoHilos,
       HilosOK, Hilo, Timer, PcCpu, PcInterfaz, PcTimer
  <2>3. TipoIO'
    BY <1>29 DEF SaleReintentar, Termina, Sigue, Atendido, TipoColas, TipoHilos, TipoIO,
       HilosOK, Timer
  <2>4. TipoMemoria'
    BY <1>29 DEF SaleReintentar, Termina, Sigue, Atendido, TipoColas, TipoHilos,
       TipoMemoria, HilosOK, Hilo, Timer, Cola
  <2>5. HilosOK'
    BY <1>29 DEF SaleReintentar, Termina, Sigue, Atendido, TipoColas, TipoHilos,
       TipoMemoria, HilosOK, Hilo, Timer, PcCpu, PcInterfaz, PcTimer
  <2>6. QED
    BY <2>1, <2>2, <2>3, <2>4, <2>5 DEF Tipos, TypeOK
<1>30. CASE UNCHANGED vars
  BY <1>30 DEF vars, Tipos, TypeOK, TipoColas, TipoHilos, TipoIO, TipoMemoria, HilosOK,
     Hilo, Timer, Cola, PcCpu, PcInterfaz, PcTimer
<1>31. QED
  BY <1>1, <1>2, <1>3, <1>4, <1>5, <1>6, <1>7, <1>8, <1>9, <1>10, <1>11, <1>12, <1>13,
     <1>14, <1>15, <1>16, <1>17, <1>18, <1>19, <1>20, <1>21, <1>22, <1>23, <1>24, <1>25,
     <1>26, <1>27, <1>28, <1>29, <1>30 DEF Next, Planificador, HiloCpu, HiloInterfaz,
     HiloTimer, Bucles, TodoTerminado, Hilo

\* LanzaTimer moves two threads: the one that blocks the process, and the timer
\* of this blocking, which had not started.
LEMMA LanzaPc ==
    ASSUME Tipos, NEW c \in Cpu, LanzaTimer(c)
    PROVE  /\ pc[c] = "epoch" /\ pc'[c] \in {"lee", "pide"} /\ sujeto[c] \in Pid
           /\ \A h \in Hilo : \/ h = c \/ pc'[h] = pc[h]
                              \/ /\ h \in Timer /\ h[1] = sujeto[c]
                                 /\ pc[h] = "no_lanzado" /\ pc'[h] = "duerme"
<1> DEFINE t0 == <<sujeto[c], block_epoch[sujeto[c]] + 1>>
<1>1. sujeto[c] \in Pid /\ block_epoch[sujeto[c]] \in Nat /\ pc[c] = "epoch" /\ c \in Hilo
  BY DEF Tipos, TypeOK, LanzaTimer, TipoIO, HilosOK, Hilo
<1>2. c # t0 /\ (t0 \in Hilo => t0 \in Timer)
  BY <1>1, HiloAssumption DEF HiloAssumption, Hilo
<1>3. t0 \in Timer => pc[t0] = "no_lanzado"
  BY <1>1 DEF Tipos, HilosOK
<1>4. pc' = [pc EXCEPT ![t0] = "duerme", ![c] = IF pide[c] = STDOUT THEN "lee" ELSE "pide"]
  BY DEF LanzaTimer
<1>5. t0[1] = sujeto[c]
  OBVIOUS
<1> HIDE DEF t0
<1>6. QED
  BY <1>1, <1>2, <1>3, <1>4, <1>5 DEF Tipos, TypeOK, TipoHilos

\* While a loop holds its mutex nobody else takes a process out of its list.
LEMMA BuclesNext == Tipos /\ BuclesOK /\ [Next]_vars => BuclesOK'
<1> SUFFICES ASSUME TipoColas, TipoHilos, TipoIO, TipoMemoria, HilosOK, BuclesOK, [Next]_vars PROVE BuclesOK'
  BY DEF Tipos, TypeOK
<1> USE Disjuntos, NadieAssumption, LlamadasAssumption DEF NadieAssumption, LlamadasAssumption,
        colas, hilos, relojes, io, susp, espera, memoria
<1>1. ASSUME NEW c \in Cpu, NEW p \in Pid, Despacha(c, p) PROVE BuclesOK'
  BY <1>1 DEF Despacha, Saca, TipoColas, TipoHilos, TipoIO, TipoMemoria, HilosOK,
     BuclesOK, Hilo, Cola
<1>2. ASSUME NEW c \in Cpu, CpuRetorna(c) PROVE BuclesOK'
  BY <1>2 DEF CpuRetorna, Sigue, TipoColas, TipoHilos, TipoIO, TipoMemoria, HilosOK,
     BuclesOK, Hilo, Cola
<1>3. ASSUME NEW c \in Cpu, VuelveAReady(c) PROVE BuclesOK'
  BY <1>3 DEF VuelveAReady, Mete, Atendido, Sigue, TipoColas, TipoHilos, TipoIO,
     TipoMemoria, HilosOK, BuclesOK, Hilo, Cola
<1>4. ASSUME NEW c \in Cpu, Sale(c) PROVE BuclesOK'
  BY <1>4 DEF Sale, Sigue, Mete, LiberaTodo, TipoColas, TipoHilos, TipoIO, TipoMemoria,
     HilosOK, BuclesOK, Hilo, Cola
<1>5. ASSUME NEW c \in Cpu, InitProc(c) PROVE BuclesOK'
  BY <1>5 DEF InitProc, Sigue, Mueve, TipoColas, TipoHilos, TipoIO, TipoMemoria,
     HilosOK, BuclesOK, Hilo, Cola
<1>6. ASSUME NEW c \in Cpu, MemAlloc(c) PROVE BuclesOK'
  BY <1>6 DEF MemAlloc, Sigue, TipoColas, TipoHilos, TipoIO, TipoMemoria, HilosOK,
     BuclesOK, Hilo, Cola
<1>7. ASSUME NEW c \in Cpu, EsperaMemoria(c) PROVE BuclesOK'
  BY <1>7 DEF EsperaMemoria, Mete, Atendido, Sigue, TipoColas, TipoHilos, TipoIO,
     TipoMemoria, HilosOK, BuclesOK, Hilo, Cola
<1>8. ASSUME NEW c \in Cpu, MemFree(c) PROVE BuclesOK'
  BY <1>8 DEF MemFree, Sigue, TipoColas, TipoHilos, TipoIO, TipoMemoria, HilosOK,
     BuclesOK, Hilo, Cola
<1>9. ASSUME NEW c \in Cpu, EntraABlock(c) PROVE BuclesOK'
  BY <1>9 DEF EntraABlock, Sigue, Mete, TipoColas, TipoHilos, TipoIO, TipoMemoria,
     HilosOK, BuclesOK, Hilo, Cola
<1>10. ASSUME NEW c \in Cpu, LanzaTimer(c) PROVE BuclesOK'
  BY <1>10 DEF LanzaTimer, TipoColas, TipoHilos, TipoIO, TipoMemoria, HilosOK, BuclesOK,
     Hilo, Cola
<1>11. ASSUME NEW c \in Cpu, LeeMemoria(c) PROVE BuclesOK'
  BY <1>11 DEF LeeMemoria, Sigue, TipoColas, TipoHilos, TipoIO, TipoMemoria, HilosOK,
     BuclesOK, Hilo, Cola
<1>12. ASSUME NEW c \in Cpu, PideIO(c) PROVE BuclesOK'
  BY <1>12 DEF PideIO, Atendido, Sigue, TipoColas, TipoHilos, TipoIO, TipoMemoria,
     HilosOK, BuclesOK, Hilo, Cola
<1>13. ASSUME NEW i \in Interfaz, Conecta(i) PROVE BuclesOK'
  BY <1>13 DEF Conecta, TipoColas, TipoHilos, TipoIO, TipoMemoria, HilosOK, BuclesOK,
     Hilo, Cola
<1>14. ASSUME NEW i \in Interfaz, Desconecta(i) PROVE BuclesOK'
  BY <1>14 DEF Desconecta, TipoColas, TipoHilos, TipoIO, TipoMemoria, HilosOK, BuclesOK,
     Hilo, Cola
<1>15. ASSUME NEW i \in Interfaz, NEW p \in Pid, RespondeIO(i, p) PROVE BuclesOK'
  BY <1>15 DEF RespondeIO, TipoColas, TipoHilos, TipoIO, TipoMemoria, HilosOK, BuclesOK,
     Hilo, Cola
<1>16. ASSUME NEW i \in Interfaz, NEW p \in Pid, RecibeFin(i, p) PROVE BuclesOK'
  BY <1>16 DEF RecibeFin, Sigue, RemueveDeBlock, Saca, TipoColas, TipoHilos, TipoIO,
     TipoMemoria, HilosOK, BuclesOK, Hilo, Cola
<1>17. ASSUME NEW i \in Interfaz, EscribeMemoria(i) PROVE BuclesOK'
  BY <1>17 DEF EscribeMemoria, Sigue, TipoColas, TipoHilos, TipoIO, TipoMemoria,
     HilosOK, BuclesOK, Hilo, Cola
<1>18. ASSUME NEW i \in Interfaz, Despierta(i) PROVE BuclesOK'
  BY <1>18 DEF Despierta, Mete, Atendido, Sigue, TipoColas, TipoHilos, TipoIO,
     TipoMemoria, HilosOK, BuclesOK, Hilo, Cola
<1>19. ASSUME NEW i \in Interfaz, MiraSuspendidos(i) PROVE BuclesOK'
  BY <1>19 DEF MiraSuspendidos, Sigue, Mueve, Atendido, AvisaAlTimer, TipoColas,
     TipoHilos, TipoIO, TipoMemoria, HilosOK, BuclesOK, Hilo, Cola
<1>20. ASSUME NEW t \in Timer, Vence(t) PROVE BuclesOK'
  BY <1>20 DEF Vence, Sigue, TipoColas, TipoHilos, TipoIO, TipoMemoria, HilosOK,
     BuclesOK, Hilo, Cola
<1>21. ASSUME NEW t \in Timer, SacaDeBlock(t) PROVE BuclesOK'
  BY <1>21 DEF SacaDeBlock, Sigue, RemueveDeBlock, Saca, TipoColas, TipoHilos, TipoIO,
     TipoMemoria, HilosOK, BuclesOK, Hilo, Cola
<1>22. ASSUME NEW t \in Timer, EscribeSwap(t) PROVE BuclesOK'
  BY <1>22 DEF EscribeSwap, Sigue, SwapEscritura, TipoColas, TipoHilos, TipoIO,
     TipoMemoria, HilosOK, BuclesOK, Hilo, Cola
<1>23. ASSUME NEW t \in Timer, DecideSuspension(t) PROVE BuclesOK'
  BY <1>23 DEF DecideSuspension, Sigue, Mete, TomaAviso, HayAviso, TipoColas, TipoHilos,
     TipoIO, TipoMemoria, HilosOK, BuclesOK, Hilo, Cola
<1>24. ASSUME NEW h \in Hilo, EntraDesuspender(h) PROVE BuclesOK'
  BY <1>24 DEF EntraDesuspender, TipoColas, TipoHilos, TipoIO, TipoMemoria, HilosOK,
     BuclesOK, Hilo, Cola
<1>25. ASSUME NEW h \in Hilo, NEW p \in Pid, Desuspende(h, p) PROVE BuclesOK'
  BY <1>25 DEF Desuspende, Mueve, Cabe, SwapLectura, Siguiente, TipoColas, TipoHilos,
     TipoIO, TipoMemoria, HilosOK, BuclesOK, Hilo, Cola
<1>26. ASSUME NEW h \in Hilo, SaleDesuspender(h) PROVE BuclesOK'
  BY <1>26 DEF SaleDesuspender, Sigue, TipoColas, TipoHilos, TipoIO, TipoMemoria,
     HilosOK, BuclesOK, Hilo, Cola
<1>27. ASSUME NEW h \in Hilo, EntraReintentar(h) PROVE BuclesOK'
  BY <1>27 DEF EntraReintentar, TipoColas, TipoHilos, TipoIO, TipoMemoria, HilosOK,
     BuclesOK, Hilo, Cola
<1>28. ASSUME NEW h \in Hilo, NEW p \in Pid, Reintenta(h, p) PROVE BuclesOK'
  BY <1>28 DEF Reintenta, Mueve, TipoColas, TipoHilos, TipoIO, TipoMemoria, HilosOK,
     BuclesOK, Hilo, Cola
<1>29. ASSUME NEW h \in Hilo, SaleReintentar(h) PROVE BuclesOK'
  BY <1>29 DEF SaleReintentar, Termina, Sigue, Atendido, TipoColas, TipoHilos, TipoIO,
     TipoMemoria, HilosOK, BuclesOK, Hilo, Cola
<1>30. CASE UNCHANGED vars
  BY <1>30 DEF vars, TipoColas, TipoHilos, TipoIO, TipoMemoria, HilosOK, BuclesOK, Hilo,
     Cola
<1>31. QED
  BY <1>1, <1>2, <1>3, <1>4, <1>5, <1>6, <1>7, <1>8, <1>9, <1>10, <1>11, <1>12, <1>13,
     <1>14, <1>15, <1>16, <1>17, <1>18, <1>19, <1>20, <1>21, <1>22, <1>23, <1>24, <1>25,
     <1>26, <1>27, <1>28, <1>29, <1>30 DEF Next, Planificador, HiloCpu, HiloInterfaz,
     HiloTimer, Bucles, TodoTerminado, Hilo

\* sacar_de_block and the other removals hand a PCB to one thread only, and what a
\* thread enqueues was in its hands.
LEMMA LugarNext == Tipos /\ BuclesOK /\ UnSoloLugar /\ [Next]_vars => UnSoloLugar'
<1> SUFFICES ASSUME TipoColas, TipoHilos, TipoIO, TipoMemoria, HilosOK, BuclesOK, [Next]_vars,
                    NEW p0 \in Pid, UnLugar(p0)
             PROVE UnLugar(p0)'
  BY DEF Tipos, TypeOK, UnSoloLugar
<1> USE Disjuntos, NadieAssumption, LlamadasAssumption DEF NadieAssumption, LlamadasAssumption,
        colas, hilos, relojes, io, susp, espera, memoria
<1>1. ASSUME NEW c \in Cpu, NEW p \in Pid, Despacha(c, p) PROVE UnLugar(p0)'
  BY <1>1 DEF Despacha, Saca, TipoColas, TipoHilos, TipoMemoria, HilosOK, BuclesOK,
     UnLugar, EnMano, Pcb, ConPcb, Hilo, Timer, Cola
<1>2. ASSUME NEW c \in Cpu, CpuRetorna(c) PROVE UnLugar(p0)'
  BY SMTT(30), <1>2 DEF CpuRetorna, Sigue, TipoColas, TipoHilos, TipoMemoria, HilosOK, BuclesOK,
     UnLugar, EnMano, Pcb, ConPcb, Hilo, Timer, Cola
<1>3. ASSUME NEW c \in Cpu, VuelveAReady(c) PROVE UnLugar(p0)'
  BY <1>3 DEF VuelveAReady, Mete, Atendido, Sigue, TipoColas, TipoHilos, TipoMemoria,
     HilosOK, BuclesOK, UnLugar, EnMano, Pcb, ConPcb, Hilo, Timer, Cola
<1>4. ASSUME NEW c \in Cpu, Sale(c) PROVE UnLugar(p0)'
  BY <1>4 DEF Sale, Sigue, Mete, LiberaTodo, TipoColas, TipoHilos, TipoMemoria, HilosOK,
     BuclesOK, UnLugar, EnMano, Pcb, ConPcb, Hilo, Timer, Cola
<1>5. ASSUME NEW c \in Cpu, InitProc(c) PROVE UnLugar(p0)'
  BY <1>5 DEF InitProc, Sigue, Mueve, TipoColas, TipoHilos, TipoMemoria, HilosOK,
     BuclesOK, UnLugar, EnMano, Pcb, ConPcb, Hilo, Timer, Cola
<1>6. ASSUME NEW c \in Cpu, MemAlloc(c) PROVE UnLugar(p0)'
  BY <1>6 DEF MemAlloc, Sigue, TipoColas, TipoHilos, TipoMemoria, HilosOK, BuclesOK,
     UnLugar, EnMano, Pcb, ConPcb, Hilo, Timer, Cola
<1>7. ASSUME NEW c \in Cpu, EsperaMemoria(c) PROVE UnLugar(p0)'
  BY <1>7 DEF EsperaMemoria, Mete, Atendido, Sigue, TipoColas, TipoHilos, TipoMemoria,
     HilosOK, BuclesOK, UnLugar, EnMano, Pcb, ConPcb, Hilo, Timer, Cola
<1>8. ASSUME NEW c \in Cpu, MemFree(c) PROVE UnLugar(p0)'
  BY <1>8 DEF MemFree, Sigue, TipoColas, TipoHilos, TipoMemoria, HilosOK, BuclesOK,
     UnLugar, EnMano, Pcb, ConPcb, Hilo, Timer, Cola
<1>9. ASSUME NEW c \in Cpu, EntraABlock(c) PROVE UnLugar(p0)'
  BY <1>9 DEF EntraABlock, Sigue, Mete, TipoColas, TipoHilos, TipoMemoria, HilosOK,
     BuclesOK, UnLugar, EnMano, Pcb, ConPcb, Hilo, Timer, Cola
<1>10. ASSUME NEW c \in Cpu, LanzaTimer(c) PROVE UnLugar(p0)'
  <2>1. UNCHANGED <<cola, exec, sujeto>>
    BY <1>10 DEF LanzaTimer
  <2>2. \A h \in Hilo : EnMano(h, p0)' <=> EnMano(h, p0)
    BY <1>10, <2>1, LanzaPc DEF Tipos, TypeOK, EnMano, Pcb, ConPcb, Hilo
  <2>3. QED
    BY <2>1, <2>2 DEF UnLugar
<1>11. ASSUME NEW c \in Cpu, LeeMemoria(c) PROVE UnLugar(p0)'
  BY <1>11 DEF LeeMemoria, Sigue, TipoColas, TipoHilos, TipoMemoria, HilosOK, BuclesOK,
     UnLugar, EnMano, Pcb, ConPcb, Hilo, Timer, Cola
<1>12. ASSUME NEW c \in Cpu, PideIO(c) PROVE UnLugar(p0)'
  BY <1>12 DEF PideIO, Atendido, Sigue, TipoColas, TipoHilos, TipoMemoria, HilosOK,
     BuclesOK, UnLugar, EnMano, Pcb, ConPcb, Hilo, Timer, Cola
<1>13. ASSUME NEW i \in Interfaz, Conecta(i) PROVE UnLugar(p0)'
  BY <1>13 DEF Conecta, TipoColas, TipoHilos, TipoMemoria, HilosOK, BuclesOK, UnLugar,
     EnMano, Pcb, ConPcb, Hilo, Timer, Cola
<1>14. ASSUME NEW i \in Interfaz, Desconecta(i) PROVE UnLugar(p0)'
  BY <1>14 DEF Desconecta, TipoColas, TipoHilos, TipoMemoria, HilosOK, BuclesOK,
     UnLugar, EnMano, Pcb, ConPcb, Hilo, Timer, Cola
<1>15. ASSUME NEW i \in Interfaz, NEW p \in Pid, RespondeIO(i, p) PROVE UnLugar(p0)'
  BY <1>15 DEF RespondeIO, TipoColas, TipoHilos, TipoMemoria, HilosOK, BuclesOK,
     UnLugar, EnMano, Pcb, ConPcb, Hilo, Timer, Cola
<1>16. ASSUME NEW i \in Interfaz, NEW p \in Pid, RecibeFin(i, p) PROVE UnLugar(p0)'
  BY <1>16 DEF RecibeFin, Sigue, RemueveDeBlock, Saca, TipoColas, TipoHilos,
     TipoMemoria, HilosOK, BuclesOK, UnLugar, EnMano, Pcb, ConPcb, Hilo, Timer, Cola
<1>17. ASSUME NEW i \in Interfaz, EscribeMemoria(i) PROVE UnLugar(p0)'
  BY <1>17 DEF EscribeMemoria, Sigue, TipoColas, TipoHilos, TipoMemoria, HilosOK,
     BuclesOK, UnLugar, EnMano, Pcb, ConPcb, Hilo, Timer, Cola
<1>18. ASSUME NEW i \in Interfaz, Despierta(i) PROVE UnLugar(p0)'
  BY <1>18 DEF Despierta, Mete, Atendido, Sigue, TipoColas, TipoHilos, TipoMemoria,
     HilosOK, BuclesOK, UnLugar, EnMano, Pcb, ConPcb, Hilo, Timer, Cola
<1>19. ASSUME NEW i \in Interfaz, MiraSuspendidos(i) PROVE UnLugar(p0)'
  BY SMTT(30), <1>19 DEF MiraSuspendidos, Sigue, Mueve, Atendido, AvisaAlTimer, TipoColas,
     TipoHilos, TipoMemoria, HilosOK, BuclesOK, UnLugar, EnMano, Pcb, ConPcb, Hilo,
     Timer, Cola
<1>20. ASSUME NEW t \in Timer, Vence(t) PROVE UnLugar(p0)'
  BY <1>20 DEF Vence, Sigue, TipoColas, TipoHilos, TipoMemoria, HilosOK, BuclesOK,
     UnLugar, EnMano, Pcb, ConPcb, Hilo, Timer, Cola
<1>21. ASSUME NEW t \in Timer, SacaDeBlock(t) PROVE UnLugar(p0)'
  BY <1>21 DEF SacaDeBlock, Sigue, RemueveDeBlock, Saca, TipoColas, TipoHilos,
     TipoMemoria, HilosOK, BuclesOK, UnLugar, EnMano, Pcb, ConPcb, Hilo, Timer, Cola
<1>22. ASSUME NEW t \in Timer, EscribeSwap(t) PROVE UnLugar(p0)'
  BY <1>22 DEF EscribeSwap, Sigue, SwapEscritura, TipoColas, TipoHilos, TipoMemoria,
     HilosOK, BuclesOK, UnLugar, EnMano, Pcb, ConPcb, Hilo, Timer, Cola
<1>23. ASSUME NEW t \in Timer, DecideSuspension(t) PROVE UnLugar(p0)'
  BY <1>23 DEF DecideSuspension, Sigue, Mete, TomaAviso, HayAviso, TipoColas, TipoHilos,
     TipoMemoria, HilosOK, BuclesOK, UnLugar, EnMano, Pcb, ConPcb, Hilo, Timer, Cola
<1>24. ASSUME NEW h \in Hilo, EntraDesuspender(h) PROVE UnLugar(p0)'
  BY <1>24 DEF EntraDesuspender, TipoColas, TipoHilos, TipoMemoria, HilosOK, BuclesOK,
     UnLugar, EnMano, Pcb, ConPcb, Hilo, Timer, Cola
<1>25. ASSUME NEW h \in Hilo, NEW p \in Pid, Desuspende(h, p) PROVE UnLugar(p0)'
  BY <1>25 DEF Desuspende, Mueve, Cabe, SwapLectura, Siguiente, TipoColas, TipoHilos,
     TipoMemoria, HilosOK, BuclesOK, UnLugar, EnMano, Pcb, ConPcb, Hilo, Timer, Cola
<1>26. ASSUME NEW h \in Hilo, SaleDesuspender(h) PROVE UnLugar(p0)'
  BY <1>26 DEF SaleDesuspender, Sigue, TipoColas, TipoHilos, TipoMemoria, HilosOK,
     BuclesOK, UnLugar, EnMano, Pcb, ConPcb, Hilo, Timer, Cola
<1>27. ASSUME NEW h \in Hilo, EntraReintentar(h) PROVE UnLugar(p0)'
  BY <1>27 DEF EntraReintentar, TipoColas, TipoHilos, TipoMemoria, HilosOK, BuclesOK,
     UnLugar, EnMano, Pcb, ConPcb, Hilo, Timer, Cola
<1>28. ASSUME NEW h \in Hilo, NEW p \in Pid, Reintenta(h, p) PROVE UnLugar(p0)'
  BY <1>28 DEF Reintenta, Mueve, TipoColas, TipoHilos, TipoMemoria, HilosOK, BuclesOK,
     UnLugar, EnMano, Pcb, ConPcb, Hilo, Timer, Cola
<1>29. ASSUME NEW h \in Hilo, SaleReintentar(h) PROVE UnLugar(p0)'
  BY <1>29 DEF SaleReintentar, Termina, Sigue, Atendido, TipoColas, TipoHilos,
     TipoMemoria, HilosOK, BuclesOK, UnLugar, EnMano, Pcb, ConPcb, Hilo, Timer, Cola
<1>30. CASE UNCHANGED vars
  BY <1>30 DEF vars, TipoColas, TipoHilos, TipoMemoria, HilosOK, BuclesOK, UnLugar,
     EnMano, Pcb, ConPcb, Hilo, Timer, Cola
<1>31. QED
  BY <1>1, <1>2, <1>3, <1>4, <1>5, <1>6, <1>7, <1>8, <1>9, <1>10, <1>11, <1>12, <1>13,
     <1>14, <1>15, <1>16, <1>17, <1>18, <1>19, <1>20, <1>21, <1>22, <1>23, <1>24, <1>25,
     <1>26, <1>27, <1>28, <1>29, <1>30 DEF Next, Planificador, HiloCpu, HiloInterfaz,
     HiloTimer, Bucles, TodoTerminado, Hilo

\* A wakeup is asked for once per blocking, and moves from the CPU thread to the
\* device, to its answer, to the thread that reads it.
LEMMA FichaNext ==
    Tipos /\ BuclesOK /\ UnSoloLugar /\ FichaUnica /\ NingunDespertarPerdido /\
       [Next]_vars => FichaUnica'
<1> SUFFICES ASSUME TipoColas, TipoHilos, TipoIO, TipoMemoria, HilosOK, BuclesOK, [Next]_vars,
                    NEW p0 \in Pid, UnLugar(p0), FichaDe(p0), DespertarDe(p0)
             PROVE FichaDe(p0)'
  BY DEF Tipos, TypeOK, UnSoloLugar, FichaUnica, NingunDespertarPerdido,
     PendienteSoloEnLimbo, ResidenciaCoherente, DespertarDe, PendienteDe
<1> USE Disjuntos, NadieAssumption, LlamadasAssumption DEF NadieAssumption, LlamadasAssumption,
        colas, hilos, relojes, io, susp, espera, memoria
<1>1. ASSUME NEW c \in Cpu, NEW p \in Pid, Despacha(c, p) PROVE FichaDe(p0)'
  BY <1>1 DEF Despacha, Saca, TipoColas, TipoHilos, TipoIO, TipoMemoria, HilosOK,
     BuclesOK, UnLugar, EnMano, Pcb, ConPcb, Hilo, Timer, Cola, FichaDe, EnInterfaz,
     PorPedir, PorMirar, DespertarDe, Dormido, EnCamino, Limbo, HayAviso
<1>2. ASSUME NEW c \in Cpu, CpuRetorna(c) PROVE FichaDe(p0)'
  BY <1>2 DEF CpuRetorna, Sigue, TipoColas, TipoHilos, TipoIO, TipoMemoria, HilosOK,
     BuclesOK, UnLugar, EnMano, Pcb, ConPcb, Hilo, Timer, Cola, FichaDe, EnInterfaz,
     PorPedir, PorMirar, DespertarDe, Dormido, EnCamino, Limbo, HayAviso
<1>3. ASSUME NEW c \in Cpu, VuelveAReady(c) PROVE FichaDe(p0)'
  BY <1>3 DEF VuelveAReady, Mete, Atendido, Sigue, TipoColas, TipoHilos, TipoIO,
     TipoMemoria, HilosOK, BuclesOK, UnLugar, EnMano, Pcb, ConPcb, Hilo, Timer, Cola,
     FichaDe, EnInterfaz, PorPedir, PorMirar, DespertarDe, Dormido, EnCamino, Limbo,
     HayAviso
<1>4. ASSUME NEW c \in Cpu, Sale(c) PROVE FichaDe(p0)'
  BY <1>4 DEF Sale, Sigue, Mete, LiberaTodo, TipoColas, TipoHilos, TipoIO, TipoMemoria,
     HilosOK, BuclesOK, UnLugar, EnMano, Pcb, ConPcb, Hilo, Timer, Cola, FichaDe,
     EnInterfaz, PorPedir, PorMirar, DespertarDe, Dormido, EnCamino, Limbo, HayAviso
<1>5. ASSUME NEW c \in Cpu, InitProc(c) PROVE FichaDe(p0)'
  BY <1>5 DEF InitProc, Sigue, Mueve, TipoColas, TipoHilos, TipoIO, TipoMemoria,
     HilosOK, BuclesOK, UnLugar, EnMano, Pcb, ConPcb, Hilo, Timer, Cola, FichaDe,
     EnInterfaz, PorPedir, PorMirar, DespertarDe, Dormido, EnCamino, Limbo, HayAviso
<1>6. ASSUME NEW c \in Cpu, MemAlloc(c) PROVE FichaDe(p0)'
  BY <1>6 DEF MemAlloc, Sigue, TipoColas, TipoHilos, TipoIO, TipoMemoria, HilosOK,
     BuclesOK, UnLugar, EnMano, Pcb, ConPcb, Hilo, Timer, Cola, FichaDe, EnInterfaz,
     PorPedir, PorMirar, DespertarDe, Dormido, EnCamino, Limbo, HayAviso
<1>7. ASSUME NEW c \in Cpu, EsperaMemoria(c) PROVE FichaDe(p0)'
  BY <1>7 DEF EsperaMemoria, Mete, Atendido, Sigue, TipoColas, TipoHilos, TipoIO,
     TipoMemoria, HilosOK, BuclesOK, UnLugar, EnMano, Pcb, ConPcb, Hilo, Timer, Cola,
     FichaDe, EnInterfaz, PorPedir, PorMirar, DespertarDe, Dormido, EnCamino, Limbo,
     HayAviso
<1>8. ASSUME NEW c \in Cpu, MemFree(c) PROVE FichaDe(p0)'
  BY <1>8 DEF MemFree, Sigue, TipoColas, TipoHilos, TipoIO, TipoMemoria, HilosOK,
     BuclesOK, UnLugar, EnMano, Pcb, ConPcb, Hilo, Timer, Cola, FichaDe, EnInterfaz,
     PorPedir, PorMirar, DespertarDe, Dormido, EnCamino, Limbo, HayAviso
<1>9. ASSUME NEW c \in Cpu, EntraABlock(c) PROVE FichaDe(p0)'
  BY <1>9 DEF EntraABlock, Sigue, Mete, TipoColas, TipoHilos, TipoIO, TipoMemoria,
     HilosOK, BuclesOK, UnLugar, EnMano, Pcb, ConPcb, Hilo, Timer, Cola, FichaDe,
     EnInterfaz, PorPedir, PorMirar, DespertarDe, Dormido, EnCamino, Limbo, HayAviso
<1>10. ASSUME NEW c \in Cpu, LanzaTimer(c) PROVE FichaDe(p0)'
  <2>1. UNCHANGED <<cola, exec, sujeto, pending_wakeup, pedidos, respuestas, perdidos>>
    BY <1>10 DEF LanzaTimer
  <2>2. /\ \A d \in Cpu : PorPedir(d, p0)' <=> PorPedir(d, p0)
        /\ \A i \in Interfaz : PorMirar(i, p0)' <=> PorMirar(i, p0)
    BY <1>10, <2>1, LanzaPc DEF Tipos, TypeOK, PorPedir, PorMirar, Hilo
  <2>3. Limbo(p0)' <=> Limbo(p0)
    BY <1>10, <2>1, LanzaPc DEF Tipos, TypeOK, Limbo, Hilo
  <2>4. QED
    BY <2>1, <2>2, <2>3 DEF FichaDe, EnInterfaz
<1>11. ASSUME NEW c \in Cpu, LeeMemoria(c) PROVE FichaDe(p0)'
  BY <1>11 DEF LeeMemoria, Sigue, TipoColas, TipoHilos, TipoIO, TipoMemoria, HilosOK,
     BuclesOK, UnLugar, EnMano, Pcb, ConPcb, Hilo, Timer, Cola, FichaDe, EnInterfaz,
     PorPedir, PorMirar, DespertarDe, Dormido, EnCamino, Limbo, HayAviso
<1>12. ASSUME NEW c \in Cpu, PideIO(c) PROVE FichaDe(p0)'
  <2>1. /\ pc[c] = "pide" /\ sujeto[c] \in Pid /\ pide[c] \in Interfaz
        /\ UNCHANGED <<cola, pending_wakeup, respuestas>>
    BY <1>12 DEF PideIO, Atendido, Sigue, HilosOK
  <2>2. /\ \A d \in Cpu : PorPedir(d, p0)' <=> d # c /\ PorPedir(d, p0)
        /\ \A i \in Interfaz : PorMirar(i, p0)' <=> PorMirar(i, p0)
        /\ Limbo(p0)' <=> Limbo(p0)
        /\ PorPedir(c, p0) <=> p0 = sujeto[c]
    BY <1>12, <2>1 DEF PideIO, Atendido, Sigue, TipoHilos, PorPedir, PorMirar, Limbo, Hilo, Timer
  <2>3. CASE pide[c] \in conectadas
    <3>1. perdidos' = perdidos
      BY <1>12, <2>3 DEF PideIO
    <3>2. \A i \in Interfaz : p0 \in pedidos'[i] <=> p0 \in pedidos[i] \/ (i = pide[c] /\ p0 = sujeto[c])
      BY <1>12, <2>1, <2>3 DEF PideIO, TipoIO
    <3>3. QED
      BY <2>1, <2>2, <3>1, <3>2 DEF FichaDe, EnInterfaz, DespertarDe, EnCamino
  <2>4. CASE pide[c] \notin conectadas
    <3>1. pedidos' = pedidos
      BY <1>12, <2>4 DEF PideIO
    <3>2. p0 \in perdidos' <=> p0 \in perdidos \/ p0 = sujeto[c]
      BY <1>12, <2>4 DEF PideIO
    <3>3. QED
      BY <2>1, <2>2, <3>1, <3>2 DEF FichaDe, EnInterfaz, DespertarDe, EnCamino
  <2>5. QED
    BY <2>3, <2>4
<1>13. ASSUME NEW i \in Interfaz, Conecta(i) PROVE FichaDe(p0)'
  BY <1>13 DEF Conecta, TipoColas, TipoHilos, TipoIO, TipoMemoria, HilosOK, BuclesOK,
     UnLugar, EnMano, Pcb, ConPcb, Hilo, Timer, Cola, FichaDe, EnInterfaz, PorPedir,
     PorMirar, DespertarDe, Dormido, EnCamino, Limbo, HayAviso
<1>14. ASSUME NEW i \in Interfaz, Desconecta(i) PROVE FichaDe(p0)'
  BY <1>14 DEF Desconecta, TipoColas, TipoHilos, TipoIO, TipoMemoria, HilosOK, BuclesOK,
     UnLugar, EnMano, Pcb, ConPcb, Hilo, Timer, Cola, FichaDe, EnInterfaz, PorPedir,
     PorMirar, DespertarDe, Dormido, EnCamino, Limbo, HayAviso
<1>15. ASSUME NEW i \in Interfaz, NEW p \in Pid, RespondeIO(i, p) PROVE FichaDe(p0)'
  BY <1>15 DEF RespondeIO, TipoColas, TipoHilos, TipoIO, TipoMemoria, HilosOK, BuclesOK,
     UnLugar, EnMano, Pcb, ConPcb, Hilo, Timer, Cola, FichaDe, EnInterfaz, PorPedir,
     PorMirar, DespertarDe, Dormido, EnCamino, Limbo, HayAviso
<1>16. ASSUME NEW i \in Interfaz, NEW p \in Pid, RecibeFin(i, p) PROVE FichaDe(p0)'
  BY <1>16 DEF RecibeFin, Sigue, RemueveDeBlock, Saca, TipoColas, TipoHilos, TipoIO,
     TipoMemoria, HilosOK, BuclesOK, UnLugar, EnMano, Pcb, ConPcb, Hilo, Timer, Cola,
     FichaDe, EnInterfaz, PorPedir, PorMirar, DespertarDe, Dormido, EnCamino, Limbo,
     HayAviso
<1>17. ASSUME NEW i \in Interfaz, EscribeMemoria(i) PROVE FichaDe(p0)'
  BY <1>17 DEF EscribeMemoria, Sigue, TipoColas, TipoHilos, TipoIO, TipoMemoria,
     HilosOK, BuclesOK, UnLugar, EnMano, Pcb, ConPcb, Hilo, Timer, Cola, FichaDe,
     EnInterfaz, PorPedir, PorMirar, DespertarDe, Dormido, EnCamino, Limbo, HayAviso
<1>18. ASSUME NEW i \in Interfaz, Despierta(i) PROVE FichaDe(p0)'
  BY <1>18 DEF Despierta, Mete, Atendido, Sigue, TipoColas, TipoHilos, TipoIO,
     TipoMemoria, HilosOK, BuclesOK, UnLugar, EnMano, Pcb, ConPcb, Hilo, Timer, Cola,
     FichaDe, EnInterfaz, PorPedir, PorMirar, DespertarDe, Dormido, EnCamino, Limbo,
     HayAviso
<1>19. ASSUME NEW i \in Interfaz, MiraSuspendidos(i) PROVE FichaDe(p0)'
  <2>1. /\ pc[i] = "mira_susp" /\ sujeto[i] \in Pid
        /\ UNCHANGED <<pedidos, respuestas, perdidos>>
    BY <1>19 DEF MiraSuspendidos, Sigue, Mueve, Atendido, AvisaAlTimer, HilosOK
  <2>2. /\ \A c \in Cpu : PorPedir(c, p0)' <=> PorPedir(c, p0)
        /\ \A j \in Interfaz : PorMirar(j, p0)' <=> j # i /\ PorMirar(j, p0)
        /\ Limbo(p0)' <=> Limbo(p0)
        /\ PorMirar(i, p0) <=> p0 = sujeto[i]
    BY <1>19, <2>1 DEF MiraSuspendidos, Sigue, Mueve, Atendido, AvisaAlTimer, TipoHilos,
       PorPedir, PorMirar, Limbo, Hilo, Timer
  <2>3. CASE sujeto[i] \in cola["SUSP_BLOCK"]
    <3>1. /\ pending_wakeup' = pending_wakeup
          /\ p0 \in cola'["BLOCK"] <=> p0 \in cola["BLOCK"]
          /\ p0 \in cola'["SUSP_BLOCK"] <=> p0 \in cola["SUSP_BLOCK"] /\ p0 # sujeto[i]
      BY <1>19, <2>3 DEF MiraSuspendidos, Mueve, TipoColas, Cola
    <3>2. Limbo(p0) => ~(p0 \in cola["SUSP_BLOCK"])
      BY DEF UnLugar, Limbo, EnMano, Pcb, ConPcb, Hilo, Cola
    <3>3. QED
      BY <2>1, <2>2, <2>3, <3>1, <3>2 DEF FichaDe, EnInterfaz
  <2>4. CASE sujeto[i] \notin cola["SUSP_BLOCK"]
    <3>1. cola' = cola /\ (HayAviso(p0)' <=> HayAviso(p0) \/ p0 = sujeto[i])
      BY <1>19, <2>1, <2>4 DEF MiraSuspendidos, AvisaAlTimer, HayAviso, TipoIO
    <3>2. QED
      BY <2>1, <2>2, <2>4, <3>1 DEF FichaDe, EnInterfaz
  <2>5. QED
    BY <2>3, <2>4
<1>20. ASSUME NEW t \in Timer, Vence(t) PROVE FichaDe(p0)'
  BY <1>20 DEF Vence, Sigue, TipoColas, TipoHilos, TipoIO, TipoMemoria, HilosOK,
     BuclesOK, UnLugar, EnMano, Pcb, ConPcb, Hilo, Timer, Cola, FichaDe, EnInterfaz,
     PorPedir, PorMirar, DespertarDe, Dormido, EnCamino, Limbo, HayAviso
<1>21. ASSUME NEW t \in Timer, SacaDeBlock(t) PROVE FichaDe(p0)'
  BY <1>21 DEF SacaDeBlock, Sigue, RemueveDeBlock, Saca, TipoColas, TipoHilos, TipoIO,
     TipoMemoria, HilosOK, BuclesOK, UnLugar, EnMano, Pcb, ConPcb, Hilo, Timer, Cola,
     FichaDe, EnInterfaz, PorPedir, PorMirar, DespertarDe, Dormido, EnCamino, Limbo,
     HayAviso
<1>22. ASSUME NEW t \in Timer, EscribeSwap(t) PROVE FichaDe(p0)'
  BY <1>22 DEF EscribeSwap, Sigue, SwapEscritura, TipoColas, TipoHilos, TipoIO,
     TipoMemoria, HilosOK, BuclesOK, UnLugar, EnMano, Pcb, ConPcb, Hilo, Timer, Cola,
     FichaDe, EnInterfaz, PorPedir, PorMirar, DespertarDe, Dormido, EnCamino, Limbo,
     HayAviso
<1>23. ASSUME NEW t \in Timer, DecideSuspension(t) PROVE FichaDe(p0)'
  <2>1. CASE HayAviso(t[1])
    BY <1>23, <2>1 DEF DecideSuspension, Sigue, Mete, TomaAviso, HayAviso, TipoColas,
       TipoHilos, TipoIO, TipoMemoria, HilosOK, BuclesOK, UnLugar, EnMano, Pcb, ConPcb,
       Hilo, Timer, Cola, FichaDe, EnInterfaz, PorPedir, PorMirar, DespertarDe, Dormido,
       EnCamino, Limbo, HayAviso
  <2>2. CASE ~(HayAviso(t[1]))
    BY <1>23, <2>2 DEF DecideSuspension, Sigue, Mete, TomaAviso, HayAviso, TipoColas,
       TipoHilos, TipoIO, TipoMemoria, HilosOK, BuclesOK, UnLugar, EnMano, Pcb, ConPcb,
       Hilo, Timer, Cola, FichaDe, EnInterfaz, PorPedir, PorMirar, DespertarDe, Dormido,
       EnCamino, Limbo, HayAviso
  <2>3. QED
    BY <2>1, <2>2
<1>24. ASSUME NEW h \in Hilo, EntraDesuspender(h) PROVE FichaDe(p0)'
  BY <1>24 DEF EntraDesuspender, TipoColas, TipoHilos, TipoIO, TipoMemoria, HilosOK,
     BuclesOK, UnLugar, EnMano, Pcb, ConPcb, Hilo, Timer, Cola, FichaDe, EnInterfaz,
     PorPedir, PorMirar, DespertarDe, Dormido, EnCamino, Limbo, HayAviso
<1>25. ASSUME NEW h \in Hilo, NEW p \in Pid, Desuspende(h, p) PROVE FichaDe(p0)'
  BY <1>25 DEF Desuspende, Mueve, Cabe, SwapLectura, Siguiente, TipoColas, TipoHilos,
     TipoIO, TipoMemoria, HilosOK, BuclesOK, UnLugar, EnMano, Pcb, ConPcb, Hilo, Timer,
     Cola, FichaDe, EnInterfaz, PorPedir, PorMirar, DespertarDe, Dormido, EnCamino,
     Limbo, HayAviso
<1>26. ASSUME NEW h \in Hilo, SaleDesuspender(h) PROVE FichaDe(p0)'
  BY <1>26 DEF SaleDesuspender, Sigue, TipoColas, TipoHilos, TipoIO, TipoMemoria,
     HilosOK, BuclesOK, UnLugar, EnMano, Pcb, ConPcb, Hilo, Timer, Cola, FichaDe,
     EnInterfaz, PorPedir, PorMirar, DespertarDe, Dormido, EnCamino, Limbo, HayAviso
<1>27. ASSUME NEW h \in Hilo, EntraReintentar(h) PROVE FichaDe(p0)'
  BY <1>27 DEF EntraReintentar, TipoColas, TipoHilos, TipoIO, TipoMemoria, HilosOK,
     BuclesOK, UnLugar, EnMano, Pcb, ConPcb, Hilo, Timer, Cola, FichaDe, EnInterfaz,
     PorPedir, PorMirar, DespertarDe, Dormido, EnCamino, Limbo, HayAviso
<1>28. ASSUME NEW h \in Hilo, NEW p \in Pid, Reintenta(h, p) PROVE FichaDe(p0)'
  BY <1>28 DEF Reintenta, Mueve, TipoColas, TipoHilos, TipoIO, TipoMemoria, HilosOK,
     BuclesOK, UnLugar, EnMano, Pcb, ConPcb, Hilo, Timer, Cola, FichaDe, EnInterfaz,
     PorPedir, PorMirar, DespertarDe, Dormido, EnCamino, Limbo, HayAviso
<1>29. ASSUME NEW h \in Hilo, SaleReintentar(h) PROVE FichaDe(p0)'
  <2>1. UNCHANGED <<cola, pending_wakeup, pedidos, respuestas, perdidos>>
    BY <1>29 DEF SaleReintentar, Termina, Sigue, Atendido
  <2>2. /\ \A d \in Cpu : PorPedir(d, p0)' <=> PorPedir(d, p0)
        /\ \A i \in Interfaz : PorMirar(i, p0)' <=> PorMirar(i, p0)
        /\ Limbo(p0)' <=> Limbo(p0)
    BY <1>29 DEF SaleReintentar, Termina, Sigue, Atendido, TipoColas, TipoHilos,
       TipoMemoria, HilosOK, PorPedir, PorMirar, Limbo, Hilo, Timer
  <2>3. QED
    BY <2>1, <2>2 DEF FichaDe, EnInterfaz
<1>30. CASE UNCHANGED vars
  BY <1>30 DEF vars, TipoColas, TipoHilos, TipoIO, TipoMemoria, HilosOK, BuclesOK,
     UnLugar, EnMano, Pcb, ConPcb, Hilo, Timer, Cola, FichaDe, EnInterfaz, PorPedir,
     PorMirar, DespertarDe, Dormido, EnCamino, Limbo, HayAviso
<1>31. QED
  BY <1>1, <1>2, <1>3, <1>4, <1>5, <1>6, <1>7, <1>8, <1>9, <1>10, <1>11, <1>12, <1>13,
     <1>14, <1>15, <1>16, <1>17, <1>18, <1>19, <1>20, <1>21, <1>22, <1>23, <1>24, <1>25,
     <1>26, <1>27, <1>28, <1>29, <1>30 DEF Next, Planificador, HiloCpu, HiloInterfaz,
     HiloTimer, Bucles, TodoTerminado, Hilo

\* Each step that takes a process out of its sleep takes its wakeup off the way, and
\* the other way round.
LEMMA DespertarNext ==
    Tipos /\ BuclesOK /\ UnSoloLugar /\ FichaUnica /\ NingunDespertarPerdido /\
       PendienteSoloEnLimbo /\ [Next]_vars => NingunDespertarPerdido'
<1> SUFFICES ASSUME TipoColas, TipoHilos, TipoIO, TipoMemoria, HilosOK, BuclesOK, [Next]_vars,
                    NEW p0 \in Pid, UnLugar(p0), FichaDe(p0), DespertarDe(p0), PendienteDe(p0)
             PROVE DespertarDe(p0)'
  BY DEF Tipos, TypeOK, UnSoloLugar, FichaUnica, NingunDespertarPerdido,
     PendienteSoloEnLimbo, ResidenciaCoherente, DespertarDe, PendienteDe
<1> USE Disjuntos, NadieAssumption, LlamadasAssumption DEF NadieAssumption, LlamadasAssumption,
        colas, hilos, relojes, io, susp, espera, memoria
<1>1. ASSUME NEW c \in Cpu, NEW p \in Pid, Despacha(c, p) PROVE DespertarDe(p0)'
  BY <1>1 DEF Despacha, Saca, TipoColas, TipoHilos, TipoIO, TipoMemoria, HilosOK,
     BuclesOK, UnLugar, EnMano, Pcb, ConPcb, Hilo, Timer, Cola, FichaDe, EnInterfaz,
     PorPedir, PorMirar, DespertarDe, Dormido, EnCamino, Limbo, HayAviso, PendienteDe
<1>2. ASSUME NEW c \in Cpu, CpuRetorna(c) PROVE DespertarDe(p0)'
  <2>1. UNCHANGED <<cola, pending_wakeup, pedidos, respuestas, perdidos>>
    BY <1>2 DEF CpuRetorna, Sigue
  <2>2. /\ \A d \in Cpu : PorPedir(d, p0)' <=> PorPedir(d, p0)
        /\ \A i \in Interfaz : PorMirar(i, p0)' <=> PorMirar(i, p0)
        /\ Limbo(p0)' <=> Limbo(p0)
    BY <1>2 DEF CpuRetorna, Sigue, TipoColas, TipoHilos, TipoMemoria, HilosOK, PorPedir,
       PorMirar, Limbo, Hilo, Timer
  <2>3. QED
    BY <2>1, <2>2 DEF DespertarDe, Dormido, EnCamino, HayAviso
<1>3. ASSUME NEW c \in Cpu, VuelveAReady(c) PROVE DespertarDe(p0)'
  BY <1>3 DEF VuelveAReady, Mete, Atendido, Sigue, TipoColas, TipoHilos, TipoIO,
     TipoMemoria, HilosOK, BuclesOK, UnLugar, EnMano, Pcb, ConPcb, Hilo, Timer, Cola,
     FichaDe, EnInterfaz, PorPedir, PorMirar, DespertarDe, Dormido, EnCamino, Limbo,
     HayAviso, PendienteDe
<1>4. ASSUME NEW c \in Cpu, Sale(c) PROVE DespertarDe(p0)'
  BY <1>4 DEF Sale, Sigue, Mete, LiberaTodo, TipoColas, TipoHilos, TipoIO, TipoMemoria,
     HilosOK, BuclesOK, UnLugar, EnMano, Pcb, ConPcb, Hilo, Timer, Cola, FichaDe,
     EnInterfaz, PorPedir, PorMirar, DespertarDe, Dormido, EnCamino, Limbo, HayAviso,
     PendienteDe
<1>5. ASSUME NEW c \in Cpu, InitProc(c) PROVE DespertarDe(p0)'
  BY <1>5 DEF InitProc, Sigue, Mueve, TipoColas, TipoHilos, TipoIO, TipoMemoria,
     HilosOK, BuclesOK, UnLugar, EnMano, Pcb, ConPcb, Hilo, Timer, Cola, FichaDe,
     EnInterfaz, PorPedir, PorMirar, DespertarDe, Dormido, EnCamino, Limbo, HayAviso,
     PendienteDe
<1>6. ASSUME NEW c \in Cpu, MemAlloc(c) PROVE DespertarDe(p0)'
  BY <1>6 DEF MemAlloc, Sigue, TipoColas, TipoHilos, TipoIO, TipoMemoria, HilosOK,
     BuclesOK, UnLugar, EnMano, Pcb, ConPcb, Hilo, Timer, Cola, FichaDe, EnInterfaz,
     PorPedir, PorMirar, DespertarDe, Dormido, EnCamino, Limbo, HayAviso, PendienteDe
<1>7. ASSUME NEW c \in Cpu, EsperaMemoria(c) PROVE DespertarDe(p0)'
  BY <1>7 DEF EsperaMemoria, Mete, Atendido, Sigue, TipoColas, TipoHilos, TipoIO,
     TipoMemoria, HilosOK, BuclesOK, UnLugar, EnMano, Pcb, ConPcb, Hilo, Timer, Cola,
     FichaDe, EnInterfaz, PorPedir, PorMirar, DespertarDe, Dormido, EnCamino, Limbo,
     HayAviso, PendienteDe
<1>8. ASSUME NEW c \in Cpu, MemFree(c) PROVE DespertarDe(p0)'
  BY <1>8 DEF MemFree, Sigue, TipoColas, TipoHilos, TipoIO, TipoMemoria, HilosOK,
     BuclesOK, UnLugar, EnMano, Pcb, ConPcb, Hilo, Timer, Cola, FichaDe, EnInterfaz,
     PorPedir, PorMirar, DespertarDe, Dormido, EnCamino, Limbo, HayAviso, PendienteDe
<1>9. ASSUME NEW c \in Cpu, EntraABlock(c) PROVE DespertarDe(p0)'
  BY <1>9 DEF EntraABlock, Sigue, Mete, TipoColas, TipoHilos, TipoIO, TipoMemoria,
     HilosOK, BuclesOK, UnLugar, EnMano, Pcb, ConPcb, Hilo, Timer, Cola, FichaDe,
     EnInterfaz, PorPedir, PorMirar, DespertarDe, Dormido, EnCamino, Limbo, HayAviso,
     PendienteDe
<1>10. ASSUME NEW c \in Cpu, LanzaTimer(c) PROVE DespertarDe(p0)'
  <2>1. UNCHANGED <<cola, exec, sujeto, pending_wakeup, pedidos, respuestas, perdidos>>
    BY <1>10 DEF LanzaTimer
  <2>2. /\ \A d \in Cpu : PorPedir(d, p0)' <=> PorPedir(d, p0)
        /\ \A i \in Interfaz : PorMirar(i, p0)' <=> PorMirar(i, p0)
    BY <1>10, <2>1, LanzaPc DEF Tipos, TypeOK, PorPedir, PorMirar, Hilo
  <2>3. Limbo(p0)' <=> Limbo(p0)
    BY <1>10, <2>1, LanzaPc DEF Tipos, TypeOK, Limbo, Hilo
  <2>4. QED
    BY <2>1, <2>2, <2>3 DEF DespertarDe, Dormido, EnCamino, HayAviso
<1>11. ASSUME NEW c \in Cpu, LeeMemoria(c) PROVE DespertarDe(p0)'
  BY <1>11 DEF LeeMemoria, Sigue, TipoColas, TipoHilos, TipoIO, TipoMemoria, HilosOK,
     BuclesOK, UnLugar, EnMano, Pcb, ConPcb, Hilo, Timer, Cola, FichaDe, EnInterfaz,
     PorPedir, PorMirar, DespertarDe, Dormido, EnCamino, Limbo, HayAviso, PendienteDe
<1>12. ASSUME NEW c \in Cpu, PideIO(c) PROVE DespertarDe(p0)'
  <2>1. /\ pc[c] = "pide" /\ sujeto[c] \in Pid /\ pide[c] \in Interfaz
        /\ UNCHANGED <<cola, pending_wakeup, respuestas>>
    BY <1>12 DEF PideIO, Atendido, Sigue, HilosOK
  <2>2. /\ \A d \in Cpu : PorPedir(d, p0)' <=> d # c /\ PorPedir(d, p0)
        /\ \A i \in Interfaz : PorMirar(i, p0)' <=> PorMirar(i, p0)
        /\ Limbo(p0)' <=> Limbo(p0)
        /\ PorPedir(c, p0) <=> p0 = sujeto[c]
    BY <1>12, <2>1 DEF PideIO, Atendido, Sigue, TipoHilos, PorPedir, PorMirar, Limbo, Hilo, Timer
  <2>3. CASE pide[c] \in conectadas
    <3>1. perdidos' = perdidos
      BY <1>12, <2>3 DEF PideIO
    <3>2. \A i \in Interfaz : p0 \in pedidos'[i] <=> p0 \in pedidos[i] \/ (i = pide[c] /\ p0 = sujeto[c])
      BY <1>12, <2>1, <2>3 DEF PideIO, TipoIO
    <3>3. QED
      BY <2>1, <2>2, <3>1, <3>2 DEF DespertarDe, Dormido, EnCamino, HayAviso
  <2>4. CASE pide[c] \notin conectadas
    <3>1. pedidos' = pedidos
      BY <1>12, <2>4 DEF PideIO
    <3>2. p0 \in perdidos' <=> p0 \in perdidos \/ p0 = sujeto[c]
      BY <1>12, <2>4 DEF PideIO
    <3>3. QED
      BY <2>1, <2>2, <3>1, <3>2 DEF DespertarDe, Dormido, EnCamino, HayAviso
  <2>5. QED
    BY <2>3, <2>4
<1>13. ASSUME NEW i \in Interfaz, Conecta(i) PROVE DespertarDe(p0)'
  BY <1>13 DEF Conecta, TipoColas, TipoHilos, TipoIO, TipoMemoria, HilosOK, BuclesOK,
     UnLugar, EnMano, Pcb, ConPcb, Hilo, Timer, Cola, FichaDe, EnInterfaz, PorPedir,
     PorMirar, DespertarDe, Dormido, EnCamino, Limbo, HayAviso, PendienteDe
<1>14. ASSUME NEW i \in Interfaz, Desconecta(i) PROVE DespertarDe(p0)'
  BY <1>14 DEF Desconecta, TipoColas, TipoHilos, TipoIO, TipoMemoria, HilosOK, BuclesOK,
     UnLugar, EnMano, Pcb, ConPcb, Hilo, Timer, Cola, FichaDe, EnInterfaz, PorPedir,
     PorMirar, DespertarDe, Dormido, EnCamino, Limbo, HayAviso, PendienteDe
<1>15. ASSUME NEW i \in Interfaz, NEW p \in Pid, RespondeIO(i, p) PROVE DespertarDe(p0)'
  BY <1>15 DEF RespondeIO, TipoColas, TipoHilos, TipoIO, TipoMemoria, HilosOK, BuclesOK,
     UnLugar, EnMano, Pcb, ConPcb, Hilo, Timer, Cola, FichaDe, EnInterfaz, PorPedir,
     PorMirar, DespertarDe, Dormido, EnCamino, Limbo, HayAviso, PendienteDe
<1>16. ASSUME NEW i \in Interfaz, NEW p \in Pid, RecibeFin(i, p) PROVE DespertarDe(p0)'
  <2>1. /\ pc[i] = "espera" /\ p \in respuestas[i]
        /\ UNCHANGED <<pending_wakeup, pedidos, perdidos>>
        /\ \A j \in Interfaz : p0 \in respuestas'[j] <=> p0 \in respuestas[j] /\ ~(j = i /\ p0 = p)
    BY <1>16 DEF RecibeFin, Sigue, RemueveDeBlock, Saca, TipoIO
  <2>2. /\ \A c \in Cpu : PorPedir(c, p0)' <=> PorPedir(c, p0)
        /\ Limbo(p0)' <=> Limbo(p0)
    BY <1>16, <2>1 DEF RecibeFin, Sigue, RemueveDeBlock, Saca, TipoHilos, PorPedir,
       PorMirar, Limbo, Hilo, Timer
  <2>3. CASE p \in cola["BLOCK"]
    <3>1. \A j \in Interfaz : PorMirar(j, p0)' <=> PorMirar(j, p0)
      BY <1>16, <2>1, <2>3 DEF RecibeFin, Sigue, RemueveDeBlock, Saca, TipoHilos, PorMirar, Hilo
    <3>2. /\ p0 \in cola'["BLOCK"] <=> p0 \in cola["BLOCK"] /\ p0 # p
          /\ p0 \in cola'["SUSP_BLOCK"] <=> p0 \in cola["SUSP_BLOCK"]
      BY <1>16, <2>3 DEF RecibeFin, Sigue, RemueveDeBlock, Saca, TipoColas, Cola
    <3>3. p0 = p => p0 \notin cola["SUSP_BLOCK"] /\ ~Limbo(p0)
      BY <2>3 DEF UnLugar, Limbo, EnMano, Pcb, ConPcb, Hilo, Cola
    <3>4. QED
      BY <2>1, <2>2, <3>1, <3>2, <3>3 DEF DespertarDe, Dormido, EnCamino, FichaDe,
         EnInterfaz, HayAviso
  <2>4. CASE p \notin cola["BLOCK"]
    <3>1. \A j \in Interfaz : PorMirar(j, p0)' <=> PorMirar(j, p0) \/ (j = i /\ p0 = p)
      BY <1>16, <2>1, <2>4 DEF RecibeFin, Sigue, RemueveDeBlock, Saca, TipoHilos, PorMirar, Hilo
    <3>2. cola' = cola
      BY <1>16, <2>4 DEF RecibeFin
    <3>3. QED
      BY <2>1, <2>2, <3>1, <3>2 DEF DespertarDe, Dormido, EnCamino, HayAviso
  <2>5. QED
    BY <2>3, <2>4
<1>17. ASSUME NEW i \in Interfaz, EscribeMemoria(i) PROVE DespertarDe(p0)'
  BY <1>17 DEF EscribeMemoria, Sigue, TipoColas, TipoHilos, TipoIO, TipoMemoria,
     HilosOK, BuclesOK, UnLugar, EnMano, Pcb, ConPcb, Hilo, Timer, Cola, FichaDe,
     EnInterfaz, PorPedir, PorMirar, DespertarDe, Dormido, EnCamino, Limbo, HayAviso,
     PendienteDe
<1>18. ASSUME NEW i \in Interfaz, Despierta(i) PROVE DespertarDe(p0)'
  BY <1>18 DEF Despierta, Mete, Atendido, Sigue, TipoColas, TipoHilos, TipoIO,
     TipoMemoria, HilosOK, BuclesOK, UnLugar, EnMano, Pcb, ConPcb, Hilo, Timer, Cola,
     FichaDe, EnInterfaz, PorPedir, PorMirar, DespertarDe, Dormido, EnCamino, Limbo,
     HayAviso, PendienteDe
<1>19. ASSUME NEW i \in Interfaz, MiraSuspendidos(i) PROVE DespertarDe(p0)'
  <2>1. /\ pc[i] = "mira_susp" /\ sujeto[i] \in Pid
        /\ UNCHANGED <<pedidos, respuestas, perdidos>>
    BY <1>19 DEF MiraSuspendidos, Sigue, Mueve, Atendido, AvisaAlTimer, HilosOK
  <2>2. /\ \A c \in Cpu : PorPedir(c, p0)' <=> PorPedir(c, p0)
        /\ \A j \in Interfaz : PorMirar(j, p0)' <=> j # i /\ PorMirar(j, p0)
        /\ Limbo(p0)' <=> Limbo(p0)
        /\ PorMirar(i, p0) <=> p0 = sujeto[i]
    BY <1>19, <2>1 DEF MiraSuspendidos, Sigue, Mueve, Atendido, AvisaAlTimer, TipoHilos,
       PorPedir, PorMirar, Limbo, Hilo, Timer
  <2>3. CASE sujeto[i] \in cola["SUSP_BLOCK"]
    <3>1. /\ pending_wakeup' = pending_wakeup
          /\ p0 \in cola'["BLOCK"] <=> p0 \in cola["BLOCK"]
          /\ p0 \in cola'["SUSP_BLOCK"] <=> p0 \in cola["SUSP_BLOCK"] /\ p0 # sujeto[i]
      BY <1>19, <2>3 DEF MiraSuspendidos, Mueve, TipoColas, Cola
    <3>2. Limbo(p0) => ~(p0 \in cola["SUSP_BLOCK"])
      BY DEF UnLugar, Limbo, EnMano, Pcb, ConPcb, Hilo, Cola
    <3>3. QED
      BY <2>1, <2>2, <2>3, <3>1, <3>2 DEF DespertarDe, Dormido, EnCamino, HayAviso,
         FichaDe, EnInterfaz
  <2>4. CASE sujeto[i] \notin cola["SUSP_BLOCK"]
    <3>1. cola' = cola /\ (HayAviso(p0)' <=> HayAviso(p0) \/ p0 = sujeto[i])
      BY <1>19, <2>1, <2>4 DEF MiraSuspendidos, AvisaAlTimer, HayAviso, TipoIO
    <3>2. QED
      BY <2>1, <2>2, <2>4, <3>1 DEF DespertarDe, Dormido, EnCamino, HayAviso, FichaDe, EnInterfaz
  <2>5. QED
    BY <2>3, <2>4
<1>20. ASSUME NEW t \in Timer, Vence(t) PROVE DespertarDe(p0)'
  BY <1>20 DEF Vence, Sigue, TipoColas, TipoHilos, TipoIO, TipoMemoria, HilosOK,
     BuclesOK, UnLugar, EnMano, Pcb, ConPcb, Hilo, Timer, Cola, FichaDe, EnInterfaz,
     PorPedir, PorMirar, DespertarDe, Dormido, EnCamino, Limbo, HayAviso, PendienteDe
<1>21. ASSUME NEW t \in Timer, SacaDeBlock(t) PROVE DespertarDe(p0)'
  BY <1>21 DEF SacaDeBlock, Sigue, RemueveDeBlock, Saca, TipoColas, TipoHilos, TipoIO,
     TipoMemoria, HilosOK, BuclesOK, UnLugar, EnMano, Pcb, ConPcb, Hilo, Timer, Cola,
     FichaDe, EnInterfaz, PorPedir, PorMirar, DespertarDe, Dormido, EnCamino, Limbo,
     HayAviso, PendienteDe
<1>22. ASSUME NEW t \in Timer, EscribeSwap(t) PROVE DespertarDe(p0)'
  BY <1>22 DEF EscribeSwap, Sigue, SwapEscritura, TipoColas, TipoHilos, TipoIO,
     TipoMemoria, HilosOK, BuclesOK, UnLugar, EnMano, Pcb, ConPcb, Hilo, Timer, Cola,
     FichaDe, EnInterfaz, PorPedir, PorMirar, DespertarDe, Dormido, EnCamino, Limbo,
     HayAviso, PendienteDe
<1>23. ASSUME NEW t \in Timer, DecideSuspension(t) PROVE DespertarDe(p0)'
  <2>1. /\ pc[t] = "en_swap" /\ t[1] \in Pid
        /\ UNCHANGED <<sujeto, pedidos, respuestas, perdidos>>
    BY <1>23 DEF DecideSuspension, Sigue, Mete, TomaAviso, HayAviso, Timer
  <2>2. /\ \A c \in Cpu : PorPedir(c, p0)' <=> PorPedir(c, p0)
        /\ \A i \in Interfaz : PorMirar(i, p0)' <=> PorMirar(i, p0)
    BY <1>23, <2>1 DEF DecideSuspension, Sigue, Mete, TomaAviso, HayAviso, TipoHilos,
       PorPedir, PorMirar, Limbo, Hilo
  <2>3. p0 = t[1] => Limbo(p0) /\ ~Limbo(p0)' /\ p0 \notin cola["BLOCK"] \cup cola["SUSP_BLOCK"]
    BY <1>23, <2>1 DEF DecideSuspension, Sigue, Mete, TomaAviso, HayAviso, TipoHilos,
       Limbo, UnLugar, EnMano, Pcb, ConPcb, Hilo, Cola
  <2>4. p0 # t[1] => (Limbo(p0)' <=> Limbo(p0))
    BY <1>23, <2>1 DEF DecideSuspension, Sigue, Mete, TomaAviso, HayAviso, TipoHilos, Limbo, Hilo
  <2>5. CASE HayAviso(t[1])
    <3>1. /\ p0 \in cola'["BLOCK"] <=> p0 \in cola["BLOCK"]
          /\ p0 \in cola'["SUSP_BLOCK"] <=> p0 \in cola["SUSP_BLOCK"]
          /\ p0 # t[1] => (HayAviso(p0)' <=> HayAviso(p0))
      BY <1>23, <2>1, <2>5 DEF DecideSuspension, TomaAviso, HayAviso, Mete, TipoColas, TipoIO, Cola
    <3>2. QED
      BY <2>1, <2>2, <2>3, <2>4, <2>5, <3>1 DEF DespertarDe, Dormido, EnCamino
  <2>6. CASE ~HayAviso(t[1])
    <3>1. /\ pending_wakeup' = pending_wakeup
          /\ p0 \in cola'["BLOCK"] <=> p0 \in cola["BLOCK"]
          /\ p0 \in cola'["SUSP_BLOCK"] <=> p0 \in cola["SUSP_BLOCK"] \/ p0 = t[1]
      BY <1>23, <2>6 DEF DecideSuspension, Mete, TipoColas, Cola
    <3>2. QED
      BY <2>1, <2>2, <2>3, <2>4, <2>6, <3>1 DEF DespertarDe, Dormido, EnCamino, HayAviso
  <2>7. QED
    BY <2>5, <2>6
<1>24. ASSUME NEW h \in Hilo, EntraDesuspender(h) PROVE DespertarDe(p0)'
  BY <1>24 DEF EntraDesuspender, TipoColas, TipoHilos, TipoIO, TipoMemoria, HilosOK,
     BuclesOK, UnLugar, EnMano, Pcb, ConPcb, Hilo, Timer, Cola, FichaDe, EnInterfaz,
     PorPedir, PorMirar, DespertarDe, Dormido, EnCamino, Limbo, HayAviso, PendienteDe
<1>25. ASSUME NEW h \in Hilo, NEW p \in Pid, Desuspende(h, p) PROVE DespertarDe(p0)'
  BY <1>25 DEF Desuspende, Mueve, Cabe, SwapLectura, Siguiente, TipoColas, TipoHilos,
     TipoIO, TipoMemoria, HilosOK, BuclesOK, UnLugar, EnMano, Pcb, ConPcb, Hilo, Timer,
     Cola, FichaDe, EnInterfaz, PorPedir, PorMirar, DespertarDe, Dormido, EnCamino,
     Limbo, HayAviso, PendienteDe
<1>26. ASSUME NEW h \in Hilo, SaleDesuspender(h) PROVE DespertarDe(p0)'
  BY <1>26 DEF SaleDesuspender, Sigue, TipoColas, TipoHilos, TipoIO, TipoMemoria,
     HilosOK, BuclesOK, UnLugar, EnMano, Pcb, ConPcb, Hilo, Timer, Cola, FichaDe,
     EnInterfaz, PorPedir, PorMirar, DespertarDe, Dormido, EnCamino, Limbo, HayAviso,
     PendienteDe
<1>27. ASSUME NEW h \in Hilo, EntraReintentar(h) PROVE DespertarDe(p0)'
  BY <1>27 DEF EntraReintentar, TipoColas, TipoHilos, TipoIO, TipoMemoria, HilosOK,
     BuclesOK, UnLugar, EnMano, Pcb, ConPcb, Hilo, Timer, Cola, FichaDe, EnInterfaz,
     PorPedir, PorMirar, DespertarDe, Dormido, EnCamino, Limbo, HayAviso, PendienteDe
<1>28. ASSUME NEW h \in Hilo, NEW p \in Pid, Reintenta(h, p) PROVE DespertarDe(p0)'
  BY <1>28 DEF Reintenta, Mueve, TipoColas, TipoHilos, TipoIO, TipoMemoria, HilosOK,
     BuclesOK, UnLugar, EnMano, Pcb, ConPcb, Hilo, Timer, Cola, FichaDe, EnInterfaz,
     PorPedir, PorMirar, DespertarDe, Dormido, EnCamino, Limbo, HayAviso, PendienteDe
<1>29. ASSUME NEW h \in Hilo, SaleReintentar(h) PROVE DespertarDe(p0)'
  <2>1. UNCHANGED <<cola, pending_wakeup, pedidos, respuestas, perdidos>>
    BY <1>29 DEF SaleReintentar, Termina, Sigue, Atendido
  <2>2. /\ \A d \in Cpu : PorPedir(d, p0)' <=> PorPedir(d, p0)
        /\ \A i \in Interfaz : PorMirar(i, p0)' <=> PorMirar(i, p0)
        /\ Limbo(p0)' <=> Limbo(p0)
    BY <1>29 DEF SaleReintentar, Termina, Sigue, Atendido, TipoColas, TipoHilos,
       TipoMemoria, HilosOK, PorPedir, PorMirar, Limbo, Hilo, Timer
  <2>3. QED
    BY <2>1, <2>2 DEF DespertarDe, Dormido, EnCamino, HayAviso
<1>30. CASE UNCHANGED vars
  BY <1>30 DEF vars, TipoColas, TipoHilos, TipoIO, TipoMemoria, HilosOK, BuclesOK,
     UnLugar, EnMano, Pcb, ConPcb, Hilo, Timer, Cola, FichaDe, EnInterfaz, PorPedir,
     PorMirar, DespertarDe, Dormido, EnCamino, Limbo, HayAviso, PendienteDe
<1>31. QED
  BY <1>1, <1>2, <1>3, <1>4, <1>5, <1>6, <1>7, <1>8, <1>9, <1>10, <1>11, <1>12, <1>13,
     <1>14, <1>15, <1>16, <1>17, <1>18, <1>19, <1>20, <1>21, <1>22, <1>23, <1>24, <1>25,
     <1>26, <1>27, <1>28, <1>29, <1>30 DEF Next, Planificador, HiloCpu, HiloInterfaz,
     HiloTimer, Bucles, TodoTerminado, Hilo

\* The flag is raised only for a process in the hands of its timer, which lowers it.
LEMMA PendienteNext ==
    Tipos /\ BuclesOK /\ UnSoloLugar /\ FichaUnica /\ NingunDespertarPerdido /\
       PendienteSoloEnLimbo /\ [Next]_vars => PendienteSoloEnLimbo'
<1> SUFFICES ASSUME TipoColas, TipoHilos, TipoIO, TipoMemoria, HilosOK, BuclesOK, [Next]_vars,
                    NEW p0 \in Pid, UnLugar(p0), FichaDe(p0), DespertarDe(p0), PendienteDe(p0)
             PROVE PendienteDe(p0)'
  BY DEF Tipos, TypeOK, UnSoloLugar, FichaUnica, NingunDespertarPerdido,
     PendienteSoloEnLimbo, ResidenciaCoherente, DespertarDe, PendienteDe
<1> USE Disjuntos, NadieAssumption, LlamadasAssumption DEF NadieAssumption, LlamadasAssumption,
        colas, hilos, relojes, io, susp, espera, memoria
<1>1. ASSUME NEW c \in Cpu, NEW p \in Pid, Despacha(c, p) PROVE PendienteDe(p0)'
  BY <1>1 DEF Despacha, Saca, TipoColas, TipoHilos, TipoIO, TipoMemoria, HilosOK,
     BuclesOK, UnLugar, EnMano, Pcb, ConPcb, Hilo, Timer, Cola, FichaDe, EnInterfaz,
     PorPedir, PorMirar, DespertarDe, Dormido, EnCamino, Limbo, HayAviso, PendienteDe
<1>2. ASSUME NEW c \in Cpu, CpuRetorna(c) PROVE PendienteDe(p0)'
  BY <1>2 DEF CpuRetorna, Sigue, TipoColas, TipoHilos, TipoIO, TipoMemoria, HilosOK,
     BuclesOK, UnLugar, EnMano, Pcb, ConPcb, Hilo, Timer, Cola, FichaDe, EnInterfaz,
     PorPedir, PorMirar, DespertarDe, Dormido, EnCamino, Limbo, HayAviso, PendienteDe
<1>3. ASSUME NEW c \in Cpu, VuelveAReady(c) PROVE PendienteDe(p0)'
  BY <1>3 DEF VuelveAReady, Mete, Atendido, Sigue, TipoColas, TipoHilos, TipoIO,
     TipoMemoria, HilosOK, BuclesOK, UnLugar, EnMano, Pcb, ConPcb, Hilo, Timer, Cola,
     FichaDe, EnInterfaz, PorPedir, PorMirar, DespertarDe, Dormido, EnCamino, Limbo,
     HayAviso, PendienteDe
<1>4. ASSUME NEW c \in Cpu, Sale(c) PROVE PendienteDe(p0)'
  BY <1>4 DEF Sale, Sigue, Mete, LiberaTodo, TipoColas, TipoHilos, TipoIO, TipoMemoria,
     HilosOK, BuclesOK, UnLugar, EnMano, Pcb, ConPcb, Hilo, Timer, Cola, FichaDe,
     EnInterfaz, PorPedir, PorMirar, DespertarDe, Dormido, EnCamino, Limbo, HayAviso,
     PendienteDe
<1>5. ASSUME NEW c \in Cpu, InitProc(c) PROVE PendienteDe(p0)'
  BY <1>5 DEF InitProc, Sigue, Mueve, TipoColas, TipoHilos, TipoIO, TipoMemoria,
     HilosOK, BuclesOK, UnLugar, EnMano, Pcb, ConPcb, Hilo, Timer, Cola, FichaDe,
     EnInterfaz, PorPedir, PorMirar, DespertarDe, Dormido, EnCamino, Limbo, HayAviso,
     PendienteDe
<1>6. ASSUME NEW c \in Cpu, MemAlloc(c) PROVE PendienteDe(p0)'
  BY <1>6 DEF MemAlloc, Sigue, TipoColas, TipoHilos, TipoIO, TipoMemoria, HilosOK,
     BuclesOK, UnLugar, EnMano, Pcb, ConPcb, Hilo, Timer, Cola, FichaDe, EnInterfaz,
     PorPedir, PorMirar, DespertarDe, Dormido, EnCamino, Limbo, HayAviso, PendienteDe
<1>7. ASSUME NEW c \in Cpu, EsperaMemoria(c) PROVE PendienteDe(p0)'
  BY <1>7 DEF EsperaMemoria, Mete, Atendido, Sigue, TipoColas, TipoHilos, TipoIO,
     TipoMemoria, HilosOK, BuclesOK, UnLugar, EnMano, Pcb, ConPcb, Hilo, Timer, Cola,
     FichaDe, EnInterfaz, PorPedir, PorMirar, DespertarDe, Dormido, EnCamino, Limbo,
     HayAviso, PendienteDe
<1>8. ASSUME NEW c \in Cpu, MemFree(c) PROVE PendienteDe(p0)'
  BY <1>8 DEF MemFree, Sigue, TipoColas, TipoHilos, TipoIO, TipoMemoria, HilosOK,
     BuclesOK, UnLugar, EnMano, Pcb, ConPcb, Hilo, Timer, Cola, FichaDe, EnInterfaz,
     PorPedir, PorMirar, DespertarDe, Dormido, EnCamino, Limbo, HayAviso, PendienteDe
<1>9. ASSUME NEW c \in Cpu, EntraABlock(c) PROVE PendienteDe(p0)'
  BY <1>9 DEF EntraABlock, Sigue, Mete, TipoColas, TipoHilos, TipoIO, TipoMemoria,
     HilosOK, BuclesOK, UnLugar, EnMano, Pcb, ConPcb, Hilo, Timer, Cola, FichaDe,
     EnInterfaz, PorPedir, PorMirar, DespertarDe, Dormido, EnCamino, Limbo, HayAviso,
     PendienteDe
<1>10. ASSUME NEW c \in Cpu, LanzaTimer(c) PROVE PendienteDe(p0)'
  <2>1. UNCHANGED <<cola, exec, sujeto, pending_wakeup, pedidos, respuestas, perdidos>>
    BY <1>10 DEF LanzaTimer
  <2>2. /\ \A d \in Cpu : PorPedir(d, p0)' <=> PorPedir(d, p0)
        /\ \A i \in Interfaz : PorMirar(i, p0)' <=> PorMirar(i, p0)
    BY <1>10, <2>1, LanzaPc DEF Tipos, TypeOK, PorPedir, PorMirar, Hilo
  <2>3. Limbo(p0)' <=> Limbo(p0)
    BY <1>10, <2>1, LanzaPc DEF Tipos, TypeOK, Limbo, Hilo
  <2>4. QED
    BY <2>1, <2>2, <2>3 DEF PendienteDe, HayAviso
<1>11. ASSUME NEW c \in Cpu, LeeMemoria(c) PROVE PendienteDe(p0)'
  BY <1>11 DEF LeeMemoria, Sigue, TipoColas, TipoHilos, TipoIO, TipoMemoria, HilosOK,
     BuclesOK, UnLugar, EnMano, Pcb, ConPcb, Hilo, Timer, Cola, FichaDe, EnInterfaz,
     PorPedir, PorMirar, DespertarDe, Dormido, EnCamino, Limbo, HayAviso, PendienteDe
<1>12. ASSUME NEW c \in Cpu, PideIO(c) PROVE PendienteDe(p0)'
  <2>1. CASE pide[c] \in conectadas
    BY <1>12, <2>1 DEF PideIO, Atendido, Sigue, TipoColas, TipoHilos, TipoIO,
       TipoMemoria, HilosOK, BuclesOK, UnLugar, EnMano, Pcb, ConPcb, Hilo, Timer, Cola,
       FichaDe, EnInterfaz, PorPedir, PorMirar, DespertarDe, Dormido, EnCamino, Limbo,
       HayAviso, PendienteDe
  <2>2. CASE ~(pide[c] \in conectadas)
    BY <1>12, <2>2 DEF PideIO, Atendido, Sigue, TipoColas, TipoHilos, TipoIO,
       TipoMemoria, HilosOK, BuclesOK, UnLugar, EnMano, Pcb, ConPcb, Hilo, Timer, Cola,
       FichaDe, EnInterfaz, PorPedir, PorMirar, DespertarDe, Dormido, EnCamino, Limbo,
       HayAviso, PendienteDe
  <2>3. QED
    BY <2>1, <2>2
<1>13. ASSUME NEW i \in Interfaz, Conecta(i) PROVE PendienteDe(p0)'
  BY <1>13 DEF Conecta, TipoColas, TipoHilos, TipoIO, TipoMemoria, HilosOK, BuclesOK,
     UnLugar, EnMano, Pcb, ConPcb, Hilo, Timer, Cola, FichaDe, EnInterfaz, PorPedir,
     PorMirar, DespertarDe, Dormido, EnCamino, Limbo, HayAviso, PendienteDe
<1>14. ASSUME NEW i \in Interfaz, Desconecta(i) PROVE PendienteDe(p0)'
  BY <1>14 DEF Desconecta, TipoColas, TipoHilos, TipoIO, TipoMemoria, HilosOK, BuclesOK,
     UnLugar, EnMano, Pcb, ConPcb, Hilo, Timer, Cola, FichaDe, EnInterfaz, PorPedir,
     PorMirar, DespertarDe, Dormido, EnCamino, Limbo, HayAviso, PendienteDe
<1>15. ASSUME NEW i \in Interfaz, NEW p \in Pid, RespondeIO(i, p) PROVE PendienteDe(p0)'
  BY <1>15 DEF RespondeIO, TipoColas, TipoHilos, TipoIO, TipoMemoria, HilosOK, BuclesOK,
     UnLugar, EnMano, Pcb, ConPcb, Hilo, Timer, Cola, FichaDe, EnInterfaz, PorPedir,
     PorMirar, DespertarDe, Dormido, EnCamino, Limbo, HayAviso, PendienteDe
<1>16. ASSUME NEW i \in Interfaz, NEW p \in Pid, RecibeFin(i, p) PROVE PendienteDe(p0)'
  BY <1>16 DEF RecibeFin, Sigue, RemueveDeBlock, Saca, TipoColas, TipoHilos, TipoIO,
     TipoMemoria, HilosOK, BuclesOK, UnLugar, EnMano, Pcb, ConPcb, Hilo, Timer, Cola,
     FichaDe, EnInterfaz, PorPedir, PorMirar, DespertarDe, Dormido, EnCamino, Limbo,
     HayAviso, PendienteDe
<1>17. ASSUME NEW i \in Interfaz, EscribeMemoria(i) PROVE PendienteDe(p0)'
  BY <1>17 DEF EscribeMemoria, Sigue, TipoColas, TipoHilos, TipoIO, TipoMemoria,
     HilosOK, BuclesOK, UnLugar, EnMano, Pcb, ConPcb, Hilo, Timer, Cola, FichaDe,
     EnInterfaz, PorPedir, PorMirar, DespertarDe, Dormido, EnCamino, Limbo, HayAviso,
     PendienteDe
<1>18. ASSUME NEW i \in Interfaz, Despierta(i) PROVE PendienteDe(p0)'
  BY <1>18 DEF Despierta, Mete, Atendido, Sigue, TipoColas, TipoHilos, TipoIO,
     TipoMemoria, HilosOK, BuclesOK, UnLugar, EnMano, Pcb, ConPcb, Hilo, Timer, Cola,
     FichaDe, EnInterfaz, PorPedir, PorMirar, DespertarDe, Dormido, EnCamino, Limbo,
     HayAviso, PendienteDe
<1>19. ASSUME NEW i \in Interfaz, MiraSuspendidos(i) PROVE PendienteDe(p0)'
  <2>1. CASE sujeto[i] \in cola["SUSP_BLOCK"]
    BY <1>19, <2>1 DEF MiraSuspendidos, Sigue, Mueve, Atendido, AvisaAlTimer, TipoColas,
       TipoHilos, TipoIO, TipoMemoria, HilosOK, BuclesOK, UnLugar, EnMano, Pcb, ConPcb,
       Hilo, Timer, Cola, FichaDe, EnInterfaz, PorPedir, PorMirar, DespertarDe, Dormido,
       EnCamino, Limbo, HayAviso, PendienteDe
  <2>2. CASE ~(sujeto[i] \in cola["SUSP_BLOCK"])
    BY <1>19, <2>2 DEF MiraSuspendidos, Sigue, Mueve, Atendido, AvisaAlTimer, TipoColas,
       TipoHilos, TipoIO, TipoMemoria, HilosOK, BuclesOK, UnLugar, EnMano, Pcb, ConPcb,
       Hilo, Timer, Cola, FichaDe, EnInterfaz, PorPedir, PorMirar, DespertarDe, Dormido,
       EnCamino, Limbo, HayAviso, PendienteDe
  <2>3. QED
    BY <2>1, <2>2
<1>20. ASSUME NEW t \in Timer, Vence(t) PROVE PendienteDe(p0)'
  BY <1>20 DEF Vence, Sigue, TipoColas, TipoHilos, TipoIO, TipoMemoria, HilosOK,
     BuclesOK, UnLugar, EnMano, Pcb, ConPcb, Hilo, Timer, Cola, FichaDe, EnInterfaz,
     PorPedir, PorMirar, DespertarDe, Dormido, EnCamino, Limbo, HayAviso, PendienteDe
<1>21. ASSUME NEW t \in Timer, SacaDeBlock(t) PROVE PendienteDe(p0)'
  BY <1>21 DEF SacaDeBlock, Sigue, RemueveDeBlock, Saca, TipoColas, TipoHilos, TipoIO,
     TipoMemoria, HilosOK, BuclesOK, UnLugar, EnMano, Pcb, ConPcb, Hilo, Timer, Cola,
     FichaDe, EnInterfaz, PorPedir, PorMirar, DespertarDe, Dormido, EnCamino, Limbo,
     HayAviso, PendienteDe
<1>22. ASSUME NEW t \in Timer, EscribeSwap(t) PROVE PendienteDe(p0)'
  BY <1>22 DEF EscribeSwap, Sigue, SwapEscritura, TipoColas, TipoHilos, TipoIO,
     TipoMemoria, HilosOK, BuclesOK, UnLugar, EnMano, Pcb, ConPcb, Hilo, Timer, Cola,
     FichaDe, EnInterfaz, PorPedir, PorMirar, DespertarDe, Dormido, EnCamino, Limbo,
     HayAviso, PendienteDe
<1>23. ASSUME NEW t \in Timer, DecideSuspension(t) PROVE PendienteDe(p0)'
  <2>1. CASE HayAviso(t[1])
    BY <1>23, <2>1 DEF DecideSuspension, Sigue, Mete, TomaAviso, HayAviso, TipoColas,
       TipoHilos, TipoIO, TipoMemoria, HilosOK, BuclesOK, UnLugar, EnMano, Pcb, ConPcb,
       Hilo, Timer, Cola, FichaDe, EnInterfaz, PorPedir, PorMirar, DespertarDe, Dormido,
       EnCamino, Limbo, HayAviso, PendienteDe
  <2>2. CASE ~(HayAviso(t[1]))
    BY <1>23, <2>2 DEF DecideSuspension, Sigue, Mete, TomaAviso, HayAviso, TipoColas,
       TipoHilos, TipoIO, TipoMemoria, HilosOK, BuclesOK, UnLugar, EnMano, Pcb, ConPcb,
       Hilo, Timer, Cola, FichaDe, EnInterfaz, PorPedir, PorMirar, DespertarDe, Dormido,
       EnCamino, Limbo, HayAviso, PendienteDe
  <2>3. QED
    BY <2>1, <2>2
<1>24. ASSUME NEW h \in Hilo, EntraDesuspender(h) PROVE PendienteDe(p0)'
  BY <1>24 DEF EntraDesuspender, TipoColas, TipoHilos, TipoIO, TipoMemoria, HilosOK,
     BuclesOK, UnLugar, EnMano, Pcb, ConPcb, Hilo, Timer, Cola, FichaDe, EnInterfaz,
     PorPedir, PorMirar, DespertarDe, Dormido, EnCamino, Limbo, HayAviso, PendienteDe
<1>25. ASSUME NEW h \in Hilo, NEW p \in Pid, Desuspende(h, p) PROVE PendienteDe(p0)'
  BY <1>25 DEF Desuspende, Mueve, Cabe, SwapLectura, Siguiente, TipoColas, TipoHilos,
     TipoIO, TipoMemoria, HilosOK, BuclesOK, UnLugar, EnMano, Pcb, ConPcb, Hilo, Timer,
     Cola, FichaDe, EnInterfaz, PorPedir, PorMirar, DespertarDe, Dormido, EnCamino,
     Limbo, HayAviso, PendienteDe
<1>26. ASSUME NEW h \in Hilo, SaleDesuspender(h) PROVE PendienteDe(p0)'
  BY <1>26 DEF SaleDesuspender, Sigue, TipoColas, TipoHilos, TipoIO, TipoMemoria,
     HilosOK, BuclesOK, UnLugar, EnMano, Pcb, ConPcb, Hilo, Timer, Cola, FichaDe,
     EnInterfaz, PorPedir, PorMirar, DespertarDe, Dormido, EnCamino, Limbo, HayAviso,
     PendienteDe
<1>27. ASSUME NEW h \in Hilo, EntraReintentar(h) PROVE PendienteDe(p0)'
  BY <1>27 DEF EntraReintentar, TipoColas, TipoHilos, TipoIO, TipoMemoria, HilosOK,
     BuclesOK, UnLugar, EnMano, Pcb, ConPcb, Hilo, Timer, Cola, FichaDe, EnInterfaz,
     PorPedir, PorMirar, DespertarDe, Dormido, EnCamino, Limbo, HayAviso, PendienteDe
<1>28. ASSUME NEW h \in Hilo, NEW p \in Pid, Reintenta(h, p) PROVE PendienteDe(p0)'
  BY <1>28 DEF Reintenta, Mueve, TipoColas, TipoHilos, TipoIO, TipoMemoria, HilosOK,
     BuclesOK, UnLugar, EnMano, Pcb, ConPcb, Hilo, Timer, Cola, FichaDe, EnInterfaz,
     PorPedir, PorMirar, DespertarDe, Dormido, EnCamino, Limbo, HayAviso, PendienteDe
<1>29. ASSUME NEW h \in Hilo, SaleReintentar(h) PROVE PendienteDe(p0)'
  <2>1. CASE h \in Timer
    BY <1>29, <2>1 DEF SaleReintentar, Termina, Sigue, Atendido, TipoColas, TipoHilos,
       TipoIO, TipoMemoria, HilosOK, BuclesOK, UnLugar, EnMano, Pcb, ConPcb, Hilo,
       Timer, Cola, FichaDe, EnInterfaz, PorPedir, PorMirar, DespertarDe, Dormido,
       EnCamino, Limbo, HayAviso, PendienteDe
  <2>2. CASE ~(h \in Timer)
    BY <1>29, <2>2 DEF SaleReintentar, Termina, Sigue, Atendido, TipoColas, TipoHilos,
       TipoIO, TipoMemoria, HilosOK, BuclesOK, UnLugar, EnMano, Pcb, ConPcb, Hilo,
       Timer, Cola, FichaDe, EnInterfaz, PorPedir, PorMirar, DespertarDe, Dormido,
       EnCamino, Limbo, HayAviso, PendienteDe
  <2>3. QED
    BY <2>1, <2>2
<1>30. CASE UNCHANGED vars
  BY <1>30 DEF vars, TipoColas, TipoHilos, TipoIO, TipoMemoria, HilosOK, BuclesOK,
     UnLugar, EnMano, Pcb, ConPcb, Hilo, Timer, Cola, FichaDe, EnInterfaz, PorPedir,
     PorMirar, DespertarDe, Dormido, EnCamino, Limbo, HayAviso, PendienteDe
<1>31. QED
  BY <1>1, <1>2, <1>3, <1>4, <1>5, <1>6, <1>7, <1>8, <1>9, <1>10, <1>11, <1>12, <1>13,
     <1>14, <1>15, <1>16, <1>17, <1>18, <1>19, <1>20, <1>21, <1>22, <1>23, <1>24, <1>25,
     <1>26, <1>27, <1>28, <1>29, <1>30 DEF Next, Planificador, HiloCpu, HiloInterfaz,
     HiloTimer, Bucles, TodoTerminado, Hilo

\* SWAP_ESCRITURA and SWAP_LECTURA go with the moves between the lists.
LEMMA ResidenciaNext ==
    Tipos /\ BuclesOK /\ UnSoloLugar /\ ResidenciaCoherente /\ [Next]_vars =>
       ResidenciaCoherente'
<1> SUFFICES ASSUME TipoColas, TipoHilos, TipoIO, TipoMemoria, HilosOK, BuclesOK, [Next]_vars,
                    NEW p0 \in Pid, UnLugar(p0), ResidenciaDe(p0)
             PROVE ResidenciaDe(p0)'
  BY DEF Tipos, TypeOK, UnSoloLugar, FichaUnica, NingunDespertarPerdido,
     PendienteSoloEnLimbo, ResidenciaCoherente, DespertarDe, PendienteDe, ResidenciaDe
<1> USE Disjuntos, NadieAssumption, LlamadasAssumption DEF NadieAssumption, LlamadasAssumption,
        colas, hilos, relojes, io, susp, espera, memoria
<1>1. ASSUME NEW c \in Cpu, NEW p \in Pid, Despacha(c, p) PROVE ResidenciaDe(p0)'
  BY <1>1 DEF Despacha, Saca, TipoColas, TipoHilos, TipoMemoria, HilosOK, BuclesOK,
     UnLugar, EnMano, Pcb, ConPcb, Hilo, Timer, Cola, ResidenciaDe
<1>2. ASSUME NEW c \in Cpu, CpuRetorna(c) PROVE ResidenciaDe(p0)'
  BY <1>2 DEF CpuRetorna, Sigue, TipoColas, TipoHilos, TipoMemoria, HilosOK, BuclesOK,
     UnLugar, EnMano, Pcb, ConPcb, Hilo, Timer, Cola, ResidenciaDe
<1>3. ASSUME NEW c \in Cpu, VuelveAReady(c) PROVE ResidenciaDe(p0)'
  BY <1>3 DEF VuelveAReady, Mete, Atendido, Sigue, TipoColas, TipoHilos, TipoMemoria,
     HilosOK, BuclesOK, UnLugar, EnMano, Pcb, ConPcb, Hilo, Timer, Cola, ResidenciaDe
<1>4. ASSUME NEW c \in Cpu, Sale(c) PROVE ResidenciaDe(p0)'
  BY <1>4 DEF Sale, Sigue, Mete, LiberaTodo, TipoColas, TipoHilos, TipoMemoria, HilosOK,
     BuclesOK, UnLugar, EnMano, Pcb, ConPcb, Hilo, Timer, Cola, ResidenciaDe
<1>5. ASSUME NEW c \in Cpu, InitProc(c) PROVE ResidenciaDe(p0)'
  BY <1>5 DEF InitProc, Sigue, Mueve, TipoColas, TipoHilos, TipoMemoria, HilosOK,
     BuclesOK, UnLugar, EnMano, Pcb, ConPcb, Hilo, Timer, Cola, ResidenciaDe
<1>6. ASSUME NEW c \in Cpu, MemAlloc(c) PROVE ResidenciaDe(p0)'
  BY <1>6 DEF MemAlloc, Sigue, TipoColas, TipoHilos, TipoMemoria, HilosOK, BuclesOK,
     UnLugar, EnMano, Pcb, ConPcb, Hilo, Timer, Cola, ResidenciaDe
<1>7. ASSUME NEW c \in Cpu, EsperaMemoria(c) PROVE ResidenciaDe(p0)'
  BY <1>7 DEF EsperaMemoria, Mete, Atendido, Sigue, TipoColas, TipoHilos, TipoMemoria,
     HilosOK, BuclesOK, UnLugar, EnMano, Pcb, ConPcb, Hilo, Timer, Cola, ResidenciaDe
<1>8. ASSUME NEW c \in Cpu, MemFree(c) PROVE ResidenciaDe(p0)'
  BY <1>8 DEF MemFree, Sigue, TipoColas, TipoHilos, TipoMemoria, HilosOK, BuclesOK,
     UnLugar, EnMano, Pcb, ConPcb, Hilo, Timer, Cola, ResidenciaDe
<1>9. ASSUME NEW c \in Cpu, EntraABlock(c) PROVE ResidenciaDe(p0)'
  BY <1>9 DEF EntraABlock, Sigue, Mete, TipoColas, TipoHilos, TipoMemoria, HilosOK,
     BuclesOK, UnLugar, EnMano, Pcb, ConPcb, Hilo, Timer, Cola, ResidenciaDe
<1>10. ASSUME NEW c \in Cpu, LanzaTimer(c) PROVE ResidenciaDe(p0)'
  <2>1. UNCHANGED <<cola, en_swap>>
    BY <1>10 DEF LanzaTimer
  <2>2. \A t \in Timer : pc'[t] = "en_swap" <=> pc[t] = "en_swap"
    BY <1>10, LanzaPc DEF Tipos, TypeOK, Hilo
  <2>3. QED
    BY <2>1, <2>2 DEF ResidenciaDe
<1>11. ASSUME NEW c \in Cpu, LeeMemoria(c) PROVE ResidenciaDe(p0)'
  BY <1>11 DEF LeeMemoria, Sigue, TipoColas, TipoHilos, TipoMemoria, HilosOK, BuclesOK,
     UnLugar, EnMano, Pcb, ConPcb, Hilo, Timer, Cola, ResidenciaDe
<1>12. ASSUME NEW c \in Cpu, PideIO(c) PROVE ResidenciaDe(p0)'
  BY <1>12 DEF PideIO, Atendido, Sigue, TipoColas, TipoHilos, TipoMemoria, HilosOK,
     BuclesOK, UnLugar, EnMano, Pcb, ConPcb, Hilo, Timer, Cola, ResidenciaDe
<1>13. ASSUME NEW i \in Interfaz, Conecta(i) PROVE ResidenciaDe(p0)'
  BY <1>13 DEF Conecta, TipoColas, TipoHilos, TipoMemoria, HilosOK, BuclesOK, UnLugar,
     EnMano, Pcb, ConPcb, Hilo, Timer, Cola, ResidenciaDe
<1>14. ASSUME NEW i \in Interfaz, Desconecta(i) PROVE ResidenciaDe(p0)'
  BY <1>14 DEF Desconecta, TipoColas, TipoHilos, TipoMemoria, HilosOK, BuclesOK,
     UnLugar, EnMano, Pcb, ConPcb, Hilo, Timer, Cola, ResidenciaDe
<1>15. ASSUME NEW i \in Interfaz, NEW p \in Pid, RespondeIO(i, p) PROVE ResidenciaDe(p0)'
  BY <1>15 DEF RespondeIO, TipoColas, TipoHilos, TipoMemoria, HilosOK, BuclesOK,
     UnLugar, EnMano, Pcb, ConPcb, Hilo, Timer, Cola, ResidenciaDe
<1>16. ASSUME NEW i \in Interfaz, NEW p \in Pid, RecibeFin(i, p) PROVE ResidenciaDe(p0)'
  BY <1>16 DEF RecibeFin, Sigue, RemueveDeBlock, Saca, TipoColas, TipoHilos,
     TipoMemoria, HilosOK, BuclesOK, UnLugar, EnMano, Pcb, ConPcb, Hilo, Timer, Cola,
     ResidenciaDe
<1>17. ASSUME NEW i \in Interfaz, EscribeMemoria(i) PROVE ResidenciaDe(p0)'
  BY <1>17 DEF EscribeMemoria, Sigue, TipoColas, TipoHilos, TipoMemoria, HilosOK,
     BuclesOK, UnLugar, EnMano, Pcb, ConPcb, Hilo, Timer, Cola, ResidenciaDe
<1>18. ASSUME NEW i \in Interfaz, Despierta(i) PROVE ResidenciaDe(p0)'
  BY <1>18 DEF Despierta, Mete, Atendido, Sigue, TipoColas, TipoHilos, TipoMemoria,
     HilosOK, BuclesOK, UnLugar, EnMano, Pcb, ConPcb, Hilo, Timer, Cola, ResidenciaDe
<1>19. ASSUME NEW i \in Interfaz, MiraSuspendidos(i) PROVE ResidenciaDe(p0)'
  BY <1>19 DEF MiraSuspendidos, Sigue, Mueve, Atendido, AvisaAlTimer, TipoColas,
     TipoHilos, TipoMemoria, HilosOK, BuclesOK, UnLugar, EnMano, Pcb, ConPcb, Hilo,
     Timer, Cola, ResidenciaDe
<1>20. ASSUME NEW t \in Timer, Vence(t) PROVE ResidenciaDe(p0)'
  BY <1>20 DEF Vence, Sigue, TipoColas, TipoHilos, TipoMemoria, HilosOK, BuclesOK,
     UnLugar, EnMano, Pcb, ConPcb, Hilo, Timer, Cola, ResidenciaDe
<1>21. ASSUME NEW t \in Timer, SacaDeBlock(t) PROVE ResidenciaDe(p0)'
  BY <1>21 DEF SacaDeBlock, Sigue, RemueveDeBlock, Saca, TipoColas, TipoHilos,
     TipoMemoria, HilosOK, BuclesOK, UnLugar, EnMano, Pcb, ConPcb, Hilo, Timer, Cola,
     ResidenciaDe
<1>22. ASSUME NEW t \in Timer, EscribeSwap(t) PROVE ResidenciaDe(p0)'
  BY <1>22 DEF EscribeSwap, Sigue, SwapEscritura, TipoColas, TipoHilos, TipoMemoria,
     HilosOK, BuclesOK, UnLugar, EnMano, Pcb, ConPcb, Hilo, Timer, Cola, ResidenciaDe
<1>23. ASSUME NEW t \in Timer, DecideSuspension(t) PROVE ResidenciaDe(p0)'
  BY <1>23 DEF DecideSuspension, Sigue, Mete, TomaAviso, HayAviso, TipoColas, TipoHilos,
     TipoMemoria, HilosOK, BuclesOK, UnLugar, EnMano, Pcb, ConPcb, Hilo, Timer, Cola,
     ResidenciaDe
<1>24. ASSUME NEW h \in Hilo, EntraDesuspender(h) PROVE ResidenciaDe(p0)'
  BY <1>24 DEF EntraDesuspender, TipoColas, TipoHilos, TipoMemoria, HilosOK, BuclesOK,
     UnLugar, EnMano, Pcb, ConPcb, Hilo, Timer, Cola, ResidenciaDe
<1>25. ASSUME NEW h \in Hilo, NEW p \in Pid, Desuspende(h, p) PROVE ResidenciaDe(p0)'
  BY <1>25 DEF Desuspende, Mueve, Cabe, SwapLectura, Siguiente, TipoColas, TipoHilos,
     TipoMemoria, HilosOK, BuclesOK, UnLugar, EnMano, Pcb, ConPcb, Hilo, Timer, Cola,
     ResidenciaDe
<1>26. ASSUME NEW h \in Hilo, SaleDesuspender(h) PROVE ResidenciaDe(p0)'
  BY <1>26 DEF SaleDesuspender, Sigue, TipoColas, TipoHilos, TipoMemoria, HilosOK,
     BuclesOK, UnLugar, EnMano, Pcb, ConPcb, Hilo, Timer, Cola, ResidenciaDe
<1>27. ASSUME NEW h \in Hilo, EntraReintentar(h) PROVE ResidenciaDe(p0)'
  BY <1>27 DEF EntraReintentar, TipoColas, TipoHilos, TipoMemoria, HilosOK, BuclesOK,
     UnLugar, EnMano, Pcb, ConPcb, Hilo, Timer, Cola, ResidenciaDe
<1>28. ASSUME NEW h \in Hilo, NEW p \in Pid, Reintenta(h, p) PROVE ResidenciaDe(p0)'
  BY <1>28 DEF Reintenta, Mueve, TipoColas, TipoHilos, TipoMemoria, HilosOK, BuclesOK,
     UnLugar, EnMano, Pcb, ConPcb, Hilo, Timer, Cola, ResidenciaDe
<1>29. ASSUME NEW h \in Hilo, SaleReintentar(h) PROVE ResidenciaDe(p0)'
  BY <1>29 DEF SaleReintentar, Termina, Sigue, Atendido, TipoColas, TipoHilos,
     TipoMemoria, HilosOK, BuclesOK, UnLugar, EnMano, Pcb, ConPcb, Hilo, Timer, Cola,
     ResidenciaDe
<1>30. CASE UNCHANGED vars
  BY <1>30 DEF vars, TipoColas, TipoHilos, TipoMemoria, HilosOK, BuclesOK, UnLugar,
     EnMano, Pcb, ConPcb, Hilo, Timer, Cola, ResidenciaDe
<1>31. QED
  BY <1>1, <1>2, <1>3, <1>4, <1>5, <1>6, <1>7, <1>8, <1>9, <1>10, <1>11, <1>12, <1>13,
     <1>14, <1>15, <1>16, <1>17, <1>18, <1>19, <1>20, <1>21, <1>22, <1>23, <1>24, <1>25,
     <1>26, <1>27, <1>28, <1>29, <1>30 DEF Next, Planificador, HiloCpu, HiloInterfaz,
     HiloTimer, Bucles, TodoTerminado, Hilo

Invariante == /\ Tipos /\ BuclesOK
              /\ UnSoloLugar /\ FichaUnica
              /\ NingunDespertarPerdido /\ PendienteSoloEnLimbo
              /\ ResidenciaCoherente

\* Process 0 in READY, the others not created, every thread in recv.
LEMMA InvarianteInit == Init => Invariante
<1> SUFFICES ASSUME Init PROVE Invariante
  OBVIOUS
<1> USE Disjuntos, InterfazAssumption, HiloAssumption, NadieAssumption, NumerosAssumption
    DEF InterfazAssumption, HiloAssumption, NadieAssumption, NumerosAssumption
<1>1. TypeOK
  BY DEF Init, TypeOK, TipoColas, TipoHilos, TipoIO, TipoMemoria, Cola, Hilo, PcCpu, PcInterfaz, PcTimer
<1>2. HilosOK /\ BuclesOK
  BY DEF Init, HilosOK, BuclesOK, Hilo
<1>3. \A h \in Hilo : pc[h] \in {"espera", "no_lanzado"}
  BY DEF Init
<1>4. UnSoloLugar
  BY <1>3 DEF Init, UnSoloLugar, UnLugar, EnMano, ConPcb, Cola
<1>5. FichaUnica /\ NingunDespertarPerdido /\ PendienteSoloEnLimbo
  BY <1>3 DEF Init, FichaUnica, FichaDe, EnInterfaz, PorPedir, PorMirar, NingunDespertarPerdido,
              Dormido, EnCamino, Limbo, HayAviso, PendienteSoloEnLimbo, Cola, Hilo
<1>6. ResidenciaCoherente
  BY <1>3 DEF Init, ResidenciaCoherente, Cola, Hilo
<1>7. QED
  BY <1>1, <1>2, <1>4, <1>5, <1>6 DEF Invariante, Tipos

\* The conjunction is inductive: each part is preserved given those before it, and
\* the three about wakeups given each other.
THEOREM InvarianteSiempre == Spec => []Invariante
<1>1. Invariante /\ [Next]_vars => Invariante'
  BY TiposNext, BuclesNext, LugarNext, FichaNext, DespertarNext, PendienteNext, ResidenciaNext
  DEF Invariante
<1>2. QED
  BY InvarianteInit, <1>1, PTL DEF Spec

\* Every variable keeps its type, whatever the threads of conexiones.c do.
THEOREM TypeCorrect == Spec => []TypeOK
<1>1. Invariante => TypeOK
  BY DEF Invariante, Tipos
<1>2. QED
  BY InvarianteSiempre, <1>1, PTL

\* No PCB is ever in two places or in none, for any number of CPUs, interfaces and
\* suspension timers racing through sacar_de_block and the lists.
THEOREM LugarCorrecto == Spec => []UnSoloLugar
<1>1. Invariante => UnSoloLugar
  BY DEF Invariante
<1>2. QED
  BY InvarianteSiempre, <1>1, PTL

\* pending_wakeup does its work: between timer_suspension and the end of an I/O no
\* wakeup is lost and none is invented.
THEOREM DespertarCorrecto == Spec => []NingunDespertarPerdido
<1>1. Invariante => NingunDespertarPerdido
  BY DEF Invariante
<1>2. QED
  BY InvarianteSiempre, <1>1, PTL

\* A pending_wakeup is left only for a timer that will look at it: none survives to
\* wake a later suspension of the process.
THEOREM PendienteCorrecto == Spec => []PendienteSoloEnLimbo
<1>1. Invariante => PendienteSoloEnLimbo
  BY DEF Invariante
<1>2. QED
  BY InvarianteSiempre, <1>1, PTL

\* The lists of kernel_scheduler and the SWAP of kernel_memory agree on who is
\* swapped out.
THEOREM ResidenciaCorrecta == Spec => []ResidenciaCoherente
<1>1. Invariante => ResidenciaCoherente
  BY DEF Invariante
<1>2. QED
  BY InvarianteSiempre, <1>1, PTL

-----------------------------------------------------------------------------
(* The units of memory.  What makes conservation inductive is who may touch *)
(* them: a process that exits, allocates, frees or is swapped out is not in *)
(* SWAP, and one that comes back is.                                        *)

UnidadesDe(p) == {p} \X (1 .. mem[p])

Conservada ==
    /\ IsFiniteSet(Unidades)
    /\ MemoriaConservada

LEMMA CuantasUnidades ==
    ASSUME NEW p, NEW n \in Nat
    PROVE  IsFiniteSet({p} \X (1 .. n)) /\ Cardinality({p} \X (1 .. n)) = n
<1>1. IsFiniteSet({p}) /\ Cardinality({p}) = 1
  BY FS_Singleton
<1>2. IsFiniteSet(1 .. n) /\ Cardinality(1 .. n) = n
  BY FS_Interval
<1>3. IsFiniteSet({p} \X (1 .. n)) /\ Cardinality({p} \X (1 .. n)) = Cardinality({p}) * Cardinality(1 .. n)
  BY <1>1, <1>2, FS_Product
<1>4. 1 * n = n
  OBVIOUS
<1>5. QED
  BY <1>1, <1>2, <1>3, <1>4

\* p gives back the units of a set S it had in the sticks ...
LEMMA DevuelveUnidades ==
    ASSUME Conservada, libre \in Nat, Memoria \in Nat,
           NEW S \in SUBSET Unidades, NEW k \in Nat, Cardinality(S) = k,
           libre' = libre + k, Unidades' = Unidades \ S, \A p \in Pid : mem'[p] <= Memoria
    PROVE  Conservada'
<1>1. IsFiniteSet(Unidades') /\ IsFiniteSet(S)
  BY FS_Subset, FS_Difference DEF Conservada
<1>2. Cardinality(Unidades') = Cardinality(Unidades) - Cardinality(Unidades \cap S)
  BY FS_Difference DEF Conservada
<1>3. Unidades \cap S = S
  OBVIOUS
<1>4. Cardinality(Unidades) \in Nat
  BY FS_CardinalityType DEF Conservada
<1>5. libre + Cardinality(Unidades) = Memoria
  BY DEF Conservada, MemoriaConservada
<1>6. Cardinality(Unidades') = Cardinality(Unidades) - k
  BY <1>2, <1>3
<1>7. libre' + Cardinality(Unidades') = Memoria
  BY <1>4, <1>5, <1>6
<1>8. QED
  BY <1>1, <1>7 DEF Conservada, MemoriaConservada

\* ... and takes those of a set S that nobody had.
LEMMA TomaUnidades ==
    ASSUME Conservada, libre \in Nat, Memoria \in Nat,
           NEW S, IsFiniteSet(S), S \cap Unidades = {}, NEW k \in Nat, Cardinality(S) = k, k <= libre,
           libre' = libre - k, Unidades' = Unidades \cup S, \A p \in Pid : mem'[p] <= Memoria
    PROVE  Conservada'
<1>1. IsFiniteSet(Unidades')
  BY FS_Union DEF Conservada
<1>2. Cardinality(Unidades') = Cardinality(Unidades) + k - Cardinality(Unidades \cap S)
  BY FS_Union DEF Conservada
<1>3. Cardinality(Unidades \cap S) = 0
  BY FS_EmptySet
<1>4. Cardinality(Unidades) \in Nat
  BY FS_CardinalityType DEF Conservada
<1>5. libre' + Cardinality(Unidades') = Memoria
  BY <1>2, <1>3, <1>4 DEF Conservada, MemoriaConservada
<1>6. QED
  BY <1>1, <1>5 DEF Conservada, MemoriaConservada

\* The units of one more segment are there: those in use are no more than those offered.
LEMMA UnaMas ==
    ASSUME Conservada, Tipos, NEW p \in Pid, p \notin en_swap, libre > 0, libre' = libre - 1,
           UNCHANGED en_swap, mem' = [mem EXCEPT ![p] = @ + 1]
    PROVE  Conservada'
<1> DEFINE S == {<<p, mem[p] + 1>>}
<1>1. mem \in [Pid -> Nat] /\ libre \in Nat /\ Memoria \in Nat
  BY NumerosAssumption DEF NumerosAssumption, Tipos, TypeOK, TipoMemoria
<1>2. mem[p] \in Nat /\ mem[p] <= Memoria
  BY <1>1 DEF Conservada, MemoriaConservada
<1>3. mem[p] < Memoria
  <2>1. UnidadesDe(p) \subseteq Unidades
    BY <1>1, <1>2 DEF UnidadesDe, Unidades
  <2>2. Cardinality(UnidadesDe(p)) = mem[p]
    BY <1>2, CuantasUnidades DEF UnidadesDe
  <2>3. mem[p] <= Cardinality(Unidades)
    BY <2>1, <2>2, FS_Subset DEF Conservada
  <2>4. Cardinality(Unidades) \in Nat /\ libre + Cardinality(Unidades) = Memoria
    BY FS_CardinalityType DEF Conservada, MemoriaConservada
  <2>5. QED
    BY <1>1, <1>2, <2>3, <2>4
<1>4. IsFiniteSet(S) /\ Cardinality(S) = 1
  BY FS_Singleton
<1>5. S \cap Unidades = {}
  BY <1>2 DEF Unidades
<1>6. Unidades' = Unidades \cup S
  BY <1>1, <1>2, <1>3 DEF Unidades
<1>7. \A q \in Pid : mem'[q] <= Memoria
  BY <1>1, <1>2, <1>3 DEF Conservada, MemoriaConservada
<1> HIDE DEF S
<1>8. QED
  BY <1>1, <1>4, <1>5, <1>6, <1>7, TomaUnidades

\* No memory, no change.
LEMMA MismasUnidades ==
    ASSUME Conservada, UNCHANGED <<libre, mem, en_swap>> PROVE Conservada'
BY DEF Conservada, MemoriaConservada, Unidades

LEMMA ConservadaNext == Invariante /\ Conservada /\ [Next]_vars => Conservada'
<1> SUFFICES ASSUME Invariante, Conservada, [Next]_vars PROVE Conservada'
  OBVIOUS
<1>1. /\ Tipos /\ HilosOK /\ mem \in [Pid -> Nat] /\ libre \in Nat /\ Memoria \in Nat
      /\ \A p \in Pid : mem[p] <= Memoria
  BY NumerosAssumption DEF NumerosAssumption, Invariante, Tipos, TypeOK, TipoMemoria, Conservada, MemoriaConservada
<1>2. \A p \in Pid, c \in Cpu : EnMano(c, p) => p \notin en_swap
  BY Disjuntos DEF Invariante, UnSoloLugar, UnLugar, ResidenciaCoherente, EnMano, Pcb, ConPcb, Hilo, Cola
<1>3. \A p \in Pid : /\ p \in cola["ESPERA"] => p \notin en_swap
                     /\ \A t \in Timer : pc[t] = "limbo" /\ t[1] = p => p \notin en_swap
                     /\ p \in cola["SUSP_READY"] => \A c \in Cpu : ~EnMano(c, p)
  BY Disjuntos DEF Invariante, UnSoloLugar, UnLugar, ResidenciaCoherente, EnMano, Pcb, ConPcb, Hilo, Cola
<1>4. ASSUME NEW c \in Cpu, NEW p \in Pid, p = sujeto[c], Sale(c) PROVE Conservada'
  <2>1. /\ pc[c] = "EXIT" /\ libre' = libre + mem[p] /\ mem' = [mem EXCEPT ![p] = 0] /\ UNCHANGED en_swap
    BY <1>4 DEF Sale, LiberaTodo
  <2>2. p \notin en_swap
    BY <1>2, <1>4, <2>1, Disjuntos DEF EnMano, Pcb, ConPcb
  <2>3. UnidadesDe(p) \in SUBSET Unidades /\ mem[p] \in Nat
    BY <1>1, <2>2 DEF UnidadesDe, Unidades
  <2>4. Cardinality(UnidadesDe(p)) = mem[p]
    BY <2>3, CuantasUnidades DEF UnidadesDe
  <2>5. Unidades' = Unidades \ UnidadesDe(p)
    BY <1>1, <2>1 DEF UnidadesDe, Unidades
  <2>6. \A q \in Pid : mem'[q] <= Memoria
    BY <1>1, <2>1
  <2>7. QED
    BY <1>1, <2>1, <2>3, <2>4, <2>5, <2>6, DevuelveUnidades
<1>5. ASSUME NEW c \in Cpu, NEW p \in Pid, p = sujeto[c], MemAlloc(c) PROVE Conservada'
  <2>1. p \notin en_swap
    BY <1>2, <1>5, Disjuntos DEF MemAlloc, EnMano, Pcb, ConPcb
  <2>2. CASE libre > 0 /\ libre' = libre - 1 /\ mem' = [mem EXCEPT ![p] = @ + 1]
    BY <1>1, <1>5, <2>1, <2>2, UnaMas DEF MemAlloc
  <2>3. CASE UNCHANGED <<mem, libre>>
    BY <1>5, <2>3, MismasUnidades DEF MemAlloc
  <2>4. QED
    BY <1>5, <2>2, <2>3 DEF MemAlloc
<1>6. ASSUME NEW c \in Cpu, NEW p \in Pid, p = sujeto[c], MemFree(c) PROVE Conservada'
  <2>1. p \notin en_swap
    BY <1>2, <1>6, Disjuntos DEF MemFree, EnMano, Pcb, ConPcb
  <2>2. PICK k \in {0, 1} : k <= mem[p] /\ mem' = [mem EXCEPT ![p] = @ - k] /\ libre' = libre + k
    BY <1>6 DEF MemFree
  <2>3. UNCHANGED en_swap /\ mem[p] \in Nat
    BY <1>1, <1>6 DEF MemFree
  <2>4. CASE k = 0
    BY <1>1, <2>2, <2>3, <2>4, MismasUnidades
  <2>5. CASE k = 1
    <3> DEFINE S == {<<p, mem[p]>>}
    <3>1. S \in SUBSET Unidades
      BY <1>1, <2>1, <2>2, <2>3, <2>5 DEF Unidades
    <3>2. Cardinality(S) = 1
      BY FS_Singleton
    <3>3. Unidades' = Unidades \ S
      BY <1>1, <2>2, <2>3, <2>5 DEF Unidades
    <3>4. \A q \in Pid : mem'[q] <= Memoria
      BY <1>1, <2>2, <2>3, <2>5
    <3> HIDE DEF S
    <3>5. QED
      BY <1>1, <2>2, <2>5, <3>1, <3>2, <3>3, <3>4, DevuelveUnidades
  <2>6. QED
    BY <2>4, <2>5
<1>7. ASSUME NEW t \in Timer, EscribeSwap(t) PROVE Conservada'
  <2> DEFINE p == t[1]
  <2>1. p \in Pid /\ p \notin en_swap
    BY <1>3, <1>7 DEF EscribeSwap, Timer
  <2>2. en_swap' = en_swap \cup {p} /\ libre' = libre + mem[p] /\ mem' = mem
    BY <1>7 DEF EscribeSwap, SwapEscritura
  <2>3. UnidadesDe(p) \in SUBSET Unidades /\ mem[p] \in Nat
    BY <1>1, <2>1 DEF UnidadesDe, Unidades
  <2>4. Cardinality(UnidadesDe(p)) = mem[p]
    BY <2>3, CuantasUnidades DEF UnidadesDe
  <2>5. Unidades' = Unidades \ UnidadesDe(p)
    BY <1>1, <2>1, <2>2 DEF UnidadesDe, Unidades
  <2>6. QED
    BY <1>1, <2>2, <2>3, <2>4, <2>5, DevuelveUnidades
<1>8. ASSUME NEW h \in Hilo, NEW p \in Pid, Desuspende(h, p) PROVE Conservada'
  <2>1. CASE p \in en_swap /\ Cabe(p) /\ SwapLectura(p)
    <3>1. PICK k \in 0 .. mem[p] : mem' = [mem EXCEPT ![p] = k] /\ libre' = libre - k
      BY <2>1 DEF SwapLectura
    <3> DEFINE S == {p} \X (1 .. k)
    <3>2. mem[p] \in Nat /\ k \in Nat /\ k <= libre /\ k <= Memoria
      BY <1>1, <2>1, <3>1 DEF Cabe
    <3>3. IsFiniteSet(S) /\ Cardinality(S) = k
      BY <3>2, CuantasUnidades
    <3>4. S \cap Unidades = {}
      BY <2>1 DEF Unidades
    <3>5. en_swap' = en_swap \ {p}
      BY <2>1 DEF SwapLectura
    <3>6. Unidades' = Unidades \cup S
      BY <1>1, <2>1, <3>1, <3>2, <3>5 DEF Unidades
    <3>7. \A q \in Pid : mem'[q] <= Memoria
      BY <1>1, <3>1, <3>2
    <3> HIDE DEF S
    <3>8. QED
      BY <1>1, <3>1, <3>2, <3>3, <3>4, <3>6, <3>7, TomaUnidades
  <2>2. CASE UNCHANGED memoria
    BY <2>2, MismasUnidades DEF memoria
  <2>3. QED
    BY <1>8, <2>1, <2>2 DEF Desuspende, memoria
<1>9. ASSUME NEW h \in Hilo, NEW p \in Pid, Reintenta(h, p) PROVE Conservada'
  <2>1. p \in cola["ESPERA"] /\ p \notin en_swap
    BY <1>3, <1>9, NadieAssumption DEF Reintenta, Invariante, BuclesOK, NadieAssumption
  <2>2. CASE libre > 0 /\ libre' = libre - 1 /\ mem' = [mem EXCEPT ![p] = @ + 1]
    BY <1>1, <1>9, <2>1, <2>2, UnaMas DEF Reintenta
  <2>3. CASE UNCHANGED <<mem, libre>>
    BY <1>9, <2>3, MismasUnidades DEF Reintenta
  <2>4. QED
    BY <1>9, <2>2, <2>3 DEF Reintenta
<1>10. CASE UNCHANGED memoria
  BY <1>10, MismasUnidades DEF memoria
<1>11. ASSUME NEW c \in Cpu, HiloCpu(c) PROVE Conservada'
  <2>1. pc[c] # "espera" => sujeto[c] \in Pid
    BY <1>1 DEF HilosOK
  <2>2. CASE Sale(c) \/ MemAlloc(c) \/ MemFree(c)
    BY <1>4, <1>5, <1>6, <2>1, <2>2 DEF Sale, MemAlloc, MemFree
  <2>3. CASE Bucles(c)
    BY <1>8, <1>9, <1>10, <2>3 DEF Bucles, EntraDesuspender, SaleDesuspender, EntraReintentar, SaleReintentar, Hilo
  <2>4. CASE ~(Sale(c) \/ MemAlloc(c) \/ MemFree(c) \/ Bucles(c))
    BY <1>10, <1>11, <2>4 DEF HiloCpu, CpuRetorna, VuelveAReady, InitProc, EsperaMemoria, EntraABlock,
       LanzaTimer, LeeMemoria, PideIO
  <2>5. QED
    BY <2>2, <2>3, <2>4
<1>12. ASSUME NEW i \in Interfaz, HiloInterfaz(i) PROVE Conservada'
  <2>1. CASE Bucles(i)
    BY <1>8, <1>9, <1>10, <2>1 DEF Bucles, EntraDesuspender, SaleDesuspender, EntraReintentar, SaleReintentar, Hilo
  <2>2. CASE ~Bucles(i)
    BY <1>10, <1>12, <2>2 DEF HiloInterfaz, RecibeFin, EscribeMemoria, Despierta, MiraSuspendidos
  <2>3. QED
    BY <2>1, <2>2
<1>13. ASSUME NEW t \in Timer, HiloTimer(t) PROVE Conservada'
  <2>1. CASE Bucles(t)
    BY <1>8, <1>9, <1>10, <2>1 DEF Bucles, EntraDesuspender, SaleDesuspender, EntraReintentar, SaleReintentar, Hilo
  <2>2. CASE ~Bucles(t)
    BY <1>7, <1>10, <1>13, <2>2 DEF HiloTimer, Vence, SacaDeBlock, DecideSuspension
  <2>3. QED
    BY <2>1, <2>2
<1>14. QED
  BY <1>10, <1>11, <1>12, <1>13 DEF Next, Planificador, Despacha, Conecta, Desconecta, RespondeIO,
     TodoTerminado, vars

LEMMA ConservadaInit == Init => Conservada
<1> SUFFICES ASSUME Init PROVE Conservada
  OBVIOUS
<1>1. Unidades = {} /\ libre = Memoria /\ \A p \in Pid : mem[p] = 0
  BY DEF Init, Unidades
<1>2. QED
  BY <1>1, FS_EmptySet, NumerosAssumption DEF NumerosAssumption, Conservada, MemoriaConservada

\* Scheduler and memory together lose no unit and count none twice, for any number of
\* processes and any memory: exits, suspensions, swap-ins that lose segments, retries.
THEOREM ConservacionCorrecta == Spec => []MemoriaConservada
<1>1. Conservada => MemoriaConservada
  BY DEF Conservada
<1>2. Spec => []Conservada
  BY ConservadaInit, ConservadaNext, InvarianteSiempre, PTL DEF Spec
<1>3. QED
  BY <1>1, <1>2, PTL

=============================================================================

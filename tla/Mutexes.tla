------------------------------- MODULE Mutexes -------------------------------
(***************************************************************************)
(* The mutexes kernel_scheduler gives the programs: MUTEX_CREATE, LOCK and *)
(* UNLOCK (atender_cliente in conexiones.c) and the priority an owner      *)
(* inherits from those that wait (also encolar_en_ready, planificador.c).  *)
(* No lock of the scheduler protects a t_mutex, so each thread is divided  *)
(* at its reads and writes of it and at the locks of the lists.            *)
(*                                                                         *)
(* A PCB is a new struct each time a CPU returns it, while owner goes on   *)
(* pointing to the one that made the LOCK: prio_owner is the priority      *)
(* written in that one, prioridad that of the PCB in use (in a list or in  *)
(* a CPU).  What LOCK writes in pcb_en_ejecucion is overwritten by the PCB *)
(* that comes back and is left out.                                        *)
(*                                                                         *)
(* A name with a suffix _... is a mutant of the definition after it: a bug *)
(* the properties must notice.                                             *)
(***************************************************************************)
EXTENDS Integers, Sequences

CONSTANTS
    Pid, Cpu, Mutex,
    Sleep,           \* the thread that reads the answers of the SLEEP interface
    Original,        \* prioridad_original of each process (smaller is better)
    MaxLlamadas,     \* bound: calls of a program before its EXIT, UNLOCK not counted
    SuspensionCorta, \* SUSPENSION_TIMEOUT may pass while a process waits for a mutex
    Nadie

Hilo == Cpu \cup {Sleep}

ASSUME HiloAssumption == Sleep \notin Cpu
ASSUME NadieAssumption == Nadie \notin Pid \cup Mutex
ASSUME NumerosAssumption ==
    MaxLlamadas \in Nat /\ Original \in [Pid -> Nat] /\ SuspensionCorta \in BOOLEAN

VARIABLES
    estado,      \* where the PCB is; "MANO": in the hands of a thread and in no list
    prioridad,
    exec,        \* exec[c]: the process CPU c runs
    en_uso,      \* the mutex a program is between its LOCK and its UNLOCK of, or Nadie
    duermen,     \* the processes whose SLEEP has not been answered
    restan,
    dic_mutex,   \* the mutexes that exist
    owner, prio_owner, bloqueados,
    pc, sujeto, m_name, \* an atender_cliente thread: its step, its pcb_upd, the mutex it was named
    movido       \* the process encolar_en_ready is working on, or whose owner is found by LOCK

mutex  == <<dic_mutex, owner, prio_owner, bloqueados>>
hilos  == <<pc, sujeto, m_name, movido>>
programa == <<exec, en_uso, duermen, restan>>
vars == <<estado, prioridad, programa, mutex, hilos>>

Estado == {"READY", "EXEC", "MANO", "BLOCK", "SUSP_BLOCK", "SUSP_READY", "EXIT"}
Paso == {"espera", "a_ready", "crea", "pone", "lock", "toma", "bloquea", "encola", "hereda",
         "unlock", "suelta", "pasa", "saca", "recalcula", "encola_en_ready"}

Cola == {Original[p] : p \in Pid}     \* the indexes of colas_ready in use

Sigue(h, paso) == pc' = [pc EXCEPT ![h] = paso]
Pone(p, e) == estado' = [estado EXCEPT ![p] = e]
Esperan(m) == {bloqueados[m][k] : k \in DOMAIN bloqueados[m]}
Menor(S) == CHOOSE x \in S : \A y \in S : x <= y

Init ==
    /\ estado = [p \in Pid |-> "READY"]
    /\ prioridad = Original
    /\ exec = [c \in Cpu |-> Nadie] /\ en_uso = [p \in Pid |-> Nadie]
    /\ duermen = {} /\ restan = [p \in Pid |-> MaxLlamadas]
    /\ dic_mutex = {}
    /\ owner = [m \in Mutex |-> Nadie] /\ prio_owner = [m \in Mutex |-> 0]
    /\ bloqueados = [m \in Mutex |-> <<>>]
    /\ pc = [h \in Hilo |-> "espera"] /\ sujeto = [c \in Cpu |-> Nadie]
    /\ m_name = [c \in Cpu |-> Nadie] /\ movido = [h \in Hilo |-> Nadie]

-----------------------------------------------------------------------------
(* The CPU and the program it runs.  A program takes one mutex at a time,   *)
(* does not ask for one it has, and leaves it before it exits.              *)

\* The planner serves the best queue.
Despacha(c, p) ==
    /\ exec[c] = Nadie
    /\ estado[p] = "READY" /\ \A q \in Pid : estado[q] = "READY" => prioridad[p] <= prioridad[q]
    /\ exec' = [exec EXCEPT ![c] = p] /\ Pone(p, "EXEC")
    /\ UNCHANGED <<prioridad, en_uso, duermen, restan, mutex, hilos>>

Devuelve(c, p, paso) ==
    /\ pc[c] = "espera" /\ exec[c] = p /\ p # Nadie
    /\ exec' = [exec EXCEPT ![c] = Nadie]
    /\ sujeto' = [sujeto EXCEPT ![c] = p]
    /\ Pone(p, "MANO") /\ Sigue(c, paso)
    /\ UNCHANGED <<prioridad, duermen, mutex, movido>>

Gasta(p) == restan[p] > 0 /\ restan' = [restan EXCEPT ![p] = @ - 1]

\* INTERRUPCION, and the calls that neither block nor touch a mutex.
Interrumpida(c, p) == Devuelve(c, p, "a_ready") /\ Gasta(p) /\ UNCHANGED <<en_uso, m_name>>

LlamaCreate(c, p, m) ==
    /\ Devuelve(c, p, "crea") /\ Gasta(p)
    /\ m_name' = [m_name EXCEPT ![c] = m]
    /\ UNCHANGED en_uso

LlamaLock(c, p, m) ==
    /\ m \in dic_mutex /\ en_uso[p] = Nadie
    /\ Devuelve(c, p, "lock") /\ Gasta(p)
    /\ m_name' = [m_name EXCEPT ![c] = m]
    /\ en_uso' = [en_uso EXCEPT ![p] = m]

LlamaUnlock(c, p) ==
    /\ p # Nadie /\ en_uso[p] # Nadie
    /\ Devuelve(c, p, "unlock") /\ UNCHANGED restan
    /\ m_name' = [m_name EXCEPT ![c] = en_uso[p]]
    /\ en_uso' = [en_uso EXCEPT ![p] = Nadie]

\* SLEEP: cola_block, the timer and the request (Suspension has the detail).
Duerme(c, p) ==
    /\ pc[c] = "espera" /\ exec[c] = p /\ p # Nadie /\ Gasta(p)
    /\ exec' = [exec EXCEPT ![c] = Nadie]
    /\ Pone(p, "BLOCK") /\ duermen' = duermen \cup {p}
    /\ UNCHANGED <<prioridad, en_uso, mutex, hilos>>

Sale(c, p) ==
    /\ pc[c] = "espera" /\ exec[c] = p /\ p # Nadie
    /\ restan[p] = 0 /\ en_uso[p] = Nadie
    /\ exec' = [exec EXCEPT ![c] = Nadie] /\ Pone(p, "EXIT")
    /\ UNCHANGED <<prioridad, en_uso, duermen, restan, mutex, hilos>>

\* The end of every call that does not block.
VuelveAReady(c) ==
    /\ pc[c] = "a_ready"
    /\ Pone(sujeto[c], "READY") /\ Sigue(c, "espera")
    /\ sujeto' = [sujeto EXCEPT ![c] = Nadie] /\ m_name' = [m_name EXCEPT ![c] = Nadie]
    /\ movido' = [movido EXCEPT ![c] = Nadie]
    /\ UNCHANGED <<prioridad, programa, mutex>>

-----------------------------------------------------------------------------
(* MUTEX_CREATE                                                             *)

\* dictionary_has_key and dictionary_put.
MiraSiExiste_SinMirar(c) ==
    /\ pc[c] = "crea"
    /\ Sigue(c, "pone")
    /\ UNCHANGED <<estado, prioridad, programa, mutex, sujeto, m_name, movido>>
MiraSiExiste(c) ==
    /\ pc[c] = "crea"
    /\ Sigue(c, IF m_name[c] \in dic_mutex THEN "a_ready" ELSE "pone")
    /\ UNCHANGED <<estado, prioridad, programa, mutex, sujeto, m_name, movido>>

Crea(c) ==
    /\ pc[c] = "pone"
    /\ dic_mutex' = dic_mutex \cup {m_name[c]}
    /\ owner' = [owner EXCEPT ![m_name[c]] = Nadie]
    /\ bloqueados' = [bloqueados EXCEPT ![m_name[c]] = <<>>]
    /\ Sigue(c, "a_ready")
    /\ UNCHANGED <<estado, prioridad, programa, prio_owner, sujeto, m_name, movido>>

-----------------------------------------------------------------------------
(* MUTEX_LOCK                                                               *)

MiraOwner(c) ==
    /\ pc[c] = "lock"
    /\ Sigue(c, IF owner[m_name[c]] = Nadie THEN "toma" ELSE "bloquea")
    /\ UNCHANGED <<estado, prioridad, programa, mutex, sujeto, m_name, movido>>

Toma(c) ==
    /\ pc[c] = "toma"
    /\ owner' = [owner EXCEPT ![m_name[c]] = sujeto[c]]
    /\ prio_owner' = [prio_owner EXCEPT ![m_name[c]] = prioridad[sujeto[c]]]
    /\ Sigue(c, "a_ready")
    /\ UNCHANGED <<estado, prioridad, programa, dic_mutex, bloqueados, sujeto, m_name, movido>>

\* First cola_block (and the timer), then the queue of the mutex.
Bloquea(c) ==
    /\ pc[c] = "bloquea"
    /\ Pone(sujeto[c], "BLOCK") /\ Sigue(c, "encola")
    /\ UNCHANGED <<prioridad, programa, mutex, sujeto, m_name, movido>>

Encola(c) ==
    /\ pc[c] = "encola"
    /\ bloqueados' = [bloqueados EXCEPT ![m_name[c]] = Append(@, sujeto[c])]
    /\ Sigue(c, "hereda")
    /\ UNCHANGED <<estado, prioridad, programa, dic_mutex, owner, prio_owner, sujeto, m_name, movido>>

\* The owner inherits wherever it is found: cola_block or a READY queue (it moves to
\* the one of its new priority).  A NULL owner here is the end of the scheduler.
Hereda(c) ==
    /\ pc[c] = "hereda"
    /\ LET o == owner[m_name[c]]
           nueva == prioridad[sujeto[c]]
       IN  /\ o # Nadie
           /\ IF nueva < prio_owner[m_name[c]]
              THEN /\ prio_owner' = [prio_owner EXCEPT ![m_name[c]] = nueva]
                   /\ prioridad' = IF estado[o] \in {"BLOCK", "READY"}
                                   THEN [prioridad EXCEPT ![o] = nueva] ELSE prioridad
              ELSE UNCHANGED <<prio_owner, prioridad>>
    /\ Sigue(c, "espera")
    /\ sujeto' = [sujeto EXCEPT ![c] = Nadie] /\ m_name' = [m_name EXCEPT ![c] = Nadie]
    /\ UNCHANGED <<estado, programa, dic_mutex, owner, bloqueados, movido>>

-----------------------------------------------------------------------------
(* MUTEX_UNLOCK                                                             *)

RestauraPrioridad_SinFila(c) ==
    /\ pc[c] = "unlock"
    /\ prioridad' = [prioridad EXCEPT ![sujeto[c]] = Original[sujeto[c]]]
    /\ Sigue(c, "suelta")
    /\ UNCHANGED <<estado, programa, mutex, sujeto, m_name, movido>>
RestauraPrioridad_Nunca(c) ==
    /\ pc[c] = "unlock"
    /\ Sigue(c, IF bloqueados[m_name[c]] = <<>> THEN "suelta" ELSE "pasa")
    /\ UNCHANGED <<estado, prioridad, programa, mutex, sujeto, m_name, movido>>
RestauraPrioridad(c) ==
    /\ pc[c] = "unlock"
    /\ prioridad' = [prioridad EXCEPT ![sujeto[c]] = Original[sujeto[c]]]
    /\ Sigue(c, IF bloqueados[m_name[c]] = <<>> THEN "suelta" ELSE "pasa")
    /\ UNCHANGED <<estado, programa, mutex, sujeto, m_name, movido>>

Suelta(c) ==
    /\ pc[c] = "suelta"
    /\ owner' = [owner EXCEPT ![m_name[c]] = Nadie]
    /\ Sigue(c, "a_ready")
    /\ UNCHANGED <<estado, prioridad, programa, dic_mutex, prio_owner, bloqueados, sujeto, m_name, movido>>

Pasa_AlUltimo(c) ==
    /\ pc[c] = "pasa"
    /\ LET fila == bloqueados[m_name[c]]
           proximo == fila[Len(fila)]
       IN  /\ owner' = [owner EXCEPT ![m_name[c]] = proximo]
           /\ prio_owner' = [prio_owner EXCEPT ![m_name[c]] = prioridad[proximo]]
           /\ bloqueados' = [bloqueados EXCEPT ![m_name[c]] = SubSeq(@, 1, Len(@) - 1)]
           /\ movido' = [movido EXCEPT ![c] = proximo]
    /\ Sigue(c, "saca")
    /\ UNCHANGED <<estado, prioridad, programa, dic_mutex, sujeto, m_name>>
Pasa(c) ==
    /\ pc[c] = "pasa"
    /\ LET proximo == Head(bloqueados[m_name[c]]) IN
         /\ owner' = [owner EXCEPT ![m_name[c]] = proximo]
         /\ prio_owner' = [prio_owner EXCEPT ![m_name[c]] = prioridad[proximo]]
         /\ bloqueados' = [bloqueados EXCEPT ![m_name[c]] = Tail(@)]
         /\ movido' = [movido EXCEPT ![c] = proximo]
    /\ Sigue(c, "saca")
    /\ UNCHANGED <<estado, prioridad, programa, dic_mutex, sujeto, m_name>>

\* mover_a_ready: only cola_block is searched.
SacaDeBlock_Olvida(c) ==
    /\ pc[c] = "saca"
    /\ Sigue(c, "a_ready")
    /\ UNCHANGED <<estado, prioridad, programa, mutex, sujeto, m_name, movido>>
SacaDeBlock(c) ==
    /\ pc[c] = "saca"
    /\ IF estado[movido[c]] = "BLOCK"
       THEN Pone(movido[c], "MANO") /\ Sigue(c, "recalcula")
       ELSE Sigue(c, "a_ready") /\ UNCHANGED estado
    /\ UNCHANGED <<prioridad, programa, mutex, sujeto, m_name, movido>>

-----------------------------------------------------------------------------
(* encolar_en_ready, called by UNLOCK and by the thread of the SLEEP        *)
(* interface, which holds the process from its removal of cola_block on.    *)

\* What UNLOCK moves is the struct owner points to.
Recalcula_UnaMejor(h) ==
    /\ pc[h] = "recalcula"
    /\ LET p == movido[h]
           suyos == {m \in dic_mutex : owner[m] = p}
           heredada == Menor({Original[p]} \cup {prioridad[w] : w \in UNION {Esperan(m) : m \in suyos}})
       IN  /\ prioridad' = [prioridad EXCEPT ![p] = heredada - 1]
           /\ prio_owner' = IF h \in Cpu THEN [prio_owner EXCEPT ![m_name[h]] = heredada] ELSE prio_owner
    /\ Sigue(h, "encola_en_ready")
    /\ UNCHANGED <<estado, programa, dic_mutex, owner, bloqueados, sujeto, m_name, movido>>
Recalcula(h) ==
    /\ pc[h] = "recalcula"
    /\ LET p == movido[h]
           suyos == {m \in dic_mutex : owner[m] = p}
           heredada == Menor({Original[p]} \cup {prioridad[w] : w \in UNION {Esperan(m) : m \in suyos}})
       IN  /\ prioridad' = [prioridad EXCEPT ![p] = heredada]
           /\ prio_owner' = IF h \in Cpu THEN [prio_owner EXCEPT ![m_name[h]] = heredada] ELSE prio_owner
    /\ Sigue(h, "encola_en_ready")
    /\ UNCHANGED <<estado, programa, dic_mutex, owner, bloqueados, sujeto, m_name, movido>>

EncolaEnReady(h) ==
    /\ pc[h] = "encola_en_ready"
    /\ Pone(movido[h], "READY")
    /\ Sigue(h, IF h \in Cpu THEN "a_ready" ELSE "espera")
    /\ movido' = [movido EXCEPT ![h] = Nadie]
    /\ UNCHANGED <<prioridad, programa, mutex, sujeto, m_name>>

FinSleep(p) ==
    /\ p \in duermen /\ pc[Sleep] = "espera"
    /\ duermen' = duermen \ {p}
    /\ IF estado[p] = "BLOCK"
       THEN Pone(p, "MANO") /\ Sigue(Sleep, "recalcula") /\ movido' = [movido EXCEPT ![Sleep] = p]
       ELSE Pone(p, "SUSP_READY") /\ UNCHANGED <<pc, movido>>
    /\ UNCHANGED <<prioridad, exec, en_uso, restan, mutex, sujeto, m_name>>

\* timer_suspension and intentar_desuspender (Suspension has the detail); the second
\* uses the priority the PCB has.
Suspende(p) ==
    /\ estado[p] = "BLOCK" /\ (SuspensionCorta \/ p \in duermen)
    /\ Pone(p, "SUSP_BLOCK")
    /\ UNCHANGED <<prioridad, programa, mutex, hilos>>
Desuspende(p) ==
    /\ estado[p] = "SUSP_READY"
    /\ Pone(p, "READY")
    /\ UNCHANGED <<prioridad, programa, mutex, hilos>>

-----------------------------------------------------------------------------

Programa(c) ==
    \E p \in Pid :
        \/ Interrumpida(c, p) \/ LlamaUnlock(c, p) \/ Duerme(c, p) \/ Sale(c, p)
        \/ \E m \in Mutex : LlamaCreate(c, p, m) \/ LlamaLock(c, p, m)
Atiende(c) ==
    \/ VuelveAReady(c) \/ MiraSiExiste(c) \/ Crea(c)
    \/ MiraOwner(c) \/ Toma(c) \/ Bloquea(c) \/ Encola(c) \/ Hereda(c)
    \/ RestauraPrioridad(c) \/ Suelta(c) \/ Pasa(c) \/ SacaDeBlock(c)
Mueve(h) == Recalcula(h) \/ EncolaEnReady(h)

TodoTerminado == (\A p \in Pid : estado[p] = "EXIT") /\ UNCHANGED vars

Next ==
    \/ \E c \in Cpu : Programa(c) \/ Atiende(c) \/ \E p \in Pid : Despacha(c, p)
    \/ \E h \in Hilo : Mueve(h)
    \/ \E p \in Pid : FinSleep(p) \/ Suspende(p) \/ Desuspende(p)
    \/ TodoTerminado

Spec == Init /\ [][Next]_vars

\* The threads run, a CPU that is given a process gives it back, every SLEEP ends.
FairSpec ==
    /\ Spec
    /\ \A c \in Cpu : WF_vars(Programa(c)) /\ WF_vars(Atiende(c)) /\ WF_vars(\E p \in Pid : Despacha(c, p))
    /\ \A h \in Hilo : WF_vars(Mueve(h))
    /\ \A p \in Pid : WF_vars(FinSleep(p)) /\ WF_vars(Desuspende(p))

-----------------------------------------------------------------------------

TypeOK ==
    /\ estado \in [Pid -> Estado]
    /\ prioridad \in [Pid -> Cola]
    /\ exec \in [Cpu -> Pid \cup {Nadie}]
    /\ en_uso \in [Pid -> Mutex \cup {Nadie}]
    /\ duermen \subseteq Pid
    /\ restan \in [Pid -> 0 .. MaxLlamadas]
    /\ dic_mutex \subseteq Mutex
    /\ owner \in [Mutex -> Pid \cup {Nadie}]
    /\ prio_owner \in [Mutex -> Cola \cup {0}]
    /\ bloqueados \in [Mutex -> Seq(Pid)]
    /\ pc \in [Hilo -> Paso]
    /\ sujeto \in [Cpu -> Pid \cup {Nadie}]
    /\ m_name \in [Cpu -> Mutex \cup {Nadie}]
    /\ movido \in [Hilo -> Pid \cup {Nadie}]

\* A program inside the section m protects: past its LOCK, running, ready to, or asleep.
EnSeccion(p, m) == en_uso[p] = m /\ (estado[p] \in {"READY", "EXEC"} \/ p \in duermen)

\* What the mutexes are for: of two programs, one at most is inside the section of a
\* mutex.  The LOCKs and UNLOCKs of conexiones.c must hand it over without a gap.
ExclusionMutua ==
    \A m \in Mutex : \A p, q \in Pid : EnSeccion(p, m) /\ EnSeccion(q, m) => p = q

\* A mutex is handed to a process that goes on: an owner is never left blocked or
\* suspended by its own LOCK, once the UNLOCK that chose it is over.  "busca ese
\* siguiente proceso en la colaa de BLOCK y lo pasa a READY".
ElOwnerNoEspera ==
    \A m \in Mutex :
        /\ owner[m] # Nadie /\ estado[owner[m]] \in {"BLOCK", "SUSP_BLOCK"}
        /\ \A c \in Cpu : movido[c] # owner[m]
        => owner[m] \in duermen

\* A priority that is not the process's own is that of somebody who waits for its
\* mutex: inheritance (LOCK, encolar_en_ready) never outlives the one who caused it.
HerenciaDebida ==
    \A p \in Pid : prioridad[p] # Original[p] =>
        \E m \in Mutex : owner[m] = p /\ \E w \in Esperan(m) : prioridad[w] = prioridad[p] /\ prioridad[p] < Original[p]

Cerrojos == INSTANCE Cerrojo WITH duenio <- owner, fila <- bloqueados

\* One owner, first come first served, free only if nobody waits: Cerrojo.
CumpleCerrojo == Cerrojos!Spec

\* Whoever waits in a MUTEX_LOCK gets into its section in the end.
TodoLockTermina == \A p \in Pid, m \in Mutex : p \in Esperan(m) ~> EnSeccion(p, m)

=============================================================================

---------------------------- MODULE MutexesProofs ----------------------------
(***************************************************************************)
(* Proofs about Mutexes on one CPU, for any processes, mutexes, priorities *)
(* and lengths of the programs.  With one CPU the handlers of LOCK and     *)
(* UNLOCK do not interleave with each other, only with the thread of the   *)
(* SLEEP interface and the timers, and what they checked still holds when  *)
(* they use it: that is what Hilos says.                                   *)
(***************************************************************************)
EXTENDS Mutexes, SequenceTheorems, WellFoundedInduction, TLAPS

UnaCpu == \A c, d \in Cpu : c = d

-----------------------------------------------------------------------------
(* Queues without repetitions.                                              *)

Elems(s) == {s[k] : k \in DOMAIN s}
SinRepetir(s) == \A i, j \in DOMAIN s : s[i] = s[j] => i = j

LEMMA ColaAppend ==
    ASSUME NEW S, NEW s \in Seq(S), NEW x \in S, SinRepetir(s), x \notin Elems(s)
    PROVE  /\ Append(s, x) \in Seq(S) /\ Append(s, x) # <<>>
           /\ Elems(Append(s, x)) = Elems(s) \cup {x}
           /\ SinRepetir(Append(s, x))
<1> DEFINE t == Append(s, x)
           n == Len(s)
<1>1. t \in Seq(S) /\ t # <<>> /\ Len(t) = n + 1 /\ t[n + 1] = x /\ \A i \in 1 .. n : t[i] = s[i]
  BY AppendProperties
<1>2. n \in Nat /\ DOMAIN s = 1 .. n /\ DOMAIN t = 1 .. n + 1
  BY <1>1, LenProperties
<1> HIDE DEF t, n
<1>3. Elems(t) = Elems(s) \cup {x}
  <2>1. \A i \in DOMAIN t : (i \in DOMAIN s /\ t[i] = s[i]) \/ (i = n + 1 /\ t[i] = x)
    BY <1>1, <1>2
  <2>2. (\A i \in DOMAIN s : i \in DOMAIN t /\ t[i] = s[i]) /\ n + 1 \in DOMAIN t
    BY <1>1, <1>2
  <2>3. QED
    BY <1>1, <2>1, <2>2 DEF Elems
<1>4. SinRepetir(t)
  <2>1. SUFFICES ASSUME NEW i \in DOMAIN t, NEW j \in DOMAIN t, t[i] = t[j] PROVE i = j
    BY DEF SinRepetir
  <2>2. CASE i \in 1 .. n /\ j \in 1 .. n
    BY <1>1, <1>2, <2>1, <2>2 DEF SinRepetir
  <2>3. CASE ~(i \in 1 .. n /\ j \in 1 .. n)
    BY <1>1, <1>2, <2>1, <2>3 DEF Elems
  <2>4. QED
    BY <2>2, <2>3
<1>5. QED
  BY <1>1, <1>3, <1>4 DEF t

LEMMA ColaTail ==
    ASSUME NEW S, NEW s \in Seq(S), s # <<>>, SinRepetir(s)
    PROVE  /\ Head(s) \in S /\ Head(s) \in Elems(s) /\ Tail(s) \in Seq(S)
           /\ Elems(Tail(s)) = Elems(s) \ {Head(s)}
           /\ SinRepetir(Tail(s))
<1> DEFINE t == Tail(s)
           n == Len(s)
<1>1. Head(s) \in S /\ t \in Seq(S) /\ Len(t) = n - 1 /\ \A i \in 1 .. Len(t) : t[i] = s[i + 1]
  BY HeadTailProperties
<1>2. n \in Nat \ {0} /\ DOMAIN s = 1 .. n /\ DOMAIN t = 1 .. n - 1 /\ Head(s) = s[1]
  <2>1. n \in Nat /\ DOMAIN s = 1 .. n /\ n # 0 /\ Head(s) = s[1]
    OBVIOUS
  <2>2. DOMAIN t = 1 .. Len(t)
    BY <1>1, LenProperties
  <2>3. QED
    BY <1>1, <2>1, <2>2
<1> HIDE DEF t, n
<1>3. \A i \in DOMAIN t : i + 1 \in DOMAIN s /\ i + 1 # 1 /\ t[i] = s[i + 1]
  BY <1>1, <1>2
<1>4. \A i \in DOMAIN s : i # 1 => i - 1 \in DOMAIN t /\ t[i - 1] = s[i]
  <2>1. SUFFICES ASSUME NEW i \in DOMAIN s, i # 1 PROVE i - 1 \in DOMAIN t /\ t[i - 1] = s[i]
    OBVIOUS
  <2>2. i \in 2 .. n /\ i - 1 \in 1 .. n - 1 /\ (i - 1) + 1 = i
    BY <1>2, <2>1
  <2>3. i - 1 \in DOMAIN t
    BY <1>2, <2>2
  <2>4. QED
    BY <1>3, <2>2, <2>3
<1>5. 1 \in DOMAIN s
  BY <1>2
<1>6. Elems(t) = Elems(s) \ {Head(s)}
  <2>1. ASSUME NEW i \in DOMAIN t PROVE t[i] \in Elems(s) /\ t[i] # Head(s)
    BY <1>2, <1>3, <1>5 DEF Elems, SinRepetir
  <2>2. ASSUME NEW i \in DOMAIN s, s[i] # Head(s) PROVE s[i] \in Elems(t)
    <3>1. i # 1
      BY <1>2, <2>2
    <3>2. QED
      BY <1>4, <3>1 DEF Elems
  <2>3. QED
    BY <2>1, <2>2 DEF Elems
<1>7. SinRepetir(t)
  <2>1. SUFFICES ASSUME NEW i \in DOMAIN t, NEW j \in DOMAIN t, t[i] = t[j] PROVE i = j
    BY DEF SinRepetir
  <2>2. i + 1 = j + 1
    BY <1>3, <2>1 DEF SinRepetir
  <2>3. i \in Nat /\ j \in Nat
    BY <1>2
  <2>4. QED
    BY <2>2, <2>3
<1>8. QED
  BY <1>1, <1>2, <1>5, <1>6, <1>7 DEF t, Elems

-----------------------------------------------------------------------------
(* The inductive invariant.                                                 *)

\* Where one that waits for a mutex may be.
Bloqueado == {"BLOCK"} \cup IF SuspensionCorta THEN {"SUSP_BLOCK"} ELSE {}

Tipos ==
    /\ estado \in [Pid -> Estado]
    /\ exec \in [Cpu -> Pid \cup {Nadie}]
    /\ en_uso \in [Pid -> Mutex \cup {Nadie}]
    /\ duermen \subseteq Pid
    /\ dic_mutex \subseteq Mutex
    /\ owner \in [Mutex -> Pid \cup {Nadie}]
    /\ bloqueados \in [Mutex -> Seq(Pid)]
    /\ pc \in [Hilo -> Paso]
    /\ sujeto \in [Cpu -> Pid \cup {Nadie}]
    /\ m_name \in [Cpu -> Mutex \cup {Nadie}]
    /\ movido \in [Hilo -> Pid \cup {Nadie}]

Pidiendo == {"lock", "toma", "bloquea", "encola"}
Soltando == {"unlock", "suelta", "pasa"}
Moviendo == {"recalcula", "encola_en_ready"}

\* The process an atender_cliente thread serves, and its mutex.
Sujeto(c) == IF pc[c] = "espera" THEN sujeto[c] = Nadie ELSE
    /\ sujeto[c] \in Pid /\ sujeto[c] \notin duermen
    /\ IF pc[c] \in {"encola", "hereda"} THEN estado[sujeto[c]] \in Bloqueado
       ELSE estado[sujeto[c]] = "MANO"
    /\ pc[c] # "a_ready" => m_name[c] \in Mutex

\* LOCK: what it read of the owner holds until it is done.
Lock(c) ==
    /\ pc[c] \in Pidiendo =>
         /\ en_uso[sujeto[c]] = m_name[c] /\ m_name[c] \in dic_mutex
         /\ owner[m_name[c]] # sujeto[c] /\ sujeto[c] \notin Elems(bloqueados[m_name[c]])
    /\ pc[c] = "toma" => owner[m_name[c]] = Nadie
    /\ pc[c] \in {"bloquea", "encola"} => owner[m_name[c]] # Nadie
    /\ pc[c] = "pone" => m_name[c] \notin dic_mutex

\* UNLOCK: the owner leaves, and the one it chose waits to be moved.
Unlock(c) ==
    /\ pc[c] \in Soltando => owner[m_name[c]] = sujeto[c] /\ en_uso[sujeto[c]] = Nadie
    /\ pc[c] = "suelta" => bloqueados[m_name[c]] = <<>>
    /\ pc[c] = "pasa" => bloqueados[m_name[c]] # <<>>
    /\ pc[c] \in {"saca"} \cup Moviendo =>
         /\ movido[c] \in Pid /\ movido[c] # sujeto[c] /\ movido[c] \notin duermen
         /\ movido[c] = owner[m_name[c]]
         /\ IF pc[c] = "saca" THEN estado[movido[c]] \in Bloqueado ELSE estado[movido[c]] = "MANO"

\* The thread of SLEEP holds a process nobody else does.
Despierta ==
    /\ pc[Sleep] \in {"espera"} \cup Moviendo
    /\ pc[Sleep] # "espera" =>
         /\ movido[Sleep] \in Pid /\ movido[Sleep] \notin duermen
         /\ estado[movido[Sleep]] = "MANO"
         /\ \A c \in Cpu : sujeto[c] # movido[Sleep]
         /\ \A c \in Cpu : pc[c] \in Moviendo => movido[c] # movido[Sleep]

Lugares ==
    /\ \A c \in Cpu : exec[c] # Nadie => estado[exec[c]] = "EXEC"
    /\ \A p \in duermen : estado[p] \in {"BLOCK", "SUSP_BLOCK"}

\* A mutex and its owner, and its queue.
Duenio(m) == owner[m] # Nadie =>
    /\ m \in dic_mutex
    /\ \/ en_uso[owner[m]] = m
       \/ \E c \in Cpu : pc[c] \in Soltando /\ m_name[c] = m /\ sujeto[c] = owner[m]
Fila(m) ==
    /\ SinRepetir(bloqueados[m])
    /\ owner[m] = Nadie => bloqueados[m] = <<>>
    /\ \A w \in Elems(bloqueados[m]) :
         w \in Pid /\ en_uso[w] = m /\ w \notin duermen /\ w # owner[m] /\ estado[w] \in Bloqueado

\* A program between its LOCK and its UNLOCK owns the mutex, waits for it or is being served.
Uso(p) == en_uso[p] # Nadie =>
    /\ en_uso[p] \in dic_mutex
    /\ \/ owner[en_uso[p]] = p \/ p \in Elems(bloqueados[en_uso[p]])
       \/ \E c \in Cpu : pc[c] \in Pidiendo /\ sujeto[c] = p

Hilos == \A c \in Cpu : Sujeto(c) /\ Lock(c) /\ Unlock(c)
Mutexs == \A m \in Mutex : Duenio(m) /\ Fila(m)
Usos == \A p \in Pid : Uso(p)

\* An owner that is blocked sleeps, or UNLOCK is about to move it.
OwnerSigue == ~SuspensionCorta => \A m \in Mutex :
    owner[m] # Nadie /\ estado[owner[m]] \in {"BLOCK", "SUSP_BLOCK"} =>
        owner[m] \in duermen \/ \E c \in Cpu : pc[c] = "saca" /\ movido[c] = owner[m]

IInv == Tipos /\ Hilos /\ Despierta /\ Lugares /\ Mutexs /\ Usos

LEMMA ConDespacha ==
    ASSUME UnaCpu, IInv, NEW c \in Cpu, NEW p \in Pid, Despacha(c, p)
    PROVE  IInv'
<1>1. Cpu = {c} /\ Tipos'
  BY DEF UnaCpu, IInv, Despacha, Pone, mutex, hilos, Tipos, Estado
<1>2. Hilos'
  BY <1>1 DEF IInv, Despacha, Pone, mutex, hilos, Hilos, Sujeto, Lock, Unlock, Bloqueado
<1>3. Despierta'
  BY <1>1 DEF IInv, Despacha, Pone, hilos, Despierta
<1>4. Lugares'
  BY <1>1 DEF IInv, Despacha, Pone, Tipos, Lugares
<1>5. Mutexs'
  BY <1>1 DEF IInv, Despacha, Pone, mutex, hilos, Mutexs, Duenio, Fila, Bloqueado
<1>6. Usos'
  BY <1>1 DEF IInv, Despacha, mutex, hilos, Usos, Uso
<1>7. QED
  BY <1>1, <1>2, <1>3, <1>4, <1>5, <1>6 DEF IInv

LEMMA ConInterrumpida ==
    ASSUME UnaCpu, IInv, NEW c \in Cpu, NEW p \in Pid, Interrumpida(c, p)
    PROVE  IInv'
<1>1. Cpu = {c} /\ Tipos'
  BY DEF UnaCpu, IInv, Hilo, Interrumpida, Devuelve, Pone, Sigue, mutex, Tipos, Estado, Paso
<1>2. Hilos'
  <2> SUFFICES ASSUME NEW d \in Cpu PROVE (Sujeto(d) /\ Lock(d) /\ Unlock(d))'
    BY DEF Hilos
  <2>1. Sujeto(d)'
    BY <1>1 DEF IInv, Hilo, Interrumpida, Devuelve, Pone, Sigue, Tipos, Sujeto, Lugares
  <2>2. Lock(d)'
    BY <1>1 DEF Interrumpida, Devuelve, Sigue, Lock, Pidiendo
  <2>3. Unlock(d)'
    BY <1>1 DEF Interrumpida, Devuelve, Sigue, Unlock, Soltando, Moviendo
  <2>4. QED
    BY <2>1, <2>2, <2>3
<1>3. Despierta'
  BY <1>1, HiloAssumption DEF IInv, Interrumpida, Devuelve, Pone, Sigue, Lugares, Despierta, Moviendo
<1>4. Lugares'
  BY <1>1 DEF IInv, Interrumpida, Devuelve, Pone, Tipos, Lugares
<1>5. Mutexs'
  <2> SUFFICES ASSUME NEW n \in Mutex PROVE (Duenio(n) /\ Fila(n))'
    BY DEF Mutexs
  <2>1. Duenio(n)'
    BY <1>1 DEF IInv, Interrumpida, Devuelve, mutex, Mutexs, Duenio, Soltando
  <2>2. Fila(n)'
    BY <1>1 DEF IInv, Interrumpida, Devuelve, Pone, mutex, Mutexs, Fila, Lugares, Bloqueado
  <2>3. QED
    BY <2>1, <2>2
<1>6. Usos'
  BY <1>1 DEF IInv, Interrumpida, Devuelve, mutex, Pidiendo, Usos, Uso
<1>7. QED
  BY <1>1, <1>2, <1>3, <1>4, <1>5, <1>6 DEF IInv

LEMMA ConLlamaCreate ==
    ASSUME UnaCpu, IInv, NEW c \in Cpu, NEW p \in Pid, NEW m \in Mutex, LlamaCreate(c, p, m)
    PROVE  IInv'
<1>1. Cpu = {c} /\ Tipos'
  BY DEF UnaCpu, IInv, Hilo, LlamaCreate, Devuelve, Pone, Sigue, mutex, Tipos, Estado, Paso
<1>2. Hilos'
  <2> SUFFICES ASSUME NEW d \in Cpu PROVE (Sujeto(d) /\ Lock(d) /\ Unlock(d))'
    BY DEF Hilos
  <2>0. d = c /\ p \notin duermen /\ c \in Hilo /\ p # Nadie
    BY <1>1, NadieAssumption DEF IInv, Lugares, LlamaCreate, Devuelve, Hilo
  <2>1. Sujeto(d)'
    BY <1>1, <2>0 DEF LlamaCreate, Devuelve, Pone, Sigue, Tipos, Sujeto
  <2>2. Lock(d)'
    BY <1>1 DEF LlamaCreate, Devuelve, Sigue, Lock, Pidiendo
  <2>3. Unlock(d)'
    BY <1>1 DEF LlamaCreate, Devuelve, Sigue, Unlock, Soltando, Moviendo
  <2>4. QED
    BY <2>1, <2>2, <2>3
<1>3. Despierta'
  BY <1>1, HiloAssumption DEF IInv, LlamaCreate, Devuelve, Pone, Sigue, Lugares, Despierta, Moviendo
<1>4. Lugares'
  BY <1>1 DEF IInv, LlamaCreate, Devuelve, Pone, Tipos, Lugares
<1>5. Mutexs'
  <2> SUFFICES ASSUME NEW n \in Mutex PROVE (Duenio(n) /\ Fila(n))'
    BY DEF Mutexs
  <2>1. Duenio(n)'
    BY <1>1 DEF IInv, LlamaCreate, Devuelve, mutex, Mutexs, Duenio, Soltando
  <2>2. Fila(n)'
    BY <1>1 DEF IInv, LlamaCreate, Devuelve, Pone, mutex, Mutexs, Fila, Lugares, Bloqueado
  <2>3. QED
    BY <2>1, <2>2
<1>6. Usos'
  BY <1>1 DEF IInv, LlamaCreate, Devuelve, mutex, Pidiendo, Usos, Uso
<1>7. QED
  BY <1>1, <1>2, <1>3, <1>4, <1>5, <1>6 DEF IInv

LEMMA ConLlamaLock ==
    ASSUME UnaCpu, IInv, NEW c \in Cpu, NEW p \in Pid, NEW m \in Mutex, LlamaLock(c, p, m)
    PROVE  IInv'
<1>1. Cpu = {c} /\ Tipos'
  BY DEF UnaCpu, IInv, Hilo, LlamaLock, Devuelve, Pone, Sigue, mutex, Tipos, Estado, Paso
<1>2. Hilos'
  <2> SUFFICES ASSUME NEW d \in Cpu PROVE (Sujeto(d) /\ Lock(d) /\ Unlock(d))'
    BY DEF Hilos
  <2>0. /\ d = c /\ p \notin duermen /\ c \in Hilo /\ p # Nadie
        /\ owner[m] # p /\ p \notin Elems(bloqueados[m]) /\ m \in dic_mutex
    <3>1. d = c /\ p \notin duermen /\ c \in Hilo /\ p # Nadie /\ m \in dic_mutex /\ en_uso[p] = Nadie /\ pc[c] = "espera"
      BY <1>1, NadieAssumption DEF IInv, Lugares, LlamaLock, Devuelve, Hilo
    <3>2. owner[m] # p /\ p \notin Elems(bloqueados[m])
      BY <1>1, <3>1, NadieAssumption DEF IInv, Mutexs, Duenio, Fila, Soltando
    <3>3. QED
      BY <3>1, <3>2
  <2>1. Sujeto(d)'
    BY <1>1, <2>0, HiloAssumption, NadieAssumption DEF LlamaLock, Devuelve, Gasta, Pone, Sigue, programa, mutex,
       hilos, IInv, Tipos, Pidiendo, Soltando, Moviendo, Sujeto
  <2>2. Lock(d)'
    BY <1>1, <2>0, HiloAssumption, NadieAssumption DEF LlamaLock, Devuelve, Gasta, Pone, Sigue, programa, mutex,
       hilos, IInv, Tipos, Pidiendo, Soltando, Moviendo, Lock
  <2>3. Unlock(d)'
    BY <1>1, <2>0, HiloAssumption, NadieAssumption DEF LlamaLock, Devuelve, Gasta, Pone, Sigue, programa, mutex,
       hilos, IInv, Tipos, Pidiendo, Soltando, Moviendo, Unlock
  <2>4. QED
    BY <2>1, <2>2, <2>3
<1>3. Despierta'
  BY <1>1, HiloAssumption DEF IInv, LlamaLock, Devuelve, Pone, Sigue, Lugares, Despierta, Moviendo
<1>4. Lugares'
  BY <1>1 DEF IInv, LlamaLock, Devuelve, Pone, Tipos, Lugares
<1>5. Mutexs'
  <2> SUFFICES ASSUME NEW n \in Mutex PROVE (Duenio(n) /\ Fila(n))'
    BY DEF Mutexs
  <2>1. Duenio(n)'
    BY <1>1, NadieAssumption DEF IInv, LlamaLock, Devuelve, mutex, Mutexs, Duenio, Soltando
  <2>2. Fila(n)'
    BY <1>1, NadieAssumption DEF IInv, LlamaLock, Devuelve, Pone, mutex, Mutexs, Fila
  <2>3. QED
    BY <2>1, <2>2
<1>6. Usos'
  <2> SUFFICES ASSUME NEW q \in Pid, en_uso'[q] # Nadie PROVE Uso(q)'
    BY DEF Uso, Usos
  <2>1. Uso(q)
    BY DEF IInv, Usos
  <2>2. Uso(q)'
    BY <1>1, <2>1 DEF LlamaLock, Devuelve, Sigue, mutex, Tipos, Pidiendo, Uso
  <2>3. QED
    BY <2>2
<1>7. QED
  BY <1>1, <1>2, <1>3, <1>4, <1>5, <1>6 DEF IInv

LEMMA ConLlamaUnlock ==
    ASSUME UnaCpu, IInv, NEW c \in Cpu, NEW p \in Pid, LlamaUnlock(c, p)
    PROVE  IInv'
<1>1. Cpu = {c} /\ Tipos'
  BY DEF UnaCpu, IInv, Hilo, LlamaUnlock, Devuelve, Pone, Sigue, mutex, Tipos, Estado, Paso
<1>2. Hilos'
  <2> SUFFICES ASSUME NEW d \in Cpu PROVE (Sujeto(d) /\ Lock(d) /\ Unlock(d))'
    BY DEF Hilos
  <2>1. Sujeto(d)'
    BY <1>1 DEF IInv, Hilo, LlamaUnlock, Devuelve, Pone, Sigue, Tipos, Sujeto, Lugares
  <2>2. Lock(d)'
    BY <1>1 DEF LlamaUnlock, Devuelve, Sigue, Lock, Pidiendo
  <2>3. Unlock(d)'
    BY <1>1, NadieAssumption DEF IInv, LlamaUnlock, Devuelve, Sigue, mutex, Tipos, Unlock, Mutexs, Duenio, Fila,
       Lugares, Pidiendo, Moviendo, Bloqueado, Usos, Uso
  <2>4. QED
    BY <2>1, <2>2, <2>3
<1>3. Despierta'
  BY <1>1, HiloAssumption DEF IInv, LlamaUnlock, Devuelve, Pone, Sigue, Lugares, Despierta, Moviendo
<1>4. Lugares'
  BY <1>1 DEF IInv, LlamaUnlock, Devuelve, Pone, Tipos, Lugares
<1>5. Mutexs'
  BY <1>1 DEF IInv, LlamaUnlock, Devuelve, Pone, Sigue, mutex, Tipos, Mutexs, Duenio, Fila, Lugares, Soltando,
     Bloqueado
<1>6. Usos'
  <2> SUFFICES ASSUME NEW q \in Pid, en_uso'[q] # Nadie PROVE Uso(q)'
    BY DEF Uso, Usos
  <2>1. Uso(q)
    BY DEF IInv, Usos
  <2>2. Uso(q)'
    BY <1>1, <2>1 DEF LlamaUnlock, Devuelve, mutex, Pidiendo, Uso
  <2>3. QED
    BY <2>2
<1>7. QED
  BY <1>1, <1>2, <1>3, <1>4, <1>5, <1>6 DEF IInv

LEMMA ConDuerme ==
    ASSUME UnaCpu, IInv, NEW c \in Cpu, NEW p \in Pid, Duerme(c, p)
    PROVE  IInv'
<1>1. Cpu = {c} /\ Tipos'
  BY DEF UnaCpu, IInv, Duerme, Pone, mutex, hilos, Tipos, Estado
<1>2. Hilos'
  BY <1>1 DEF IInv, Duerme, mutex, hilos, Hilos, Sujeto, Lock, Unlock, Moviendo
<1>3. Despierta'
  BY <1>1 DEF IInv, Duerme, Pone, hilos, Lugares, Despierta
<1>4. Lugares'
  BY <1>1 DEF IInv, Duerme, Pone, Tipos, Lugares
<1>5. Mutexs'
  BY <1>1 DEF IInv, Duerme, Pone, mutex, hilos, Mutexs, Duenio, Fila, Lugares, Bloqueado
<1>6. Usos'
  BY <1>1 DEF IInv, Duerme, mutex, hilos, Usos, Uso
<1>7. QED
  BY <1>1, <1>2, <1>3, <1>4, <1>5, <1>6 DEF IInv

LEMMA ConSale ==
    ASSUME UnaCpu, IInv, NEW c \in Cpu, NEW p \in Pid, Sale(c, p)
    PROVE  IInv'
<1>1. Cpu = {c} /\ Tipos'
  BY DEF UnaCpu, IInv, Sale, Pone, mutex, hilos, Tipos, Estado
<1>2. Hilos'
  BY <1>1 DEF IInv, Sale, mutex, hilos, Hilos, Sujeto, Lock, Unlock, Moviendo
<1>3. Despierta'
  BY <1>1 DEF IInv, Sale, Pone, hilos, Lugares, Despierta
<1>4. Lugares'
  BY <1>1 DEF IInv, Sale, Pone, Tipos, Lugares
<1>5. Mutexs'
  BY <1>1, NadieAssumption DEF IInv, Sale, Pone, mutex, hilos, Mutexs, Duenio, Fila
<1>6. Usos'
  BY <1>1 DEF IInv, Sale, mutex, hilos, Usos, Uso
<1>7. QED
  BY <1>1, <1>2, <1>3, <1>4, <1>5, <1>6 DEF IInv

LEMMA ConVuelveAReady ==
    ASSUME UnaCpu, IInv, NEW c \in Cpu, VuelveAReady(c)
    PROVE  IInv'
<1>1. Cpu = {c} /\ Tipos'
  <2>1. Cpu = {c}
    BY DEF UnaCpu
  <2>2. Tipos'
    BY <2>1 DEF IInv, VuelveAReady, Pone, Sigue, programa, mutex, Estado, Paso, Tipos
  <2>3. QED
    BY <2>1, <2>2
<1>2. Hilos'
  BY <1>1 DEF VuelveAReady, Sigue, Tipos, Hilos, Sujeto, Lock, Unlock, Pidiendo, Soltando, Moviendo
<1>3. Despierta'
  <2>1. /\ pc'[Sleep] = pc[Sleep] /\ movido'[Sleep] = movido[Sleep] /\ duermen' = duermen
        /\ sujeto[c] \in Pid /\ pc[c] = "a_ready" /\ pc'[c] \notin Moviendo /\ Sleep # c
    BY <1>1, HiloAssumption, NadieAssumption DEF VuelveAReady, Pone, Sigue, programa, mutex, hilos, IInv, Tipos,
       Hilo, Hilos, Sujeto, Moviendo
  <2>2. ASSUME pc[Sleep] # "espera"
        PROVE  /\ movido[Sleep] \in Pid /\ movido[Sleep] # sujeto[c] /\ movido[Sleep] \notin duermen
               /\ estado'[movido[Sleep]] = "MANO" /\ sujeto'[c] # movido[Sleep]
    BY <1>1, <2>1, <2>2, NadieAssumption DEF VuelveAReady, Pone, Sigue, programa, mutex, hilos, IInv, Tipos, Despierta
  <2>3. pc[Sleep] \in {"espera"} \cup Moviendo
    BY DEF IInv, Despierta
  <2>4. QED
    BY <1>1, <2>1, <2>2, <2>3 DEF Despierta
<1>4. Lugares'
  <2>1. ASSUME NEW d \in Cpu, exec'[d] # Nadie PROVE estado'[exec'[d]] = "EXEC"
    BY <1>1, <2>1 DEF IInv, VuelveAReady, Pone, programa, Hilos, Sujeto, Lugares
  <2>2. ASSUME NEW q \in duermen' PROVE estado'[q] \in {"BLOCK", "SUSP_BLOCK"}
    BY <1>1, <2>2 DEF IInv, VuelveAReady, Pone, programa, Hilos, Sujeto, Lugares
  <2>3. QED
    BY <2>1, <2>2 DEF Lugares
<1>5. Mutexs'
  <2> SUFFICES ASSUME NEW n \in Mutex PROVE (Duenio(n) /\ Fila(n))'
    BY DEF Mutexs
  <2>1. Duenio(n)'
    BY <1>1 DEF IInv, VuelveAReady, programa, mutex, Mutexs, Duenio, Soltando
  <2>2. Fila(n)'
    BY <1>1 DEF IInv, VuelveAReady, Pone, programa, mutex, Hilos, Sujeto, Mutexs, Fila, Bloqueado
  <2>3. QED
    BY <2>1, <2>2
<1>6. Usos'
  BY <1>1 DEF IInv, VuelveAReady, programa, mutex, Pidiendo, Usos, Uso
<1>7. QED
  BY <1>1, <1>2, <1>3, <1>4, <1>5, <1>6 DEF IInv

LEMMA ConMiraSiExiste ==
    ASSUME UnaCpu, IInv, NEW c \in Cpu, MiraSiExiste(c)
    PROVE  IInv'
<1>1. Cpu = {c} /\ Tipos'
  BY DEF UnaCpu, IInv, Hilo, MiraSiExiste, Sigue, programa, mutex, Tipos, Paso
<1>2. Hilos'
  BY <1>1 DEF IInv, MiraSiExiste, Sigue, programa, mutex, Hilos, Sujeto, Lock, Unlock, Pidiendo, Soltando, Moviendo
<1>3. Despierta'
  BY <1>1 DEF IInv, MiraSiExiste, Sigue, programa, Despierta, Moviendo
<1>4. Lugares'
  BY <1>1 DEF IInv, MiraSiExiste, programa, Lugares
<1>5. Mutexs'
  <2> SUFFICES ASSUME NEW n \in Mutex PROVE (Duenio(n) /\ Fila(n))'
    BY DEF Mutexs
  <2>1. Duenio(n)'
    BY <1>1 DEF IInv, MiraSiExiste, programa, mutex, Mutexs, Duenio, Soltando
  <2>2. Fila(n)'
    BY <1>1 DEF IInv, MiraSiExiste, programa, mutex, Mutexs, Fila
  <2>3. QED
    BY <2>1, <2>2
<1>6. Usos'
  <2> SUFFICES ASSUME NEW q \in Pid, en_uso'[q] # Nadie PROVE Uso(q)'
    BY DEF Uso, Usos
  <2>1. Uso(q)
    BY DEF IInv, Usos
  <2>2. Uso(q)'
    BY <1>1, <2>1 DEF MiraSiExiste, programa, mutex, Pidiendo, Uso
  <2>3. QED
    BY <2>2
<1>7. QED
  BY <1>1, <1>2, <1>3, <1>4, <1>5, <1>6 DEF IInv

LEMMA ConCrea ==
    ASSUME UnaCpu, IInv, NEW c \in Cpu, Crea(c)
    PROVE  IInv'
<1>1. Cpu = {c} /\ Tipos'
  <2>1. Cpu = {c}
    BY DEF UnaCpu
  <2>2. Tipos'
    BY <2>1 DEF IInv, Hilo, Crea, Sigue, programa, Paso, Tipos, Hilos, Sujeto
  <2>3. QED
    BY <2>1, <2>2
<1>2. Hilos'
  BY <1>1 DEF IInv, Crea, Sigue, programa, Tipos, Hilos, Sujeto, Lock, Unlock, Pidiendo, Soltando, Moviendo
<1>3. Despierta'
  BY <1>1 DEF IInv, Crea, Sigue, programa, Despierta, Moviendo
<1>4. Lugares'
  BY <1>1 DEF IInv, Crea, programa, Lugares
<1>5. Mutexs'
  BY <1>1 DEF IInv, Crea, programa, Hilos, Lock, Mutexs, Duenio, Fila
<1>6. Usos'
  BY <1>1 DEF IInv, Crea, programa, Hilos, Lock, Usos, Uso
<1>7. QED
  BY <1>1, <1>2, <1>3, <1>4, <1>5, <1>6 DEF IInv

LEMMA ConMiraOwner ==
    ASSUME UnaCpu, IInv, NEW c \in Cpu, MiraOwner(c)
    PROVE  IInv'
<1>1. Cpu = {c} /\ Tipos'
  BY DEF UnaCpu, IInv, Hilo, MiraOwner, Sigue, programa, mutex, Tipos, Paso
<1>2. Hilos'
  BY <1>1 DEF IInv, MiraOwner, Sigue, programa, mutex, Hilos, Sujeto, Lock, Unlock, Pidiendo, Soltando, Moviendo
<1>3. Despierta'
  BY <1>1 DEF IInv, MiraOwner, Sigue, programa, Despierta, Moviendo
<1>4. Lugares'
  BY <1>1 DEF IInv, MiraOwner, programa, Lugares
<1>5. Mutexs'
  BY <1>1 DEF IInv, MiraOwner, programa, mutex, Mutexs, Duenio, Fila, Soltando
<1>6. Usos'
  BY <1>1 DEF IInv, MiraOwner, Sigue, programa, mutex, Pidiendo, Usos, Uso
<1>7. QED
  BY <1>1, <1>2, <1>3, <1>4, <1>5, <1>6 DEF IInv

LEMMA ConToma ==
    ASSUME UnaCpu, IInv, NEW c \in Cpu, Toma(c)
    PROVE  IInv'
<1>1. Cpu = {c} /\ Tipos'
  <2>1. Cpu = {c}
    BY DEF UnaCpu
  <2>2. Tipos'
    BY <2>1 DEF IInv, Toma, Sigue, programa, Paso, Tipos
  <2>3. QED
    BY <2>1, <2>2
<1>2. Hilos'
  BY <1>1 DEF IInv, Toma, Sigue, programa, Tipos, Hilos, Sujeto, Lock, Unlock, Pidiendo, Soltando, Moviendo
<1>3. Despierta'
  BY <1>1 DEF IInv, Toma, Sigue, programa, Despierta, Moviendo
<1>4. Lugares'
  BY <1>1 DEF IInv, Toma, programa, Lugares
<1>5. Mutexs'
  BY <1>1 DEF IInv, Toma, programa, Hilos, Lock, Mutexs, Duenio, Fila, Pidiendo
<1>6. Usos'
  <2> SUFFICES ASSUME NEW q \in Pid, en_uso'[q] # Nadie PROVE Uso(q)'
    BY DEF Uso, Usos
  <2>1. Uso(q)
    BY DEF IInv, Usos
  <2>2. Uso(q)'
    BY <1>1, <2>1, NadieAssumption DEF IInv, Toma, programa, Tipos, Hilos, Lock, Uso
  <2>3. QED
    BY <2>2
<1>7. QED
  BY <1>1, <1>2, <1>3, <1>4, <1>5, <1>6 DEF IInv

LEMMA ConBloquea ==
    ASSUME UnaCpu, IInv, NEW c \in Cpu, Bloquea(c)
    PROVE  IInv'
<1>1. Cpu = {c} /\ Tipos'
  <2>1. Cpu = {c}
    BY DEF UnaCpu
  <2>2. Tipos'
    BY <2>1 DEF IInv, Bloquea, Pone, Sigue, programa, mutex, Estado, Paso, Tipos
  <2>3. QED
    BY <2>1, <2>2
<1>2. Hilos'
  BY <1>1 DEF IInv, Bloquea, Pone, Sigue, programa, mutex, Tipos, Hilos, Sujeto, Lock, Unlock, Pidiendo,
     Soltando, Moviendo, Bloqueado
<1>3. Despierta'
  <2>1. /\ pc'[Sleep] = pc[Sleep] /\ movido'[Sleep] = movido[Sleep] /\ duermen' = duermen
        /\ sujeto[c] \in Pid /\ pc[c] = "bloquea" /\ pc'[c] \notin Moviendo /\ Sleep # c
    BY <1>1, HiloAssumption, NadieAssumption DEF Bloquea, Pone, Sigue, programa, mutex, hilos, IInv, Tipos,
       Hilo, Hilos, Sujeto, Moviendo
  <2>2. ASSUME pc[Sleep] # "espera"
        PROVE  /\ movido[Sleep] \in Pid /\ movido[Sleep] # sujeto[c] /\ movido[Sleep] \notin duermen
               /\ estado'[movido[Sleep]] = "MANO" /\ sujeto'[c] # movido[Sleep]
    BY <1>1, <2>1, <2>2, NadieAssumption DEF Bloquea, Pone, Sigue, programa, mutex, hilos, IInv, Tipos, Despierta
  <2>3. pc[Sleep] \in {"espera"} \cup Moviendo
    BY DEF IInv, Despierta
  <2>4. QED
    BY <1>1, <2>1, <2>2, <2>3 DEF Despierta
<1>4. Lugares'
  BY <1>1 DEF IInv, Bloquea, Pone, programa, Hilos, Sujeto, Lugares
<1>5. Mutexs'
  BY <1>1 DEF IInv, Bloquea, Pone, programa, mutex, Mutexs, Duenio, Fila, Soltando, Bloqueado
<1>6. Usos'
  BY <1>1 DEF IInv, Bloquea, Sigue, programa, mutex, Pidiendo, Usos, Uso
<1>7. QED
  BY <1>1, <1>2, <1>3, <1>4, <1>5, <1>6 DEF IInv

LEMMA ConEncola ==
    ASSUME UnaCpu, IInv, NEW c \in Cpu, Encola(c)
    PROVE  IInv'
<1>1. Cpu = {c} /\ Tipos'
  <2>1. Cpu = {c}
    BY DEF UnaCpu
  <2>2. Tipos'
    BY <2>1 DEF IInv, Hilo, Encola, Sigue, programa, Paso, Tipos, Hilos, Sujeto
  <2>3. QED
    BY <2>1, <2>2
<1>2. Hilos'
  BY <1>1 DEF IInv, Encola, Sigue, programa, Tipos, Hilos, Sujeto, Lock, Unlock, Pidiendo, Soltando, Moviendo
<1>3. Despierta'
  BY <1>1 DEF IInv, Encola, Sigue, programa, Despierta, Moviendo
<1>4. Lugares'
  BY <1>1 DEF IInv, Encola, programa, Lugares
<1>5. /\ pc[c] = "encola" /\ sujeto[c] \in Pid /\ m_name[c] \in Mutex /\ owner[m_name[c]] # Nadie
      /\ sujeto[c] \notin duermen /\ sujeto[c] # owner[m_name[c]] /\ estado[sujeto[c]] \in Bloqueado
      /\ en_uso[sujeto[c]] = m_name[c] /\ sujeto[c] \notin Elems(bloqueados[m_name[c]])
      /\ pc' = [pc EXCEPT ![c] = "hereda"]
  BY DEF Encola, Sigue, IInv, Hilos, Sujeto, Lock, Pidiendo
<1>6. /\ SinRepetir(bloqueados'[m_name[c]])
      /\ Elems(bloqueados'[m_name[c]]) = Elems(bloqueados[m_name[c]]) \cup {sujeto[c]}
      /\ \A n \in Mutex : n # m_name[c] => bloqueados'[n] = bloqueados[n]
  <2>1. bloqueados[m_name[c]] \in Seq(Pid) /\ SinRepetir(bloqueados[m_name[c]])
    BY <1>5 DEF IInv, Tipos, Mutexs, Fila
  <2>2. bloqueados'[m_name[c]] = Append(bloqueados[m_name[c]], sujeto[c]) /\ \A n \in Mutex : n # m_name[c] => bloqueados'[n] = bloqueados[n]
    BY <1>5 DEF Encola, IInv, Tipos
  <2>3. QED
    BY <1>5, <2>1, <2>2, ColaAppend
<1>7. Mutexs'
  <2> SUFFICES ASSUME NEW n \in Mutex PROVE (Duenio(n) /\ Fila(n))'
    BY DEF Mutexs
  <2>1. Duenio(n)'
    BY <1>1, <1>5 DEF Encola, Sigue, programa, mutex, hilos, IInv, Mutexs, Duenio, Soltando
  <2>2. Fila(n)'
    BY <1>1, <1>5, <1>6 DEF Encola, Sigue, programa, mutex, hilos, IInv, Mutexs, Fila
  <2>3. QED
    BY <2>1, <2>2
<1>8. Usos'
  <2> SUFFICES ASSUME NEW q \in Pid, en_uso'[q] # Nadie PROVE Uso(q)'
    BY DEF Uso, Usos
  <2>1. Uso(q) /\ en_uso' = en_uso /\ en_uso[q] \in Mutex
    BY DEF Encola, Sigue, programa, mutex, hilos, IInv, Usos, Tipos
  <2>2. CASE q = sujeto[c]
    BY <1>5, <1>6, <2>1, <2>2 DEF Encola, Sigue, programa, mutex, hilos, Uso
  <2>3. CASE q # sujeto[c]
    BY <1>1, <1>5, <1>6, <2>1, <2>3 DEF Encola, Sigue, programa, mutex, hilos, Uso
  <2>4. QED
    BY <2>2, <2>3
<1>9. QED
  BY <1>1, <1>2, <1>3, <1>4, <1>7, <1>8 DEF IInv

LEMMA ConHereda ==
    ASSUME UnaCpu, IInv, NEW c \in Cpu, Hereda(c)
    PROVE  IInv'
<1>1. Cpu = {c} /\ Tipos'
  BY DEF UnaCpu, IInv, Hilo, Hereda, Sigue, programa, Tipos, Paso
<1>2. Hilos'
  BY <1>1 DEF Hereda, Sigue, Tipos, Hilos, Sujeto, Lock, Unlock, Pidiendo, Soltando, Moviendo
<1>3. Despierta'
  BY <1>1, NadieAssumption DEF IInv, Hereda, Sigue, programa, Despierta, Moviendo
<1>4. Lugares'
  BY <1>1 DEF IInv, Hereda, programa, Lugares
<1>5. Mutexs'
  <2> SUFFICES ASSUME NEW n \in Mutex PROVE (Duenio(n) /\ Fila(n))'
    BY DEF Mutexs
  <2>1. Duenio(n)'
    BY <1>1 DEF IInv, Hereda, programa, Mutexs, Duenio, Soltando
  <2>2. Fila(n)'
    BY <1>1 DEF IInv, Hereda, programa, Mutexs, Fila
  <2>3. QED
    BY <2>1, <2>2
<1>6. Usos'
  BY <1>1 DEF IInv, Hereda, programa, Pidiendo, Usos, Uso
<1>7. QED
  BY <1>1, <1>2, <1>3, <1>4, <1>5, <1>6 DEF IInv

LEMMA ConRestauraPrioridad ==
    ASSUME UnaCpu, IInv, NEW c \in Cpu, RestauraPrioridad(c)
    PROVE  IInv'
<1>1. Cpu = {c} /\ Tipos'
  BY DEF UnaCpu, IInv, Hilo, RestauraPrioridad, Sigue, programa, mutex, Tipos, Paso
<1>2. Hilos'
  BY <1>1 DEF IInv, RestauraPrioridad, Sigue, programa, mutex, Hilos, Sujeto, Lock, Unlock, Pidiendo, Soltando,
     Moviendo
<1>3. Despierta'
  BY <1>1 DEF IInv, RestauraPrioridad, Sigue, programa, Despierta, Moviendo
<1>4. Lugares'
  BY <1>1 DEF IInv, RestauraPrioridad, programa, Lugares
<1>5. Mutexs'
  BY <1>1 DEF IInv, RestauraPrioridad, Sigue, programa, mutex, Mutexs, Duenio, Fila, Soltando
<1>6. Usos'
  BY <1>1 DEF IInv, RestauraPrioridad, programa, mutex, Pidiendo, Usos, Uso
<1>7. QED
  BY <1>1, <1>2, <1>3, <1>4, <1>5, <1>6 DEF IInv

LEMMA ConSuelta ==
    ASSUME UnaCpu, IInv, NEW c \in Cpu, Suelta(c)
    PROVE  IInv'
<1>1. Cpu = {c} /\ Tipos'
  <2>1. Cpu = {c}
    BY DEF UnaCpu
  <2>2. Tipos'
    BY <2>1 DEF IInv, Suelta, Sigue, programa, Paso, Tipos
  <2>3. QED
    BY <2>1, <2>2
<1>2. Hilos'
  BY <1>1 DEF IInv, Suelta, Sigue, programa, Tipos, Hilos, Sujeto, Lock, Unlock, Pidiendo, Soltando, Moviendo
<1>3. Despierta'
  BY <1>1 DEF IInv, Suelta, Sigue, programa, Despierta, Moviendo
<1>4. Lugares'
  BY <1>1 DEF IInv, Suelta, programa, Lugares
<1>5. Mutexs'
  <2> SUFFICES ASSUME NEW n \in Mutex PROVE (Duenio(n) /\ Fila(n))'
    BY DEF Mutexs
  <2>1. Duenio(n)'
    BY <1>1 DEF IInv, Suelta, programa, Tipos, Mutexs, Duenio
  <2>2. Fila(n)'
    BY <1>1, NadieAssumption DEF IInv, Suelta, programa, Hilos, Unlock, Mutexs, Fila
  <2>3. QED
    BY <2>1, <2>2
<1>6. Usos'
  <2> SUFFICES ASSUME NEW q \in Pid, en_uso'[q] # Nadie PROVE Uso(q)'
    BY DEF Uso, Usos
  <2>1. Uso(q)
    BY DEF IInv, Usos
  <2>2. Uso(q)'
    BY <1>1, <2>1 DEF IInv, Suelta, programa, Hilos, Unlock, Soltando, Uso
  <2>3. QED
    BY <2>2
<1>7. QED
  BY <1>1, <1>2, <1>3, <1>4, <1>5, <1>6 DEF IInv

LEMMA ConPasa ==
    ASSUME UnaCpu, IInv, NEW c \in Cpu, Pasa(c)
    PROVE  IInv'
<1>1. Cpu = {c} /\ Tipos'
  <2>1. Cpu = {c}
    BY DEF UnaCpu
  <2>2. Tipos'
    BY <2>1 DEF IInv, Hilo, Pasa, Sigue, programa, Paso, Tipos, Hilos, Sujeto, Unlock
  <2>3. QED
    BY <2>1, <2>2
<1>2. /\ pc[c] = "pasa" /\ sujeto[c] \in Pid /\ m_name[c] \in Mutex /\ owner[m_name[c]] = sujeto[c]
      /\ sujeto[c] \notin duermen /\ estado[sujeto[c]] = "MANO" /\ en_uso[sujeto[c]] = Nadie
      /\ bloqueados[m_name[c]] # <<>> /\ c \in Hilo /\ c # Sleep /\ pc' = [pc EXCEPT ![c] = "saca"]
      /\ sujeto[c] # Nadie
  BY HiloAssumption, NadieAssumption DEF Pasa, Sigue, IInv, Hilos, Sujeto, Unlock, Soltando, Hilo
<1> DEFINE proximo == Head(bloqueados[m_name[c]])
<1>3. /\ proximo \in Pid /\ proximo \in Elems(bloqueados[m_name[c]])
      /\ Elems(bloqueados'[m_name[c]]) = Elems(bloqueados[m_name[c]]) \ {proximo}
      /\ SinRepetir(bloqueados'[m_name[c]])
      /\ owner'[m_name[c]] = proximo /\ movido'[c] = proximo /\ movido'[Sleep] = movido[Sleep]
      /\ \A n \in Mutex : n # m_name[c] => bloqueados'[n] = bloqueados[n] /\ owner'[n] = owner[n]
  <2>1. bloqueados[m_name[c]] \in Seq(Pid) /\ SinRepetir(bloqueados[m_name[c]])
    BY <1>2 DEF IInv, Tipos, Mutexs, Fila
  <2>2. /\ bloqueados'[m_name[c]] = Tail(bloqueados[m_name[c]])
        /\ owner'[m_name[c]] = proximo /\ movido'[c] = proximo /\ movido'[Sleep] = movido[Sleep]
        /\ \A n \in Mutex : n # m_name[c] => bloqueados'[n] = bloqueados[n] /\ owner'[n] = owner[n]
    BY <1>2 DEF Pasa, IInv, Tipos, Hilo
  <2>3. QED
    BY <1>2, <2>1, <2>2, ColaTail
<1>4. /\ en_uso[proximo] = m_name[c] /\ proximo \notin duermen /\ proximo # sujeto[c] /\ proximo # Nadie
      /\ estado[proximo] \in Bloqueado
  BY <1>2, <1>3, NadieAssumption DEF IInv, Mutexs, Fila
<1> HIDE DEF proximo
<1>5. Hilos'
  BY <1>1, <1>2, <1>3, <1>4 DEF Pasa, programa, Tipos, Hilos, Sujeto, Lock, Unlock, Pidiendo, Soltando
<1>6. Despierta' /\ Lugares'
  BY <1>1, <1>2, <1>3 DEF Pasa, Sigue, programa, mutex, hilos, IInv, Despierta, Lugares, Tipos, Moviendo
<1>7. Mutexs'
  <2> SUFFICES ASSUME NEW n \in Mutex PROVE (Duenio(n) /\ Fila(n))'
    BY DEF Mutexs
  <2>1. Duenio(n) /\ Fila(n) /\ (m_name[c] = n => n \in dic_mutex)
    BY <1>2 DEF IInv, Mutexs, Duenio
  <2>2. Duenio(n)'
    BY <1>1, <1>2, <1>3, <1>4, <2>1 DEF Pasa, Sigue, programa, mutex, hilos, Duenio, Soltando
  <2>3. Fila(n)'
    BY <1>1, <1>2, <1>3, <1>4, <2>1, NadieAssumption DEF Pasa, Sigue, programa, mutex, hilos, Fila
  <2>4. QED
    BY <2>2, <2>3
<1>8. Usos'
  <2> SUFFICES ASSUME NEW q \in Pid, en_uso'[q] # Nadie PROVE Uso(q)'
    BY DEF Uso, Usos
  <2>1. Uso(q) /\ en_uso' = en_uso /\ en_uso[q] \in Mutex
    BY DEF Pasa, Sigue, programa, mutex, hilos, IInv, Usos, Tipos
  <2>2. CASE q = proximo
    BY <1>2, <1>3, <1>4, <2>1, <2>2 DEF Pasa, Sigue, programa, mutex, hilos, Uso
  <2>3. CASE q # proximo
    BY <1>1, <1>2, <1>3, <1>4, <2>1, <2>3 DEF Pasa, Sigue, programa, mutex, hilos, Uso, Pidiendo
  <2>4. QED
    BY <2>2, <2>3
<1>9. QED
  BY <1>1, <1>5, <1>6, <1>7, <1>8 DEF IInv

LEMMA ConSacaDeBlock ==
    ASSUME UnaCpu, IInv, NEW c \in Cpu, SacaDeBlock(c)
    PROVE  IInv'
<1>1. Cpu = {c} /\ Tipos'
  <2>1. Cpu = {c}
    BY DEF UnaCpu
  <2>2. Tipos'
    BY <2>1 DEF IInv, SacaDeBlock, Pone, Sigue, programa, mutex, Estado, Paso, Tipos, Pidiendo
  <2>3. QED
    BY <2>1, <2>2
<1>2. Hilos'
  BY <1>1 DEF IInv, Hilo, SacaDeBlock, Pone, Sigue, programa, mutex, Tipos, Hilos, Sujeto, Lock, Unlock,
     Pidiendo, Soltando, Moviendo
<1>3. Despierta'
  BY <1>1 DEF IInv, Hilo, SacaDeBlock, Pone, Sigue, programa, Tipos, Despierta, Moviendo
<1>4. Lugares'
  <2>1. ASSUME NEW d \in Cpu, exec'[d] # Nadie PROVE estado'[exec'[d]] = "EXEC"
    BY <1>1, <2>1 DEF IInv, SacaDeBlock, Pone, programa, Tipos, Lugares
  <2>2. ASSUME NEW q \in duermen' PROVE estado'[q] \in {"BLOCK", "SUSP_BLOCK"}
    <3>1. q \in duermen /\ q \in Pid /\ estado[q] \in {"BLOCK", "SUSP_BLOCK"}
      BY <2>2 DEF SacaDeBlock, programa, IInv, Tipos, Lugares
    <3>2. movido[c] \notin duermen
      BY DEF SacaDeBlock, IInv, Hilos, Unlock
    <3>3. estado'[q] = estado[q]
      BY <3>1, <3>2 DEF SacaDeBlock, Pone, IInv, Tipos
    <3>4. QED
      BY <3>1, <3>3
  <2>3. QED
    BY <2>1, <2>2 DEF Lugares
<1>5. Mutexs'
  <2> SUFFICES ASSUME NEW n \in Mutex PROVE (Duenio(n) /\ Fila(n))'
    BY DEF Mutexs
  <2>1. Duenio(n)'
    BY <1>1 DEF IInv, SacaDeBlock, programa, mutex, Mutexs, Duenio, Soltando
  <2>2. Fila(n)'
    <3>1. movido[c] \notin Elems(bloqueados[n]) /\ Fila(n)
      BY <1>1, NadieAssumption DEF IInv, SacaDeBlock, Hilos, Sujeto, Unlock, Mutexs, Duenio, Fila, Soltando
    <3>2. QED
      BY <3>1 DEF SacaDeBlock, Pone, programa, mutex, IInv, Tipos, Fila
  <2>3. QED
    BY <2>1, <2>2
<1>6. Usos'
  <2> SUFFICES ASSUME NEW q \in Pid, en_uso'[q] # Nadie PROVE Uso(q)'
    BY DEF Uso, Usos
  <2>1. Uso(q)
    BY DEF IInv, Usos
  <2>2. Uso(q)'
    BY <1>1, <2>1 DEF SacaDeBlock, programa, mutex, Pidiendo, Uso
  <2>3. QED
    BY <2>2
<1>7. QED
  BY <1>1, <1>2, <1>3, <1>4, <1>5, <1>6 DEF IInv

LEMMA ConRecalcula ==
    ASSUME UnaCpu, IInv, NEW h \in Hilo, Recalcula(h)
    PROVE  IInv'
<1>1. (\A x, y \in Cpu : x = y) /\ Tipos'
  BY DEF UnaCpu, IInv, Recalcula, Sigue, programa, Tipos, Paso
<1>2. Hilos'
  BY <1>1 DEF IInv, Recalcula, Sigue, programa, Hilos, Sujeto, Lock, Unlock, Pidiendo, Soltando, Moviendo
<1>3. Despierta'
  BY <1>1 DEF IInv, Recalcula, Sigue, programa, Despierta, Moviendo
<1>4. Lugares'
  BY <1>1 DEF IInv, Recalcula, programa, Lugares
<1>5. Mutexs'
  BY <1>1 DEF IInv, Recalcula, Sigue, programa, Mutexs, Duenio, Fila, Soltando
<1>6. Usos'
  <2> SUFFICES ASSUME NEW q \in Pid, en_uso'[q] # Nadie PROVE Uso(q)'
    BY DEF Uso, Usos
  <2>1. Uso(q)
    BY DEF IInv, Usos
  <2>2. Uso(q)'
    BY <1>1, <2>1 DEF Recalcula, Sigue, programa, Pidiendo, Uso
  <2>3. QED
    BY <2>2
<1>7. QED
  BY <1>1, <1>2, <1>3, <1>4, <1>5, <1>6 DEF IInv

LEMMA ConEncolaEnReady ==
    ASSUME UnaCpu, IInv, NEW h \in Hilo, EncolaEnReady(h)
    PROVE  IInv'
<1>1. (\A x, y \in Cpu : x = y) /\ Tipos'
  BY DEF UnaCpu, IInv, EncolaEnReady, Pone, Sigue, programa, mutex, Tipos, Estado, Paso
<1>2. Hilos'
  <2> SUFFICES ASSUME NEW d \in Cpu PROVE (Sujeto(d) /\ Lock(d) /\ Unlock(d))'
    BY DEF Hilos
  <2>0. /\ movido[h] \in Pid /\ Sujeto(d) /\ (sujeto[d] \in Pid => sujeto[d] # movido[h])
        /\ pc[h] = "encola_en_ready"
        /\ (pc'[d] \in {"encola", "hereda"} <=> pc[d] \in {"encola", "hereda"})
        /\ (pc'[d] = "espera" <=> pc[d] = "espera") /\ (pc'[d] = "a_ready" => d = h \/ pc[d] = "a_ready")
    BY <1>1, HiloAssumption, NadieAssumption DEF EncolaEnReady, Sigue, IInv, Hilo, Tipos, Hilos, Sujeto, Unlock,
       Despierta, Moviendo
  <2>1. Sujeto(d)'
    BY <2>0, <1>1 DEF EncolaEnReady, Pone, Sigue, programa, Sujeto
  <2>2. Lock(d)'
    BY <1>1 DEF IInv, EncolaEnReady, Sigue, programa, mutex, Hilos, Lock, Pidiendo
  <2>3. Unlock(d)'
    BY <1>1 DEF IInv, Hilo, EncolaEnReady, Pone, Sigue, programa, mutex, Tipos, Hilos, Unlock, Despierta,
       Soltando, Moviendo, Bloqueado
  <2>4. QED
    BY <2>1, <2>2, <2>3
<1>3. Despierta'
  BY <1>1 DEF IInv, Hilo, EncolaEnReady, Pone, Sigue, programa, Tipos, Despierta, Moviendo
<1>4. Lugares'
  <2>1. ASSUME NEW d \in Cpu, exec'[d] # Nadie PROVE estado'[exec'[d]] = "EXEC"
    BY <1>1, <2>1 DEF IInv, Hilo, EncolaEnReady, Pone, programa, Hilos, Unlock, Lugares, Despierta, Moviendo
  <2>2. ASSUME NEW q \in duermen' PROVE estado'[q] \in {"BLOCK", "SUSP_BLOCK"}
    BY <1>1, <2>2 DEF IInv, Hilo, EncolaEnReady, Pone, programa, Hilos, Unlock, Lugares, Despierta, Moviendo
  <2>3. QED
    BY <2>1, <2>2 DEF Lugares
<1>5. Mutexs'
  <2> SUFFICES ASSUME NEW n \in Mutex PROVE (Duenio(n) /\ Fila(n))'
    BY DEF Mutexs
  <2>1. Duenio(n)'
    BY <1>1 DEF IInv, EncolaEnReady, Sigue, programa, mutex, Mutexs, Duenio, Soltando
  <2>2. Fila(n)'
    BY <1>1 DEF IInv, Hilo, EncolaEnReady, Pone, programa, mutex, Hilos, Unlock, Mutexs, Fila, Despierta,
       Moviendo, Bloqueado
  <2>3. QED
    BY <2>1, <2>2
<1>6. Usos'
  <2> SUFFICES ASSUME NEW q \in Pid, en_uso'[q] # Nadie PROVE Uso(q)'
    BY DEF Uso, Usos
  <2>1. Uso(q)
    BY DEF IInv, Usos
  <2>2. Uso(q)'
    BY <1>1, <2>1 DEF EncolaEnReady, Sigue, programa, mutex, Pidiendo, Uso
  <2>3. QED
    BY <2>2
<1>7. QED
  BY <1>1, <1>2, <1>3, <1>4, <1>5, <1>6 DEF IInv

LEMMA ConFinSleep ==
    ASSUME UnaCpu, IInv, NEW p \in Pid, FinSleep(p)
    PROVE  IInv'
<1>1. (\A x, y \in Cpu : x = y) /\ Tipos'
  <2>1. \A x, y \in Cpu : x = y
    BY DEF UnaCpu
  <2>2. Tipos'
    BY <2>1, HiloAssumption, NadieAssumption DEF IInv, Hilo, FinSleep, Pone, Sigue, mutex, Estado, Paso, Tipos,
       Hilos, Lock, Unlock, Mutexs, Duenio, Fila, Soltando, Moviendo
  <2>3. QED
    BY <2>1, <2>2
<1>2. Hilos'
  BY <1>1, HiloAssumption DEF IInv, Hilo, FinSleep, Pone, Sigue, mutex, Tipos, Hilos, Sujeto, Lock, Unlock
<1>3. Despierta'
  <2>1. pc'[Sleep] \in {"espera"} \cup Moviendo
    BY <1>1 DEF Hilo, FinSleep, Sigue, Tipos, Moviendo
  <2>2. ASSUME pc'[Sleep] # "espera" PROVE movido'[Sleep] \in Pid /\ movido'[Sleep] \notin duermen' /\ estado'[movido'[Sleep]] = "MANO"
    BY <1>1, <2>2 DEF Hilo, FinSleep, Pone, Tipos
  <2>3. ASSUME pc'[Sleep] # "espera", NEW d \in Cpu PROVE sujeto'[d] # movido'[Sleep] /\ (pc'[d] \in Moviendo => movido'[d] # movido'[Sleep])
    BY <1>1, <2>3, HiloAssumption, NadieAssumption DEF IInv, Hilo, FinSleep, Pone, Sigue, Tipos, Hilos, Sujeto,
       Unlock, Moviendo
  <2>4. QED
    BY <2>1, <2>2, <2>3 DEF Despierta
<1>4. Lugares'
  BY <1>1 DEF IInv, FinSleep, Pone, Tipos, Lugares
<1>5. Mutexs'
  <2> SUFFICES ASSUME NEW n \in Mutex PROVE (Duenio(n) /\ Fila(n))'
    BY DEF Mutexs
  <2>1. Duenio(n)'
    BY <1>1, HiloAssumption, NadieAssumption DEF IInv, Hilo, FinSleep, Pone, Sigue, mutex, Tipos, Mutexs, Duenio
  <2>2. Fila(n)'
    BY <1>1 DEF IInv, FinSleep, Pone, mutex, Tipos, Mutexs, Fila
  <2>3. QED
    BY <2>1, <2>2
<1>6. Usos'
  <2> SUFFICES ASSUME NEW q \in Pid, en_uso'[q] # Nadie PROVE Uso(q)'
    BY DEF Uso, Usos
  <2>1. Uso(q)
    BY DEF IInv, Usos
  <2>2. Uso(q)'
    BY <1>1, <2>1, HiloAssumption DEF Hilo, FinSleep, Sigue, mutex, Tipos, Uso
  <2>3. QED
    BY <2>2
<1>7. QED
  BY <1>1, <1>2, <1>3, <1>4, <1>5, <1>6 DEF IInv

LEMMA ConSuspende ==
    ASSUME UnaCpu, IInv, NEW p \in Pid, Suspende(p)
    PROVE  IInv'
<1>1. (\A x, y \in Cpu : x = y) /\ Tipos'
  BY DEF UnaCpu, IInv, Suspende, Pone, programa, mutex, hilos, Tipos, Estado
<1>2. Hilos'
  BY <1>1 DEF IInv, Suspende, Pone, programa, mutex, hilos, Hilos, Sujeto, Lock, Unlock, Bloqueado
<1>3. Despierta'
  BY <1>1 DEF IInv, Suspende, Pone, programa, hilos, Despierta
<1>4. Lugares'
  BY <1>1 DEF IInv, Suspende, Pone, programa, Lugares
<1>5. Mutexs'
  BY <1>1 DEF IInv, Suspende, Pone, programa, mutex, hilos, Mutexs, Duenio, Fila, Bloqueado
<1>6. Usos'
  BY <1>1 DEF IInv, Suspende, programa, mutex, hilos, Usos, Uso
<1>7. QED
  BY <1>1, <1>2, <1>3, <1>4, <1>5, <1>6 DEF IInv

LEMMA ConDesuspende ==
    ASSUME UnaCpu, IInv, NEW p \in Pid, Desuspende(p)
    PROVE  IInv'
<1>1. (\A x, y \in Cpu : x = y) /\ Tipos'
  BY DEF UnaCpu, IInv, Desuspende, Pone, programa, mutex, hilos, Tipos, Estado
<1>2. Hilos'
  BY <1>1 DEF IInv, Desuspende, Pone, programa, mutex, hilos, Hilos, Sujeto, Lock, Unlock, Bloqueado
<1>3. Despierta'
  BY <1>1 DEF IInv, Desuspende, Pone, programa, hilos, Despierta
<1>4. Lugares'
  BY <1>1 DEF IInv, Desuspende, Pone, programa, Lugares
<1>5. Mutexs'
  BY <1>1 DEF IInv, Desuspende, Pone, programa, mutex, hilos, Mutexs, Duenio, Fila, Bloqueado
<1>6. Usos'
  BY <1>1 DEF IInv, Desuspende, programa, mutex, hilos, Usos, Uso
<1>7. QED
  BY <1>1, <1>2, <1>3, <1>4, <1>5, <1>6 DEF IInv

-----------------------------------------------------------------------------

LEMMA InvInicial == Init => IInv
<1> SUFFICES ASSUME Init PROVE IInv
  OBVIOUS
<1>1. Tipos
  BY DEF Init, Tipos, Estado, Paso
<1>2. Hilos /\ Despierta
  BY HiloAssumption DEF Init, Hilos, Sujeto, Lock, Unlock, Despierta, Hilo, Pidiendo, Soltando, Moviendo
<1>3. Lugares /\ Usos
  BY DEF Init, Lugares, Usos, Uso
<1>4. Mutexs
  <2>1. SinRepetir(<<>>) /\ Elems(<<>>) = {}
    BY DEF SinRepetir, Elems
  <2>2. QED
    BY <2>1 DEF Init, Mutexs, Duenio, Fila
<1>5. QED
  BY <1>1, <1>2, <1>3, <1>4 DEF IInv

LEMMA InvPaso == ASSUME UnaCpu PROVE IInv /\ [Next]_vars => IInv'
<1> SUFFICES ASSUME IInv, [Next]_vars PROVE IInv'
  OBVIOUS
<1>1. ASSUME NEW c \in Cpu, Programa(c) PROVE IInv'
  BY <1>1, ConInterrumpida, ConLlamaCreate, ConLlamaLock, ConLlamaUnlock, ConDuerme, ConSale DEF Programa
<1>2. ASSUME NEW c \in Cpu, Atiende(c) PROVE IInv'
  BY <1>2, ConVuelveAReady, ConMiraSiExiste, ConCrea, ConMiraOwner, ConToma, ConBloquea, ConEncola,
     ConHereda, ConRestauraPrioridad, ConSuelta, ConPasa, ConSacaDeBlock DEF Atiende
<1>3. ASSUME NEW c \in Cpu, NEW p \in Pid, Despacha(c, p) PROVE IInv'
  BY <1>3, ConDespacha
<1>4. ASSUME NEW h \in Hilo, Mueve(h) PROVE IInv'
  BY <1>4, ConRecalcula, ConEncolaEnReady DEF Mueve
<1>5. ASSUME NEW p \in Pid, FinSleep(p) \/ Suspende(p) \/ Desuspende(p) PROVE IInv'
  BY <1>5, ConFinSleep, ConSuspende, ConDesuspende
<1>6. CASE UNCHANGED vars
  BY <1>6 DEF vars, programa, mutex, hilos, IInv, Tipos, Hilos, Sujeto, Lock, Unlock, Despierta, Lugares,
     Mutexs, Duenio, Fila, Usos, Uso
<1>7. QED
  BY <1>1, <1>2, <1>3, <1>4, <1>5, <1>6 DEF Next, TodoTerminado

\* What a handler read of a mutex still holds when the handler uses it: on one CPU the
\* LOCKs and UNLOCKs of conexiones.c need no lock of their own against each other.
THEOREM InvSiempre == ASSUME UnaCpu PROVE Spec => []IInv
<1>1. Init => IInv
  BY InvInicial
<1>2. IInv /\ [Next]_vars => IInv'
  BY InvPaso
<1>3. QED
  BY <1>1, <1>2, PTL DEF Spec

\* On one CPU no two programs are ever inside the section of a mutex: a LOCK that lets a
\* program go on made it the owner, and no other LOCK or UNLOCK undoes that.
THEOREM ExclusionCorrecta == ASSUME UnaCpu PROVE Spec => []ExclusionMutua
<1>1. IInv => ExclusionMutua
  <2> SUFFICES ASSUME IInv, NEW m \in Mutex, NEW p \in Pid, EnSeccion(p, m) PROVE owner[m] = p
    BY DEF ExclusionMutua
  <2>1. en_uso[p] = m /\ (estado[p] \in {"READY", "EXEC"} \/ p \in duermen) /\ en_uso[p] # Nadie
    BY NadieAssumption DEF EnSeccion
  <2>2. p \notin Elems(bloqueados[m])
    BY <2>1 DEF IInv, Mutexs, Fila, Bloqueado
  <2>3. ASSUME NEW c \in Cpu, pc[c] \in Pidiendo, sujeto[c] = p PROVE FALSE
    BY <2>1, <2>3 DEF IInv, Hilos, Sujeto, Pidiendo, Bloqueado
  <2>4. QED
    BY <2>1, <2>2, <2>3 DEF IInv, Usos, Uso
<1>2. QED
  BY <1>1, InvSiempre, PTL

-----------------------------------------------------------------------------
(* The handlers implement Cerrojo.                                          *)

\* The program that asks has nothing and waits for nothing.
LEMMA NoOcupado ==
    ASSUME UnaCpu, IInv, NEW c \in Cpu, pc[c] \in Pidiendo
    PROVE  ~Cerrojos!Ocupado(sujeto[c])
<1>1. /\ sujeto[c] \in Pid /\ m_name[c] \in Mutex /\ en_uso[sujeto[c]] = m_name[c] /\ sujeto[c] # Nadie
      /\ owner[m_name[c]] # sujeto[c] /\ sujeto[c] \notin Elems(bloqueados[m_name[c]])
  BY NadieAssumption DEF IInv, Hilos, Sujeto, Lock, Pidiendo
<1>2. ASSUME NEW m \in Mutex, owner[m] = sujeto[c] PROVE FALSE
  BY <1>1, <1>2 DEF UnaCpu, IInv, Mutexs, Duenio, Pidiendo, Soltando
<1>3. ASSUME NEW m \in Mutex, sujeto[c] \in Elems(bloqueados[m]) PROVE FALSE
  BY <1>1, <1>3 DEF IInv, Mutexs, Fila
<1>4. QED
  BY <1>2, <1>3 DEF Cerrojos!Ocupado, Cerrojos!EnFila, Elems

LEMMA CerrojoPaso ==
    ASSUME UnaCpu
    PROVE  IInv /\ [Next]_vars => [Cerrojos!Next]_(Cerrojos!vars)
<1> SUFFICES ASSUME IInv, [Next]_vars PROVE [Cerrojos!Next]_(Cerrojos!vars)
  OBVIOUS
<1>1. ASSUME NEW c \in Cpu, Crea(c) PROVE UNCHANGED Cerrojos!vars
  <2>1. m_name[c] \in Mutex /\ owner[m_name[c]] = Nadie /\ bloqueados[m_name[c]] = <<>>
    BY <1>1 DEF Crea, IInv, Hilos, Sujeto, Lock, Mutexs, Duenio, Fila
  <2>2. QED
    BY <1>1, <2>1 DEF Crea, IInv, Tipos, Cerrojos!vars
<1>2. ASSUME NEW c \in Cpu, Toma(c) PROVE Cerrojos!Next
  <2>1. pc[c] = "toma" /\ sujeto[c] \in Pid /\ m_name[c] \in Mutex /\ owner[m_name[c]] = Nadie
    BY <1>2 DEF Toma, IInv, Hilos, Sujeto, Lock
  <2>2. bloqueados[m_name[c]] = <<>> /\ ~Cerrojos!Ocupado(sujeto[c])
    BY <2>1, NoOcupado DEF IInv, Mutexs, Fila, Pidiendo
  <2>3. Cerrojos!Toma(sujeto[c], m_name[c])
    BY <1>2, <2>1, <2>2 DEF Toma, Cerrojos!Toma
  <2>4. QED
    BY <2>1, <2>3 DEF Cerrojos!Next
<1>3. ASSUME NEW c \in Cpu, Encola(c) PROVE Cerrojos!Next
  <2>1. pc[c] = "encola" /\ sujeto[c] \in Pid /\ m_name[c] \in Mutex /\ owner[m_name[c]] # Nadie
    BY <1>3 DEF Encola, IInv, Hilos, Sujeto, Lock
  <2>2. ~Cerrojos!Ocupado(sujeto[c])
    BY <2>1, NoOcupado DEF Pidiendo
  <2>3. Cerrojos!Espera(sujeto[c], m_name[c])
    BY <1>3, <2>1, <2>2 DEF Encola, Cerrojos!Espera
  <2>4. QED
    BY <2>1, <2>3 DEF Cerrojos!Next
<1>4. ASSUME NEW c \in Cpu, Suelta(c) \/ Pasa(c) PROVE Cerrojos!Next
  <2>1. /\ sujeto[c] \in Pid /\ sujeto[c] # Nadie /\ m_name[c] \in Mutex /\ owner[m_name[c]] = sujeto[c]
        /\ Suelta(c) => bloqueados[m_name[c]] = <<>>
        /\ Pasa(c) => bloqueados[m_name[c]] # <<>>
    BY <1>4, NadieAssumption DEF Suelta, Pasa, IInv, Hilos, Sujeto, Unlock, Soltando
  <2>2. CASE Suelta(c)
    <3>1. bloqueados = [bloqueados EXCEPT ![m_name[c]] = bloqueados[m_name[c]]]
      BY DEF IInv, Tipos
    <3>2. Cerrojos!Suelta(m_name[c])
      BY <2>1, <2>2, <3>1 DEF Suelta, Cerrojos!Suelta
    <3>3. QED
      BY <2>1, <3>2 DEF Cerrojos!Next
  <2>3. CASE Pasa(c)
    <3>1. Cerrojos!Suelta(m_name[c])
      BY <2>1, <2>3 DEF Pasa, Cerrojos!Suelta
    <3>2. QED
      BY <2>1, <3>1 DEF Cerrojos!Next
  <2>4. QED
    BY <1>4, <2>2, <2>3
<1>5. ASSUME NEW c \in Cpu,
             Programa(c) \/ VuelveAReady(c) \/ MiraSiExiste(c) \/ MiraOwner(c) \/ Bloquea(c) \/ Hereda(c)
             \/ RestauraPrioridad(c) \/ SacaDeBlock(c) \/ \E p \in Pid : Despacha(c, p)
      PROVE  UNCHANGED Cerrojos!vars
  BY <1>5 DEF Programa, Interrumpida, LlamaCreate, LlamaLock, LlamaUnlock, Devuelve, Duerme, Sale,
     VuelveAReady, MiraSiExiste, MiraOwner, Bloquea, Hereda, RestauraPrioridad, SacaDeBlock, Despacha,
     mutex, Cerrojos!vars
<1>6. ASSUME NEW h \in Hilo, Mueve(h) PROVE UNCHANGED Cerrojos!vars
  BY <1>6 DEF Mueve, Recalcula, EncolaEnReady, mutex, Cerrojos!vars
<1>7. ASSUME NEW p \in Pid, FinSleep(p) \/ Suspende(p) \/ Desuspende(p) PROVE UNCHANGED Cerrojos!vars
  BY <1>7 DEF FinSleep, Suspende, Desuspende, mutex, Cerrojos!vars
<1>8. CASE UNCHANGED vars
  BY <1>8 DEF vars, mutex, Cerrojos!vars
<1>9. QED
  BY <1>1, <1>2, <1>3, <1>4, <1>5, <1>6, <1>7, <1>8 DEF Next, Atiende, TodoTerminado

\* On one CPU the LOCKs and UNLOCKs are those of Cerrojo: a mutex goes from its owner to
\* the first that waits for it, and is free only when nobody does.
THEOREM CerrojoCorrecto == ASSUME UnaCpu PROVE Spec => CumpleCerrojo
<1>1. Init => Cerrojos!Init
  BY DEF Init, Cerrojos!Init
<1>2. IInv /\ [Next]_vars => [Cerrojos!Next]_(Cerrojos!vars)
  BY CerrojoPaso
<1>3. QED
  BY <1>1, <1>2, InvSiempre, PTL DEF Spec, CumpleCerrojo, Cerrojos!Spec

-----------------------------------------------------------------------------
(* The owner goes on.                                                       *)

LEMMA OwnerPaso ==
    ASSUME UnaCpu, ~SuspensionCorta
    PROVE  IInv /\ OwnerSigue /\ [Next]_vars => OwnerSigue'
<1> SUFFICES ASSUME IInv, OwnerSigue, [Next]_vars, NEW m \in Mutex,
                    owner'[m] # Nadie, estado'[owner'[m]] \in {"BLOCK", "SUSP_BLOCK"},
                    owner'[m] \notin duermen'
             PROVE  \E c \in Cpu : pc'[c] = "saca" /\ movido'[c] = owner'[m]
  BY DEF OwnerSigue
<1> DEFINE Avisado(d) == pc[d] = "saca" /\ movido[d] = owner[m]
           Meta == \E d \in Cpu : Avisado(d)'
<1>1. ASSUME NEW c \in Cpu, Avisado(c)' PROVE Meta
  BY <1>1
<1>2. ASSUME owner[m] # Nadie, estado[owner[m]] \in {"BLOCK", "SUSP_BLOCK"}, owner[m] \notin duermen
      PROVE  \E d \in Cpu : Avisado(d)
  BY <1>2 DEF OwnerSigue
<1>3. m \in Mutex /\ owner[m] \in Pid \cup {Nadie} /\ estado \in [Pid -> Estado] /\ pc \in [Hilo -> Paso]
      /\ movido \in [Hilo -> Pid \cup {Nadie}] /\ owner \in [Mutex -> Pid \cup {Nadie}]
  BY DEF IInv, Tipos
<1> HIDE DEF Meta
<1>4. ASSUME NEW c \in Cpu, NEW p \in Pid,
             Interrumpida(c, p) \/ LlamaUnlock(c, p) \/ Duerme(c, p) \/ Sale(c, p) \/ Despacha(c, p)
             \/ \E n \in Mutex : LlamaCreate(c, p, n) \/ LlamaLock(c, p, n)
      PROVE  Meta
  <2>1. /\ owner' = owner /\ movido' = movido /\ p \notin duermen
        /\ estado' = [estado EXCEPT ![p] = estado'[p]]
        /\ p \in duermen' \/ (estado'[p] \notin {"BLOCK", "SUSP_BLOCK"} /\ duermen' = duermen)
        /\ duermen \subseteq duermen' /\ \A d \in Cpu : pc[d] = "saca" => pc'[d] = "saca"
    BY <1>3, <1>4 DEF Interrumpida, LlamaUnlock, Duerme, Sale, Despacha, LlamaCreate, LlamaLock, Devuelve, Pone,
       Sigue,
       hilos, mutex, IInv, Lugares, Hilo
  <2>2. owner[m] # p
    BY <2>1
  <2>3. QED
    BY <1>2, <1>3, <2>1, <2>2 DEF Meta
<1>5. ASSUME NEW c \in Cpu, VuelveAReady(c) \/ MiraSiExiste(c) \/ Crea(c) \/ MiraOwner(c) \/ Toma(c) \/ Bloquea(c)
             \/ Encola(c) \/ Hereda(c) \/ RestauraPrioridad(c) \/ Suelta(c)
      PROVE  Meta
  <2>1. pc[c] \notin {"saca", "espera"} /\ duermen' = duermen
    BY <1>5 DEF VuelveAReady, MiraSiExiste, Crea, MiraOwner, Toma, Bloquea, Encola, Hereda, RestauraPrioridad,
       Suelta, programa
  <2>2. sujeto[c] \in Pid /\ (pc[c] # "a_ready" => m_name[c] \in Mutex)
    BY <2>1 DEF IInv, Hilos, Sujeto
  <2>3. ~\E d \in Cpu : Avisado(d)
    BY <2>1 DEF UnaCpu
  <2>4. pc[c] = "bloquea" => owner[m] # sujeto[c]
    BY NoOcupado DEF Pidiendo, Cerrojos!Ocupado
  <2>5. pc[c] = "toma" => estado[sujeto[c]] = "MANO"
    BY DEF IInv, Hilos, Sujeto
  <2>6. owner[m] # Nadie /\ estado[owner[m]] \in {"BLOCK", "SUSP_BLOCK"} /\ owner[m] \notin duermen
    BY <1>3, <1>5, <2>1, <2>2, <2>4, <2>5, NadieAssumption DEF VuelveAReady, MiraSiExiste, Crea, MiraOwner,
       Toma, Bloquea, Encola, Hereda,
       RestauraPrioridad, Suelta, Pone, mutex
  <2>7. QED
    BY <1>2, <2>1, <2>3, <2>6
<1>6. ASSUME NEW c \in Cpu, Pasa(c) PROVE Meta
  <2>1. duermen' = duermen /\ estado' = estado /\ pc'[c] = "saca" /\ pc[c] = "pasa" /\ m_name[c] \in Mutex
        /\ movido'[c] = owner'[m_name[c]] /\ (m # m_name[c] => owner'[m] = owner[m])
    BY <1>3, <1>6 DEF Pasa, Sigue, programa, IInv, Hilos, Sujeto, Hilo
  <2>2. CASE m = m_name[c]
    BY <1>1, <2>1, <2>2
  <2>3. CASE m # m_name[c]
    BY <1>2, <2>1, <2>3 DEF UnaCpu
  <2>4. QED
    BY <2>2, <2>3
<1>7. ASSUME NEW c \in Cpu, SacaDeBlock(c) PROVE Meta
  <2>1. movido[c] \in Pid /\ estado[movido[c]] = "BLOCK"
    BY <1>7 DEF SacaDeBlock, IInv, Hilos, Unlock, Bloqueado
  <2>2. owner' = owner /\ duermen' = duermen /\ estado' = [estado EXCEPT ![movido[c]] = "MANO"]
    BY <1>7, <2>1 DEF SacaDeBlock, Pone, mutex, programa
  <2>3. owner[m] # movido[c] /\ estado[owner[m]] \in {"BLOCK", "SUSP_BLOCK"}
    BY <1>3, <2>1, <2>2
  <2>4. QED
    BY <1>2, <2>2, <2>3 DEF UnaCpu
<1>8. ASSUME NEW h \in Hilo, Mueve(h) PROVE Meta
  <2>1. /\ owner' = owner /\ duermen' = duermen /\ pc[h] \in Moviendo
        /\ estado'[owner[m]] = estado[owner[m]] \/ estado'[owner[m]] = "READY"
        /\ \A d \in Hilo : d # h => movido'[d] = movido[d] /\ pc'[d] = pc[d]
    BY <1>3, <1>8 DEF Mueve, Recalcula, EncolaEnReady, Pone, Sigue, mutex, programa, Moviendo
  <2>2. PICK d \in Cpu : Avisado(d)
    BY <1>2, <2>1
  <2>3. QED
    BY <1>1, <2>1, <2>2 DEF Moviendo, Hilo
<1>9. ASSUME NEW p \in Pid, FinSleep(p) \/ Suspende(p) \/ Desuspende(p) PROVE Meta
  <2>1. /\ owner' = owner /\ duermen \subseteq duermen' \cup {p}
        /\ \A d \in Cpu : movido'[d] = movido[d] /\ pc'[d] = pc[d]
    BY <1>3, <1>9, HiloAssumption DEF FinSleep, Suspende, Desuspende, Sigue, mutex, programa, hilos, Hilo
  <2>2. /\ owner[m] # p => estado'[owner[m]] = estado[owner[m]]
        /\ owner[m] = p => estado[p] \in {"BLOCK", "SUSP_BLOCK"} /\ duermen' = duermen
    BY <1>3, <1>9, <2>1 DEF FinSleep, Suspende, Desuspende, Pone, programa
  <2>3. \E d \in Cpu : Avisado(d)
    BY <1>2, <2>1, <2>2
  <2>4. QED
    BY <2>1, <2>3 DEF Meta
<1>10. CASE UNCHANGED vars
  BY <1>2, <1>10 DEF vars, programa, mutex, hilos, Meta
<1>11. QED
  BY <1>4, <1>5, <1>6, <1>7, <1>8, <1>9, <1>10 DEF Next, Programa, Atiende, TodoTerminado, Meta

\* With a SUSPENSION_TIMEOUT that does not pass in a MUTEX_LOCK, the process an UNLOCK
\* chooses is in cola_block, where mover_a_ready looks for it: no owner is left blocked.
THEOREM OwnerCorrecto ==
    ASSUME UnaCpu, ~SuspensionCorta
    PROVE  Spec => []ElOwnerNoEspera
<1>1. Init => OwnerSigue
  BY DEF Init, OwnerSigue
<1>2. IInv /\ OwnerSigue /\ [Next]_vars => OwnerSigue'
  BY OwnerPaso
<1>3. IInv /\ OwnerSigue => ElOwnerNoEspera
  BY DEF OwnerSigue, ElOwnerNoEspera
<1>4. QED
  BY <1>1, <1>2, <1>3, InvSiempre, PTL DEF Spec

-----------------------------------------------------------------------------
(* The priorities.                                                          *)

LEMMA MenorEsMinimo ==
    ASSUME NEW S, S \subseteq Nat, S # {}
    PROVE  Menor(S) \in S /\ \A y \in S : Menor(S) <= y
<1>1. PICK x \in S : \A y \in S : ~(<<y, x>> \in OpToRel(<, Nat))
  BY WFMin, NatLessThanWellFounded, Zenon
<1>2. \A y \in S : x <= y
  <2>1. SUFFICES ASSUME NEW y \in S PROVE ~(y < x)
    OBVIOUS
  <2>2. <<y, x>> \in Nat \X Nat
    OBVIOUS
  <2>3. QED
    BY <1>1, <2>2 DEF OpToRel
<1>3. QED
  BY <1>2 DEF Menor

PTipos ==
    /\ prioridad \in [Pid -> Cola]
    /\ prio_owner \in [Mutex -> Cola \cup {0}]
    /\ restan \in [Pid -> 0 .. MaxLlamadas]

\* Where UNLOCK has restored the priority of the owner, and who the owner inherits from.
Restaurada(c) ==
    /\ pc[c] \in {"suelta", "pasa"} => prioridad[sujeto[c]] = Original[sujeto[c]]
    /\ pc[c] = "hereda" => sujeto[c] \in Elems(bloqueados[m_name[c]])

Tope(m) == owner[m] # Nadie => prio_owner[m] <= Original[owner[m]]

\* HerenciaDebida, of one process.
Debida(p) == prioridad[p] # Original[p] =>
    \E m \in Mutex : owner[m] = p /\ \E w \in Elems(bloqueados[m]) :
        prioridad[w] = prioridad[p] /\ prioridad[p] < Original[p]

PInv ==
    /\ PTipos
    /\ \A c \in Cpu : Restaurada(c)
    /\ \A m \in Mutex : Tope(m)
    /\ \A p \in Pid : Debida(p)

\* The steps that change no priority, owner or queue.
LEMMA PQuieto ==
    ASSUME PInv, restan' \in [Pid -> 0 .. MaxLlamadas],
           prioridad' = prioridad, prio_owner' = prio_owner, owner' = owner, bloqueados' = bloqueados,
           \A d \in Cpu : pc'[d] \in {"suelta", "pasa", "hereda"} =>
               pc'[d] = pc[d] /\ sujeto'[d] = sujeto[d] /\ m_name'[d] = m_name[d]
    PROVE  PInv'
  BY DEF PInv, PTipos, Restaurada, Tope, Debida

LEMMA PMenor ==
    ASSUME PInv, NEW p \in Pid
    PROVE  prioridad[p] \in Nat /\ Original[p] \in Nat /\ prioridad[p] <= Original[p] /\ Original[p] \in Cola
<1>1. Original[p] \in Nat /\ Original[p] \in Cola
  BY NumerosAssumption DEF Cola
<1>2. prioridad[p] \in Nat
  BY NumerosAssumption DEF PInv, PTipos, Cola
<1>3. prioridad[p] # Original[p] => prioridad[p] < Original[p]
  BY DEF PInv, Debida
<1>4. QED
  BY <1>1, <1>2, <1>3

LEMMA PPrograma ==
    ASSUME IInv, PInv, NEW c \in Cpu, Programa(c) \/ \E p \in Pid : Despacha(c, p)
    PROVE  PInv'
<1>1. restan \in [Pid -> 0 .. MaxLlamadas] /\ pc \in [Hilo -> Paso]
  BY DEF IInv, Tipos, PInv, PTipos
<1>2. /\ prioridad' = prioridad /\ prio_owner' = prio_owner /\ owner' = owner /\ bloqueados' = bloqueados
      /\ \A d \in Cpu : pc'[d] \in {"suelta", "pasa", "hereda"} =>
               pc'[d] = pc[d] /\ sujeto'[d] = sujeto[d] /\ m_name'[d] = m_name[d]
  BY <1>1 DEF Programa, Interrumpida, LlamaCreate, LlamaLock, LlamaUnlock, Devuelve, Duerme, Sale, Despacha,
     Sigue, mutex, hilos, Hilo,
     IInv, Tipos
<1>3. restan' = restan \/ \E p \in Pid : Gasta(p)
  BY DEF Programa, Interrumpida, LlamaCreate, LlamaLock, LlamaUnlock, Devuelve, Duerme, Sale, Despacha
<1>4. restan' \in [Pid -> 0 .. MaxLlamadas]
  BY <1>1, <1>3, NumerosAssumption DEF Gasta
<1>5. QED
  BY <1>2, <1>4, PQuieto

LEMMA PQuietos ==
    ASSUME IInv, PInv,
           \/ \E c \in Cpu : VuelveAReady(c) \/ MiraSiExiste(c) \/ MiraOwner(c) \/ Bloquea(c) \/ SacaDeBlock(c)
           \/ \E h \in Hilo : EncolaEnReady(h)
           \/ \E p \in Pid : FinSleep(p) \/ Suspende(p) \/ Desuspende(p)
           \/ UNCHANGED vars
    PROVE  PInv'
<1>1. prioridad' = prioridad /\ prio_owner' = prio_owner /\ owner' = owner /\ bloqueados' = bloqueados /\ restan' = restan
  BY DEF VuelveAReady, MiraSiExiste, MiraOwner, Bloquea, SacaDeBlock, EncolaEnReady, FinSleep, Suspende, Desuspende,
     vars, programa, mutex
<1>2. \A d \in Cpu : pc'[d] \in {"suelta", "pasa", "hereda"} =>
          pc'[d] = pc[d] /\ sujeto'[d] = sujeto[d] /\ m_name'[d] = m_name[d]
  BY HiloAssumption DEF VuelveAReady, MiraSiExiste, MiraOwner, Bloquea, SacaDeBlock, EncolaEnReady, FinSleep,
     Suspende, Desuspende,
     Sigue, vars, hilos, IInv, Tipos, Hilo
<1>3. restan' \in [Pid -> 0 .. MaxLlamadas]
  BY <1>1 DEF PInv, PTipos
<1>4. QED
  BY <1>1, <1>2, <1>3, PQuieto

LEMMA PCrea ==
    ASSUME IInv, PInv, NEW c \in Cpu, Crea(c)
    PROVE  PInv'
<1>1. m_name[c] \in Mutex /\ owner[m_name[c]] = Nadie /\ bloqueados[m_name[c]] = <<>>
  BY DEF Crea, IInv, Hilos, Sujeto, Lock, Mutexs, Duenio, Fila
<1>2. owner' = owner /\ bloqueados' = bloqueados
  BY <1>1 DEF Crea, IInv, Tipos
<1>3. /\ prioridad' = prioridad /\ prio_owner' = prio_owner /\ restan' = restan
      /\ \A d \in Cpu : pc'[d] \in {"suelta", "pasa", "hereda"} =>
               pc'[d] = pc[d] /\ sujeto'[d] = sujeto[d] /\ m_name'[d] = m_name[d]
  BY DEF Crea, Sigue, programa, IInv, Tipos, Hilo
<1>4. QED
  BY <1>2, <1>3, PQuieto DEF PInv, PTipos

LEMMA PToma ==
    ASSUME UnaCpu, IInv, PInv, NEW c \in Cpu, Toma(c)
    PROVE  PInv'
<1>1. sujeto[c] \in Pid /\ m_name[c] \in Mutex /\ owner[m_name[c]] = Nadie
  BY DEF Toma, IInv, Hilos, Sujeto, Lock
<1>2. prioridad[sujeto[c]] <= Original[sujeto[c]] /\ prioridad[sujeto[c]] \in Cola
  BY <1>1, PMenor DEF PInv, PTipos
<1>3. PTipos'
  BY <1>1, <1>2 DEF Toma, programa, PInv, PTipos
<1>4. \A d \in Cpu : Restaurada(d)'
  BY DEF Toma, Sigue, UnaCpu, Restaurada, IInv, Tipos, Hilo
<1>5. \A m \in Mutex : Tope(m)'
  BY <1>1, <1>2 DEF Toma, PInv, PTipos, Tope, IInv, Tipos
<1>6. \A p \in Pid : Debida(p)'
  <2>1. \A m \in Mutex : owner[m] # Nadie => owner'[m] = owner[m]
    BY <1>1 DEF Toma, IInv, Tipos
  <2>2. prioridad' = prioridad /\ bloqueados' = bloqueados
    BY DEF Toma
  <2>3. QED
    BY <2>1, <2>2, NadieAssumption DEF PInv, Debida
<1>7. QED
  BY <1>3, <1>4, <1>5, <1>6 DEF PInv

LEMMA PEncola ==
    ASSUME UnaCpu, IInv, PInv, NEW c \in Cpu, Encola(c)
    PROVE  PInv'
<1>1. /\ sujeto[c] \in Pid /\ m_name[c] \in Mutex /\ bloqueados[m_name[c]] \in Seq(Pid)
      /\ SinRepetir(bloqueados[m_name[c]]) /\ sujeto[c] \notin Elems(bloqueados[m_name[c]])
  BY DEF Encola, IInv, Tipos, Hilos, Sujeto, Lock, Pidiendo, Mutexs, Fila
<1>2. /\ Elems(bloqueados'[m_name[c]]) = Elems(bloqueados[m_name[c]]) \cup {sujeto[c]}
      /\ \A m \in Mutex : m # m_name[c] => bloqueados'[m] = bloqueados[m]
  <2>1. /\ bloqueados'[m_name[c]] = Append(bloqueados[m_name[c]], sujeto[c])
        /\ \A m \in Mutex : m # m_name[c] => bloqueados'[m] = bloqueados[m]
    BY <1>1 DEF Encola, IInv, Tipos
  <2>2. QED
    BY <1>1, <2>1, ColaAppend
<1>3. PTipos' /\ prioridad' = prioridad /\ owner' = owner /\ prio_owner' = prio_owner
  BY DEF Encola, programa, PInv, PTipos
<1>4. \A d \in Cpu : Restaurada(d)'
  BY <1>2 DEF Encola, Sigue, UnaCpu, Restaurada, IInv, Tipos, Hilo
<1>5. \A m \in Mutex : Tope(m)'
  BY <1>3 DEF PInv, Tope
<1>6. \A p \in Pid : Debida(p)'
  <2>1. \A m \in Mutex : Elems(bloqueados[m]) \subseteq Elems(bloqueados'[m])
    BY <1>2
  <2>2. QED
    BY <1>3, <2>1 DEF PInv, Debida
<1>7. QED
  BY <1>3, <1>4, <1>5, <1>6 DEF PInv

LEMMA PHereda ==
    ASSUME UnaCpu, IInv, PInv, NEW c \in Cpu, Hereda(c)
    PROVE  PInv'
<1> DEFINE m0 == m_name[c]
           o == owner[m0]
           s == sujeto[c]
<1>1. /\ s \in Pid /\ m0 \in Mutex /\ o \in Pid /\ o # Nadie /\ s \in Elems(bloqueados[m0]) /\ s # o
      /\ pc[c] = "hereda"
  BY NadieAssumption DEF Hereda, IInv, Tipos, Hilos, Sujeto, Mutexs, Fila, PInv, Restaurada
<1>2. \A m \in Mutex : o \notin Elems(bloqueados[m])
  BY <1>1, NadieAssumption DEF UnaCpu, IInv, Mutexs, Duenio, Fila, Soltando
<1>3. prioridad[s] \in Nat /\ prioridad[s] \in Cola /\ Original[o] \in Nat /\ prio_owner[m0] \in Nat /\ prio_owner[m0] <= Original[o]
  BY SMTT(30), <1>1, PMenor, NumerosAssumption DEF PInv, PTipos, Tope, Cola
<1>4. /\ owner' = owner /\ bloqueados' = bloqueados /\ restan' = restan
      /\ \/ prio_owner' = prio_owner /\ prioridad' = prioridad
         \/ /\ prioridad[s] < prio_owner[m0] /\ prio_owner' = [prio_owner EXCEPT ![m0] = prioridad[s]]
            /\ prioridad' = prioridad \/ prioridad' = [prioridad EXCEPT ![o] = prioridad[s]]
      /\ pc' = [pc EXCEPT ![c] = "espera"]
  BY DEF Hereda, Sigue, programa
<1> HIDE DEF m0, o, s
<1>5. PTipos'
  BY <1>1, <1>3, <1>4 DEF PInv, PTipos
<1>6. \A d \in Cpu : Restaurada(d)'
  BY <1>4 DEF UnaCpu, Restaurada, IInv, Tipos, Hilo
<1>7. \A m \in Mutex : Tope(m)'
  <2> SUFFICES ASSUME NEW m \in Mutex, owner[m] # Nadie PROVE prio_owner'[m] <= Original[owner[m]]
    BY <1>4 DEF Tope
  <2>1. CASE m = m0
    BY <1>1, <1>3, <1>4, <2>1 DEF PInv, PTipos, o
  <2>2. CASE m # m0
    BY <1>4, <2>2 DEF PInv, PTipos, Tope
  <2>3. QED
    BY <2>1, <2>2
<1>8. \A p \in Pid : Debida(p)'
  <2> SUFFICES ASSUME NEW p \in Pid PROVE Debida(p)'
    OBVIOUS
  <2>1. \A m \in Mutex : \A w \in Elems(bloqueados[m]) : w \in Pid /\ w # o
    BY <1>2 DEF IInv, Mutexs, Fila
  <2>2. \A m \in Mutex : \A w \in Elems(bloqueados[m]) : prioridad'[w] = prioridad[w]
    BY <1>1, <1>4, <2>1 DEF PInv, PTipos
  <2>3. CASE prioridad'[p] = prioridad[p]
    BY <1>4, <2>2, <2>3 DEF PInv, Debida
  <2>4. CASE prioridad'[p] # prioridad[p]
    <3>1. p = o /\ prioridad'[p] = prioridad[s] /\ prioridad[s] < Original[o]
      BY <1>1, <1>3, <1>4, <2>4 DEF PInv, PTipos
    <3>2. prioridad'[s] = prioridad[s]
      BY <1>1, <2>2
    <3>3. QED
      BY <1>1, <1>4, <3>1, <3>2 DEF Debida, o
  <2>5. QED
    BY <2>3, <2>4
<1>9. QED
  BY <1>5, <1>6, <1>7, <1>8 DEF PInv

LEMMA PRestauraPrioridad ==
    ASSUME UnaCpu, IInv, PInv, NEW c \in Cpu, RestauraPrioridad(c)
    PROVE  PInv'
<1> DEFINE s == sujeto[c]
<1>1. s \in Pid /\ en_uso[s] = Nadie /\ Original[s] \in Cola
  BY DEF RestauraPrioridad, IInv, Hilos, Sujeto, Unlock, Soltando, Cola
<1>2. \A m \in Mutex : \A w \in Elems(bloqueados[m]) : w \in Pid /\ w # s
  BY <1>1, NadieAssumption DEF IInv, Mutexs, Fila
<1>3. /\ prioridad' = [prioridad EXCEPT ![s] = Original[s]] /\ owner' = owner /\ bloqueados' = bloqueados
      /\ prio_owner' = prio_owner /\ restan' = restan /\ sujeto' = sujeto /\ m_name' = m_name
  BY DEF RestauraPrioridad, programa, mutex
<1> HIDE DEF s
<1>4. PTipos'
  BY <1>1, <1>3 DEF PInv, PTipos
<1>5. \A d \in Cpu : Restaurada(d)'
  <2>1. prioridad'[s] = Original[s] /\ pc'[c] # "hereda"
    BY <1>1, <1>3 DEF RestauraPrioridad, Sigue, PInv, PTipos, IInv, Tipos, Hilo
  <2>2. QED
    BY <1>3, <2>1 DEF UnaCpu, Restaurada, s
<1>6. \A m \in Mutex : Tope(m)'
  BY <1>3 DEF PInv, Tope
<1>7. \A p \in Pid : Debida(p)'
  <2> SUFFICES ASSUME NEW p \in Pid, prioridad'[p] # Original[p] PROVE Debida(p)'
    BY DEF Debida
  <2>1. prioridad'[p] = prioridad[p]
    BY <1>1, <1>3 DEF PInv, PTipos
  <2>2. \A m \in Mutex : \A w \in Elems(bloqueados[m]) : prioridad'[w] = prioridad[w]
    BY <1>2, <1>3 DEF PInv, PTipos
  <2>3. QED
    BY <1>3, <2>1, <2>2 DEF PInv, Debida
<1>8. QED
  BY <1>4, <1>5, <1>6, <1>7 DEF PInv

\* UNLOCK, from there on: what the owner inherited is gone before its queue changes.
LEMMA PEntrega ==
    ASSUME UnaCpu, IInv, PInv, NEW c \in Cpu, Suelta(c) \/ Pasa(c)
    PROVE  PInv'
<1> DEFINE m0 == m_name[c]
           s == sujeto[c]
           fila == bloqueados[m0]
<1>1. /\ s \in Pid /\ m0 \in Mutex /\ owner[m0] = s /\ prioridad[s] = Original[s]
      /\ pc[c] \in {"suelta", "pasa"} /\ pc'[c] \in {"a_ready", "saca"}
  BY DEF Suelta, Pasa, Sigue, IInv, Tipos, Hilo, Hilos, Sujeto, Unlock, Soltando, PInv, Restaurada
<1>2. prioridad' = prioridad /\ restan' = restan /\ \A m \in Mutex : m # m0 => owner'[m] = owner[m] /\ bloqueados'[m] = bloqueados[m]
  BY <1>1 DEF Suelta, Pasa, programa, IInv, Tipos
<1>3. \/ owner'[m0] = Nadie /\ prio_owner' = prio_owner
      \/ owner'[m0] \in Pid /\ prio_owner' = [prio_owner EXCEPT ![m0] = prioridad[owner'[m0]]]
  <2>1. CASE Suelta(c)
    BY <1>1, <2>1 DEF Suelta, IInv, Tipos
  <2>2. CASE Pasa(c)
    <3>1. fila \in Seq(Pid) /\ fila # <<>> /\ SinRepetir(fila)
      BY <1>1, <2>2 DEF Pasa, IInv, Tipos, Mutexs, Fila, Hilos, Unlock
    <3>2. Head(fila) \in Pid
      BY <3>1, ColaTail
    <3>3. owner'[m0] = Head(fila) /\ prio_owner' = [prio_owner EXCEPT ![m0] = prioridad[Head(fila)]]
      BY <1>1, <2>2 DEF Pasa, IInv, Tipos
    <3>4. QED
      BY <3>2, <3>3
  <2>3. QED
    BY <2>1, <2>2
<1> HIDE DEF m0, s, fila
<1>4. owner'[m0] # Nadie => prioridad[owner'[m0]] \in Cola /\ prioridad[owner'[m0]] <= Original[owner'[m0]]
  BY <1>3, PMenor DEF PInv, PTipos
<1>5. PTipos'
  BY <1>1, <1>2, <1>3, <1>4, NadieAssumption DEF PInv, PTipos
<1>6. \A d \in Cpu : Restaurada(d)'
  BY <1>1 DEF UnaCpu, Restaurada
<1>7. \A m \in Mutex : Tope(m)'
  <2> SUFFICES ASSUME NEW m \in Mutex, owner'[m] # Nadie PROVE prio_owner'[m] <= Original[owner'[m]]
    BY DEF Tope
  <2>1. CASE m = m0
    BY <1>1, <1>3, <1>4, <2>1 DEF PInv, PTipos
  <2>2. CASE m # m0
    BY <1>2, <1>3, <2>2 DEF PInv, PTipos, Tope
  <2>3. QED
    BY <2>1, <2>2
<1>8. \A p \in Pid : Debida(p)'
  <2>1. \A m \in Mutex : owner[m] = s => prioridad[owner[m]] = Original[owner[m]]
    BY <1>1
  <2>2. QED
    BY <1>1, <1>2, <2>1 DEF PInv, Debida
<1>9. QED
  BY <1>5, <1>6, <1>7, <1>8 DEF PInv

LEMMA PRecalcula ==
    ASSUME UnaCpu, IInv, PInv, NEW h \in Hilo, Recalcula(h)
    PROVE  PInv'
<1> DEFINE p == movido[h]
           suyos == {m \in dic_mutex : owner[m] = p}
           S == {Original[p]} \cup {prioridad[w] : w \in UNION {Esperan(m) : m \in suyos}}
           heredada == Menor(S)
<1>1. p \in Pid /\ estado[p] = "MANO" /\ (h \in Cpu => owner[m_name[h]] = p /\ m_name[h] \in Mutex)
  BY DEF Recalcula, IInv, Hilos, Sujeto, Unlock, Despierta, Moviendo, Hilo
<1>2. \A m \in Mutex : \A w \in Elems(bloqueados[m]) : w \in Pid /\ w # p
  BY <1>1 DEF IInv, Mutexs, Fila, Bloqueado
<1>3. /\ prioridad' = [prioridad EXCEPT ![p] = heredada] /\ owner' = owner /\ bloqueados' = bloqueados
      /\ restan' = restan /\ sujeto' = sujeto /\ m_name' = m_name /\ pc' = [pc EXCEPT ![h] = "encola_en_ready"]
      /\ prio_owner' = IF h \in Cpu THEN [prio_owner EXCEPT ![m_name[h]] = heredada] ELSE prio_owner
  BY DEF Recalcula, Sigue, programa
<1>4. S \subseteq Nat /\ S # {} /\ Original[p] \in S /\ S \subseteq Cola
  <2>1. Original[p] \in Nat /\ Original[p] \in Cola /\ Cola \subseteq Nat
    BY <1>1, NumerosAssumption DEF Cola
  <2>2. \A m \in suyos : \A w \in Esperan(m) : prioridad[w] \in Cola
    BY <1>2 DEF IInv, Tipos, PInv, PTipos, Esperan, Elems
  <2>3. QED
    BY <2>1, <2>2
<1> HIDE DEF heredada
<1>5. heredada \in S /\ heredada <= Original[p] /\ heredada \in Cola /\ heredada \in Nat
  <2> HIDE DEF S
  <2>1. QED
    BY <1>4, MenorEsMinimo DEF heredada
<1>6. heredada # Original[p] => \E m \in Mutex : owner[m] = p /\ \E w \in Elems(bloqueados[m]) : prioridad[w] = heredada
  BY <1>5 DEF IInv, Tipos, Esperan, Elems
<1> HIDE DEF p, S, suyos
<1>7. PTipos'
  BY <1>1, <1>3, <1>5 DEF PInv, PTipos
<1>8. \A d \in Cpu : Restaurada(d)'
  <2>1. SUFFICES ASSUME NEW d \in Cpu PROVE Restaurada(d)'
    OBVIOUS
  <2>2. pc'[d] \in {"suelta", "pasa", "hereda"} => pc'[d] = pc[d]
    BY <1>3 DEF IInv, Tipos, Hilo
  <2>3. pc[d] \in {"suelta", "pasa"} => sujeto[d] # p /\ sujeto[d] \in Pid
    BY DEF Recalcula, UnaCpu, IInv, Hilos, Sujeto, Despierta, Hilo, p
  <2>4. QED
    BY <1>1, <1>3, <2>2, <2>3 DEF PInv, PTipos, Restaurada
<1>9. \A m \in Mutex : Tope(m)'
  <2> SUFFICES ASSUME NEW m \in Mutex, owner[m] # Nadie PROVE prio_owner'[m] <= Original[owner[m]]
    BY <1>3 DEF Tope
  <2>1. CASE h \in Cpu /\ m = m_name[h]
    BY <1>1, <1>3, <1>5, <2>1 DEF PInv, PTipos
  <2>2. CASE ~(h \in Cpu /\ m = m_name[h])
    BY <1>3, <2>2 DEF PInv, PTipos, Tope
  <2>3. QED
    BY <2>1, <2>2
<1>10. \A q \in Pid : Debida(q)'
  <2> SUFFICES ASSUME NEW q \in Pid, prioridad'[q] # Original[q] PROVE Debida(q)'
    BY DEF Debida
  <2>1. \A m \in Mutex : \A w \in Elems(bloqueados[m]) : prioridad'[w] = prioridad[w]
    BY <1>2, <1>3 DEF PInv, PTipos
  <2>2. CASE q = p
    <3>1. prioridad'[q] = heredada /\ heredada < Original[q]
      <4>1. prioridad'[q] = heredada
        BY <1>1, <1>3, <2>2 DEF PInv, PTipos
      <4>2. heredada \in Nat /\ Original[q] \in Nat /\ heredada <= Original[q] /\ heredada # Original[q]
        BY <1>5, <2>2, <4>1, PMenor
      <4>3. QED
        BY <4>1, <4>2
    <3>2. QED
      BY <1>3, <1>6, <2>1, <2>2, <3>1 DEF Debida
  <2>3. CASE q # p
    <3>1. prioridad'[q] = prioridad[q]
      BY <1>3, <2>3 DEF PInv, PTipos
    <3>2. QED
      BY <1>3, <2>1, <3>1 DEF PInv, Debida
  <2>4. QED
    BY <2>2, <2>3
<1>11. QED
  BY <1>7, <1>8, <1>9, <1>10 DEF PInv

LEMMA PPaso == ASSUME UnaCpu PROVE IInv /\ PInv /\ [Next]_vars => PInv'
<1> SUFFICES ASSUME IInv, PInv, [Next]_vars PROVE PInv'
  OBVIOUS
<1>1. ASSUME NEW c \in Cpu, Atiende(c) PROVE PInv'
  BY <1>1, PQuietos, PCrea, PToma, PEncola, PHereda, PRestauraPrioridad, PEntrega DEF Atiende
<1>2. ASSUME NEW h \in Hilo, Mueve(h) PROVE PInv'
  BY <1>2, PQuietos, PRecalcula DEF Mueve
<1>3. ASSUME NEW p \in Pid, FinSleep(p) \/ Suspende(p) \/ Desuspende(p) PROVE PInv'
  BY <1>3, PQuietos
<1>4. CASE UNCHANGED vars
  BY <1>4, PQuietos
<1>5. QED
  BY <1>1, <1>2, <1>3, <1>4, PPrograma DEF Next, TodoTerminado

LEMMA PInicial == Init => PInv
<1> SUFFICES ASSUME Init PROVE PInv
  OBVIOUS
<1>1. PTipos
  BY NumerosAssumption DEF Init, PTipos, Cola
<1>2. QED
  BY <1>1 DEF Init, PInv, Restaurada, Tope, Debida, Hilo

LEMMA PSiempre == ASSUME UnaCpu PROVE Spec => []PInv
<1>1. Init => PInv
  BY PInicial
<1>2. IInv /\ PInv /\ [Next]_vars => PInv'
  BY PPaso
<1>3. QED
  BY <1>1, <1>2, InvSiempre, PTL DEF Spec

\* Every variable of Mutexes keeps its type: the priorities LOCK, UNLOCK and
\* encolar_en_ready compute are always the index of a queue of some process.
THEOREM TypeCorrect == ASSUME UnaCpu PROVE Spec => []TypeOK
<1>1. IInv /\ PInv => TypeOK
  BY DEF IInv, Tipos, PInv, PTipos, TypeOK
<1>2. QED
  BY <1>1, InvSiempre, PSiempre, PTL

\* Inheritance does not outlive its cause: a process with a priority that is not its own
\* owns a mutex one of that priority, and a better one than its own, waits for.
THEOREM HerenciaCorrecta == ASSUME UnaCpu PROVE Spec => []HerenciaDebida
<1>1. IInv /\ PInv => HerenciaDebida
  <2> SUFFICES ASSUME PInv, NEW p \in Pid, prioridad[p] # Original[p]
               PROVE  \E m \in Mutex : owner[m] = p /\ \E w \in Esperan(m) :
                          prioridad[w] = prioridad[p] /\ prioridad[p] < Original[p]
    BY DEF HerenciaDebida
  <2>1. \A m \in Mutex : Esperan(m) = Elems(bloqueados[m])
    BY DEF Esperan, Elems
  <2>2. QED
    BY <2>1 DEF PInv, Debida
<1>2. QED
  BY <1>1, InvSiempre, PSiempre, PTL

=============================================================================

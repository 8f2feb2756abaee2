---------------------------- MODULE AccesosProofs ----------------------------
(***************************************************************************)
(* Proofs about Accesos, for any processes, sticks, sizes and bounds.      *)
(***************************************************************************)
EXTENDS Accesos, SequenceTheorems, WellFoundedInduction, TLAPS

\* The part of the types that the tables of kernel_memory need of each other.
TipoTablas ==
    /\ Parcial(tabla, Pid \X Nro, Segmento)
    /\ segmentos_en_swap \in [Pid -> Seq(EntradaSwap)]
    /\ proximo_bloque_swap \in Nat

-----------------------------------------------------------------------------
(* Arithmetic of the code: blocks and the MMU.                              *)

LEMMA Division ==
    ASSUME NEW a \in Nat, NEW b \in Nat \ {0}
    PROVE  /\ a % b \in 0 .. b - 1
           /\ a \div b \in Nat
           /\ a = b * (a \div b) + (a % b)
  BY SMT

LEMMA BloquesBastan ==
    ASSUME NEW t \in Nat
    PROVE  Bloques(t) \in Nat /\ t <= Bloques(t) * Bloque
<1>1. Bloque \in Nat \ {0}
  BY TamanioAssumption DEF TamanioAssumption
<1> DEFINE a == t + Bloque - 1
<1>2. a \in Nat
  BY <1>1
<1>3. a \div Bloque \in Nat /\ a = Bloque * (a \div Bloque) + (a % Bloque) /\ a % Bloque \in 0 .. Bloque - 1
  BY <1>1, <1>2, Division
<1>4. Bloques(t) = a \div Bloque
  BY DEF Bloques
<1> HIDE DEF a
<1> DEFINE q == a \div Bloque  r == a % Bloque
<1>5. a = t + Bloque - 1
  BY DEF a
<1>6. Bloque * q = q * Bloque
  BY <1>1, <1>3
<1>7. q \in Nat /\ r \in 0 .. Bloque - 1 /\ a = Bloque * q + r
  BY <1>3
<1> HIDE DEF q, r
<1> DEFINE m == Bloque * q
<1>8. m \in Nat
  BY <1>1, <1>7
<1>9. a = m + r
  BY <1>7
<1> HIDE DEF m
<1>10. t <= m
  BY <1>1, <1>5, <1>7, <1>8, <1>9
<1>11. QED
  BY <1>3, <1>4, <1>6, <1>10 DEF m, q

\* The sum of the MMU does not wrap.
LEMMA SumaSinVuelta ==
    ASSUME NEW a \in Nat, a < Palabra
    PROVE  a % Palabra = a
  BY TamanioAssumption, SMT DEF TamanioAssumption

-----------------------------------------------------------------------------
(* Where each process is.                                                   *)

TipoProceso ==
    /\ estado \in [Pid -> Estado]
    /\ restan \in 0 .. MaxInstrucciones
    /\ m_fd_memoria \in Pid \cup {Nadie}

LEMMA TipoProcesoNext == TipoProceso /\ [Next]_vars => TipoProceso'
<1> SUFFICES ASSUME TipoProceso, [Next]_vars PROVE TipoProceso'
  OBVIOUS
<1> USE TamanioAssumption DEF TamanioAssumption, TipoProceso, Estado, Pone, swap
<1>1. CASE UNCHANGED vars \/ Fin
  BY <1>1 DEF Fin, vars
<1>2. ASSUME NEW p \in Pid, Instruccion(p) PROVE TipoProceso'
  <2>1. ASSUME NEW dirs, NEW r, NEW donde \in Estado, Accede(p, dirs, r, donde) PROVE TipoProceso'
    BY <2>1 DEF Accede, Instruye
  <2>2. CASE Duerme(p) \/ Exit(p)
    BY <2>2 DEF Duerme, Exit, Instruye
  <2>3. QED
    BY <1>2, <2>1, <2>2 DEF Instruccion, MovIn, MovOut, CopyMem, LlamaIO
<1>3. ASSUME NEW p \in Pid, Memoria(p) PROVE TipoProceso'
  <2>1. CASE Lee(p) \/ Escribe(p) \/ Sale(p)
    BY <2>1 DEF Lee, Escribe, Sale
  <2>2. CASE \E id \in Id : MemFree(p, id)
    BY <2>2 DEF MemFree, Instruye
  <2>3. CASE \E r \in Pedidos, b \in Direccion : MemAlloc(p, r[1], r[2], b)
    BY <2>3 DEF MemAlloc, Instruye
  <2>4. QED
    BY <1>3, <2>1, <2>2, <2>3 DEF Memoria
<1>4. ASSUME NEW p \in Pid, Suspension(p) PROVE TipoProceso'
  BY <1>4 DEF Suspension, FinIO, FinStdin, Suspende, TerminaGuardar, GuardaSegmento, Desuspende,
     RestauraSegmento, TerminaVolver
<1>5. QED
  BY <1>1, <1>2, <1>3, <1>4 DEF Next

-----------------------------------------------------------------------------
(* The tables: which steps change them.                                     *)

tablas == <<tabla, segmentos_en_swap, proximo_bloque_swap>>

CambiaTablas(p) ==
    \/ \E r \in Pedidos, b \in Direccion : MemAlloc(p, r[1], r[2], b)
    \/ \E id \in Id : MemFree(p, id)
    \/ Sale(p)
    \/ \E n \in Nro : GuardaSegmento(p, n)
    \/ RestauraSegmento(p)

\* Only these handlers change the table of segments or what SWAP has.
LEMMA PasosDeTablas ==
    ASSUME [Next]_vars
    PROVE  UNCHANGED tablas \/ \E p \in Pid : CambiaTablas(p)
<1>1. CASE UNCHANGED vars
  BY <1>1 DEF vars, swap, tablas
<1>2. CASE Fin
  BY <1>2 DEF Fin, vars, swap, tablas
<1>3. ASSUME NEW p \in Pid, Instruccion(p) PROVE UNCHANGED tablas
  BY <1>3 DEF Instruccion, Duerme, Exit, MovIn, MovOut, CopyMem, LlamaIO, Accede, swap, tablas
<1>4. ASSUME NEW p \in Pid, Memoria(p) PROVE UNCHANGED tablas \/ CambiaTablas(p)
  <2>1. CASE Lee(p) \/ Escribe(p)
    BY <2>1 DEF Lee, Escribe, swap, tablas
  <2>2. CASE ~(Lee(p) \/ Escribe(p))
    BY <1>4, <2>2 DEF Memoria, CambiaTablas
  <2>3. QED
    BY <2>1, <2>2
<1>5. ASSUME NEW p \in Pid, Suspension(p) PROVE UNCHANGED tablas \/ CambiaTablas(p)
  <2>1. CASE FinIO(p) \/ (\E v \in Valor : FinStdin(p, v)) \/ Suspende(p) \/ TerminaGuardar(p)
             \/ Desuspende(p) \/ TerminaVolver(p)
    BY <2>1 DEF FinIO, FinStdin, Suspende, TerminaGuardar, Desuspende, TerminaVolver, swap, tablas
  <2>2. CASE (\E n \in Nro : GuardaSegmento(p, n)) \/ RestauraSegmento(p)
    BY <2>2 DEF CambiaTablas
  <2>3. QED
    BY <1>5, <2>1, <2>2 DEF Suspension
<1>6. QED
  BY <1>1, <1>2, <1>3, <1>4, <1>5 DEF Next

\* To replace or add one entry, and to take entries out, keeps a table a table.
LEMMA AgregaParcial ==
    ASSUME NEW S, NEW T, NEW f, Parcial(f, S, T), NEW k \in S, NEW v \in T
    PROVE  /\ Parcial(Agrega(f, k, v), S, T)
           /\ DOMAIN Agrega(f, k, v) = DOMAIN f \cup {k}
           /\ Agrega(f, k, v)[k] = v
           /\ \A i \in DOMAIN f : i # k => Agrega(f, k, v)[i] = f[i]
  BY DEF Parcial, Agrega

LEMMA QuitaParcial ==
    ASSUME NEW S, NEW T, NEW f, Parcial(f, S, T), NEW K
    PROVE  /\ Parcial(Quita(f, K), S, T)
           /\ DOMAIN Quita(f, K) = DOMAIN f \ K
           /\ \A i \in DOMAIN f \ K : Quita(f, K)[i] = f[i]
  BY DEF Parcial, Quita

\* A MEM_ALLOC takes the number of its instruction.
LEMMA NroNuevo == ASSUME TipoProceso, NEW p \in Pid, Instruye(p) PROVE restan \in Nro
  BY TamanioAssumption DEF TamanioAssumption, TipoProceso, Instruye, Nro

LEMMA TipoTablasNext == TipoTablas /\ TipoProceso /\ [Next]_vars => TipoTablas'
<1> SUFFICES ASSUME TipoTablas, TipoProceso, [Next]_vars PROVE TipoTablas'
  OBVIOUS
<1> USE DEF TipoTablas
<1>1. CASE UNCHANGED tablas
  BY <1>1 DEF tablas, Parcial
<1>2. ASSUME NEW p \in Pid, NEW r \in Pedidos, NEW b \in Direccion, MemAlloc(p, r[1], r[2], b)
      PROVE  TipoTablas'
  <2>1. r[1] \in Id /\ r[2] \in 1 .. TamMax /\ b \in Nat
    BY TamanioAssumption, StickAssumption DEF TamanioAssumption, StickAssumption, Direccion
  <2>2. <<p, restan>> \in Pid \X Nro /\ [id |-> r[1], base |-> b, tamanio |-> r[2]] \in Segmento
    BY <1>2, <2>1, NroNuevo DEF MemAlloc, Segmento
  <2>3. QED
    BY ZenonT(60), <1>2, <2>2, AgregaParcial DEF MemAlloc, swap
<1>3. ASSUME NEW p \in Pid, NEW id \in Id, MemFree(p, id) PROVE TipoTablas'
  <2>1. UNCHANGED <<segmentos_en_swap, proximo_bloque_swap>>
    BY <1>3 DEF MemFree, swap
  <2>2. CASE UNCHANGED tabla
    BY <2>1, <2>2
  <2>3. ASSUME NEW k, tabla' = Quita(tabla, {k}) PROVE TipoTablas'
    BY <2>1, <2>3, QuitaParcial
  <2>4. QED
    BY <1>3, <2>2, <2>3 DEF MemFree
<1>4. ASSUME NEW p \in Pid, Sale(p) PROVE TipoTablas'
  BY <1>4, QuitaParcial DEF Sale, swap
<1>5. ASSUME NEW p \in Pid, NEW n \in Nro, GuardaSegmento(p, n) PROVE TipoTablas'
  <2> DEFINE seg == tabla[<<p, n>>]
             cant == Bloques(seg.tamanio)
             e == [nro |-> n, id |-> seg.id, tamanio |-> seg.tamanio, inicio |-> proximo_bloque_swap, cant |-> cant]
  <2>1. seg \in Segmento
    BY <1>5 DEF GuardaSegmento, Parcial
  <2>2. cant \in Nat
    <3>1. seg.tamanio \in Nat
      BY <2>1, TamanioAssumption DEF TamanioAssumption, Segmento
    <3>2. QED
      BY <3>1, BloquesBastan
  <2>3. e \in EntradaSwap
    BY <2>1, <2>2 DEF EntradaSwap, Segmento
  <2>4. /\ segmentos_en_swap' = [segmentos_en_swap EXCEPT ![p] = Append(@, e)]
        /\ proximo_bloque_swap' = proximo_bloque_swap + cant
        /\ tabla' = Quita(tabla, {<<p, n>>})
    BY <1>5 DEF GuardaSegmento
  <2> HIDE DEF cant, e, seg
  <2>5. segmentos_en_swap' \in [Pid -> Seq(EntradaSwap)]
    BY <2>3, <2>4
  <2>6. proximo_bloque_swap' \in Nat
    BY <2>2, <2>4
  <2>7. Parcial(tabla', Pid \X Nro, Segmento)
    BY <2>4, QuitaParcial
  <2>8. QED
    BY <2>5, <2>6, <2>7
<1>6. ASSUME NEW p \in Pid, RestauraSegmento(p) PROVE TipoTablas'
  <2> DEFINE e == Head(segmentos_en_swap[p])
  <2>1. segmentos_en_swap[p] \in Seq(EntradaSwap) /\ segmentos_en_swap[p] # <<>>
    BY <1>6 DEF RestauraSegmento
  <2>2. e \in EntradaSwap /\ Tail(segmentos_en_swap[p]) \in Seq(EntradaSwap)
    BY <2>1
  <2>3. segmentos_en_swap' \in [Pid -> Seq(EntradaSwap)] /\ UNCHANGED proximo_bloque_swap
    BY <1>6, <2>2 DEF RestauraSegmento
  <2>4. CASE UNCHANGED tabla
    BY <2>3, <2>4
  <2>5. ASSUME NEW b \in Direccion, tabla' = Agrega(tabla, <<p, e.nro>>, [id |-> e.id, base |-> b, tamanio |-> e.tamanio])
        PROVE  TipoTablas'
    <3>1. <<p, e.nro>> \in Pid \X Nro /\ [id |-> e.id, base |-> b, tamanio |-> e.tamanio] \in Segmento
      BY <2>2, StickAssumption DEF StickAssumption, Direccion, EntradaSwap, Segmento
    <3>2. QED
      BY ZenonT(60), <2>3, <2>5, <3>1, AgregaParcial
  <2>6. QED
    BY <1>6, <2>4, <2>5 DEF RestauraSegmento
<1>7. QED
  BY <1>1, <1>2, <1>3, <1>4, <1>5, <1>6, PasosDeTablas DEF CambiaTablas

-----------------------------------------------------------------------------
(* No address in two segments: asignar_memoria takes free ranges, and a     *)
(* base that a PCB still has may be anyone's.                                *)

Rango(t, k) == t[k].base .. t[k].base + t[k].tamanio - 1

SinSolaparseEn(t) ==
    \A k, l \in DOMAIN t :
        /\ Rango(t, k) \subseteq Direccion
        /\ k # l => Rango(t, k) \cap Rango(t, l) = {}
SinSolaparse == SinSolaparseEn(tabla)

LEMMA OcupaEs ==
    ASSUME NEW k \in DOMAIN tabla, Parcial(tabla, Pid \X Nro, Segmento)
    PROVE  Ocupa(k[1], k[2]) = Rango(tabla, k)
<1>1. <<k[1], k[2]>> = k
  BY DEF Parcial
<1>2. QED
  BY <1>1 DEF Ocupa, Rango

\* asignar_memoria in a free range: nothing else is there.
LEMMA AgregaSinSolapar ==
    ASSUME Parcial(tabla, Pid \X Nro, Segmento), SinSolaparseEn(tabla),
           NEW k \in Pid \X Nro, NEW id \in Id, NEW b \in Direccion, NEW t \in 1 .. TamMax, Hueco(b, t)
    PROVE  SinSolaparseEn(Agrega(tabla, k, [id |-> id, base |-> b, tamanio |-> t]))
<1> DEFINE v == [id |-> id, base |-> b, tamanio |-> t]
           T == Agrega(tabla, k, v)
<1>1. v \in Segmento
  BY StickAssumption DEF StickAssumption, Direccion, Segmento
<1>2. DOMAIN T = DOMAIN tabla \cup {k} /\ T[k] = v /\ \A i \in DOMAIN tabla : i # k => T[i] = tabla[i]
  BY <1>1, AgregaParcial
<1>3. b .. b + t - 1 \subseteq Direccion
  BY DEF Hueco, Libres
<1>4. ASSUME NEW i \in DOMAIN tabla PROVE Rango(tabla, i) \cap (b .. b + t - 1) = {}
  BY <1>4, OcupaEs DEF Hueco, Libres
<1> HIDE DEF T
<1>5. Rango(T, k) = b .. b + t - 1
  BY <1>2 DEF Rango
<1>6. \A i \in DOMAIN tabla : i # k => Rango(T, i) = Rango(tabla, i)
  BY <1>2 DEF Rango
<1>7. SinSolaparseEn(T)
  BY <1>2, <1>3, <1>4, <1>5, <1>6 DEF SinSolaparseEn
<1>8. QED
  BY <1>7 DEF T

LEMMA QuitaSinSolapar ==
    ASSUME Parcial(tabla, Pid \X Nro, Segmento), SinSolaparseEn(tabla), NEW K
    PROVE  SinSolaparseEn(Quita(tabla, K))
<1>1. /\ DOMAIN Quita(tabla, K) = DOMAIN tabla \ K
      /\ \A i \in DOMAIN tabla \ K : Rango(Quita(tabla, K), i) = Rango(tabla, i)
  BY DEF Quita, Rango
<1>2. QED
  BY <1>1 DEF SinSolaparseEn

LEMMA SolaparseNext == TipoTablas /\ TipoProceso /\ SinSolaparse /\ [Next]_vars => SinSolaparse'
<1> SUFFICES ASSUME TipoTablas, TipoProceso, SinSolaparse, [Next]_vars PROVE SinSolaparse'
  OBVIOUS
<1>1. Parcial(tabla, Pid \X Nro, Segmento)
  BY DEF TipoTablas
<1>2. SinSolaparseEn(tabla)
  BY DEF SinSolaparse
<1>3. SinSolaparseEn(tabla)'
  <2>1. CASE UNCHANGED tablas
    BY <1>2, <2>1 DEF tablas, SinSolaparseEn, Rango, Direccion
  <2>2. ASSUME NEW p \in Pid, NEW r \in Pedidos, NEW b \in Direccion, MemAlloc(p, r[1], r[2], b)
        PROVE  SinSolaparseEn(tabla')
    <3>1. r[1] \in Id /\ r[2] \in 1 .. TamMax
      BY TamanioAssumption DEF TamanioAssumption
    <3>2. <<p, restan>> \in Pid \X Nro
      BY <2>2, NroNuevo DEF MemAlloc
    <3>3. Hueco(b, r[2]) /\ tabla' = Agrega(tabla, <<p, restan>>, [id |-> r[1], base |-> b, tamanio |-> r[2]])
      BY <2>2 DEF MemAlloc
    <3>4. QED
      BY <1>1, <1>2, <3>1, <3>2, <3>3, AgregaSinSolapar
  <2>3. ASSUME NEW p \in Pid, RestauraSegmento(p) PROVE SinSolaparseEn(tabla')
    <3> DEFINE e == Head(segmentos_en_swap[p])
    <3>1. segmentos_en_swap[p] \in Seq(EntradaSwap) /\ segmentos_en_swap[p] # <<>>
      BY <2>3 DEF RestauraSegmento, TipoTablas
    <3>2. e.nro \in Nro /\ e.id \in Id /\ e.tamanio \in 1 .. TamMax
      <4>1. e \in EntradaSwap
        BY <3>1
      <4>2. QED
        BY <4>1 DEF EntradaSwap
    <3>3. CASE UNCHANGED tabla
      BY <1>2, <3>3
    <3>4. ASSUME NEW b \in Direccion, Hueco(b, e.tamanio),
                 tabla' = Agrega(tabla, <<p, e.nro>>, [id |-> e.id, base |-> b, tamanio |-> e.tamanio])
          PROVE  SinSolaparseEn(tabla')
      <4>1. <<p, e.nro>> \in Pid \X Nro
        BY <3>2
      <4>2. QED
        BY <1>1, <1>2, <3>2, <3>4, <4>1, AgregaSinSolapar
    <3>5. QED
      BY <2>3, <3>3, <3>4 DEF RestauraSegmento
  <2>4. ASSUME NEW p \in Pid, NEW n \in Nro, GuardaSegmento(p, n) PROVE SinSolaparseEn(tabla')
    BY <1>1, <1>2, <2>4, QuitaSinSolapar DEF GuardaSegmento
  <2>5. ASSUME NEW p \in Pid, Sale(p) PROVE SinSolaparseEn(tabla')
    BY <1>1, <1>2, <2>5, QuitaSinSolapar DEF Sale
  <2>6. ASSUME NEW p \in Pid, NEW id \in Id, MemFree(p, id) PROVE SinSolaparseEn(tabla')
    BY <1>1, <1>2, <2>6, QuitaSinSolapar DEF MemFree
  <2>7. QED
    BY <2>1, <2>2, <2>3, <2>4, <2>5, <2>6, PasosDeTablas DEF CambiaTablas
<1>4. QED
  BY <1>3 DEF SinSolaparse

-----------------------------------------------------------------------------
(* No block of the SWAP file for two segments.                              *)

Entera(e, prox) == e.tamanio <= e.cant * Bloque /\ e.inicio + e.cant <= prox

LEMMA BloquesNext == TipoTablas /\ BloquesPropios /\ [Next]_vars => BloquesPropios'
<1> SUFFICES ASSUME TipoTablas, BloquesPropios, [Next]_vars PROVE BloquesPropios'
  OBVIOUS
<1>2. ASSUME NEW p \in Pid, NEW i \in DOMAIN segmentos_en_swap[p]
      PROVE  segmentos_en_swap[p][i] \in EntradaSwap /\ Entera(segmentos_en_swap[p][i], proximo_bloque_swap)
  BY <1>2 DEF TipoTablas, BloquesPropios, Entera
<1>3. CASE UNCHANGED <<segmentos_en_swap, proximo_bloque_swap>>
  BY <1>3 DEF BloquesPropios, DeBloques
<1>4. ASSUME NEW a \in Pid, NEW n \in Nro, GuardaSegmento(a, n) PROVE BloquesPropios'
  <2> DEFINE cant == Bloques(tabla[<<a, n>>].tamanio)
             e == [nro |-> n, id |-> tabla[<<a, n>>].id, tamanio |-> tabla[<<a, n>>].tamanio, inicio |-> proximo_bloque_swap, cant |-> cant]
             lista == segmentos_en_swap[a]
             nueva == segmentos_en_swap'[a]
  <2>1. tabla[<<a, n>>].tamanio \in Nat
    <3>1. tabla[<<a, n>>] \in Segmento
      BY <1>4 DEF GuardaSegmento, TipoTablas, Parcial
    <3>2. QED
      BY <3>1, TamanioAssumption DEF TamanioAssumption, Segmento
  <2>2. cant \in Nat /\ tabla[<<a, n>>].tamanio <= cant * Bloque
    BY <2>1, BloquesBastan
  <2>3. /\ segmentos_en_swap' = [segmentos_en_swap EXCEPT ![a] = Append(@, e)]
        /\ proximo_bloque_swap' = proximo_bloque_swap + cant
    BY <1>4 DEF GuardaSegmento
  <2>4. e.tamanio <= e.cant * Bloque /\ e.inicio = proximo_bloque_swap /\ e.inicio + e.cant = proximo_bloque_swap'
    BY <2>2, <2>3
  <2>5. e.cant \in Nat
    BY <2>2
  <2> HIDE DEF e, cant
  <2>6. lista \in Seq(EntradaSwap) /\ nueva = Append(lista, e)
    BY <2>3 DEF TipoTablas
  <2>7. /\ DOMAIN nueva = DOMAIN lista \cup {Len(lista) + 1} /\ nueva[Len(lista) + 1] = e
        /\ \A i \in DOMAIN lista : nueva[i] = lista[i] /\ i # Len(lista) + 1
    BY <2>6
  <2>8. \A q \in Pid : q # a => segmentos_en_swap'[q] = segmentos_en_swap[q]
    BY <2>3 DEF TipoTablas
  <2>9. ASSUME NEW p \in Pid, NEW i \in DOMAIN segmentos_en_swap'[p]
        PROVE  \/ i \in DOMAIN segmentos_en_swap[p] /\ segmentos_en_swap'[p][i] = segmentos_en_swap[p][i]
               \/ p = a /\ i = Len(lista) + 1 /\ segmentos_en_swap'[p][i] = e
    BY <2>7, <2>8, <2>9
  <2>10. proximo_bloque_swap \in Nat /\ proximo_bloque_swap' \in Nat /\ proximo_bloque_swap <= proximo_bloque_swap'
    BY <2>2, <2>3 DEF TipoTablas
  <2>11. ASSUME NEW p \in Pid, NEW i \in DOMAIN segmentos_en_swap[p]
         PROVE  /\ Entera(segmentos_en_swap[p][i], proximo_bloque_swap')
                /\ DeBloques(segmentos_en_swap[p][i]) \cap DeBloques(e) = {}
    <3> DEFINE f == segmentos_en_swap[p][i]
    <3>1. f \in EntradaSwap /\ Entera(f, proximo_bloque_swap)
      BY <1>2, <2>11
    <3> HIDE DEF f
    <3>2. f.inicio \in Nat /\ f.cant \in Nat
      BY <3>1 DEF EntradaSwap
    <3>3. f.inicio + f.cant <= e.inicio /\ Entera(f, proximo_bloque_swap')
      BY <2>4, <2>10, <3>1, <3>2 DEF Entera
    <3>4. DeBloques(f) \cap DeBloques(e) = {}
      BY <2>4, <2>5, <2>10, <3>2, <3>3 DEF DeBloques
    <3>5. QED
      BY <3>3, <3>4 DEF f
  <2>12. Entera(e, proximo_bloque_swap')
    BY <2>4, <2>10 DEF Entera
  <2>13. SUFFICES ASSUME NEW p \in Pid, NEW q \in Pid,
                         NEW i \in DOMAIN segmentos_en_swap'[p], NEW j \in DOMAIN segmentos_en_swap'[q]
                  PROVE  /\ Entera(segmentos_en_swap'[p][i], proximo_bloque_swap')
                         /\ <<p, i>> # <<q, j>> =>
                              DeBloques(segmentos_en_swap'[p][i]) \cap DeBloques(segmentos_en_swap'[q][j]) = {}
    BY DEF BloquesPropios, Entera, DeBloques
  <2>14. Entera(segmentos_en_swap'[p][i], proximo_bloque_swap')
    BY <2>9, <2>11, <2>12
  <2>15. CASE i \in DOMAIN segmentos_en_swap[p] /\ segmentos_en_swap'[p][i] = segmentos_en_swap[p][i]
              /\ j \in DOMAIN segmentos_en_swap[q] /\ segmentos_en_swap'[q][j] = segmentos_en_swap[q][j]
    BY <2>14, <2>15 DEF BloquesPropios
  <2>16. CASE segmentos_en_swap'[p][i] = e /\ p = a /\ i = Len(lista) + 1
    BY <2>9, <2>11, <2>14, <2>16
  <2>17. CASE segmentos_en_swap'[q][j] = e /\ q = a /\ j = Len(lista) + 1
    BY <2>9, <2>11, <2>14, <2>17
  <2>18. QED
    BY <2>9, <2>15, <2>16, <2>17
<1>5. ASSUME NEW a \in Pid, RestauraSegmento(a) PROVE BloquesPropios'
  <2> DEFINE lista == segmentos_en_swap[a]
             nueva == segmentos_en_swap'[a]
  <2>1. /\ segmentos_en_swap' = [segmentos_en_swap EXCEPT ![a] = Tail(@)]
        /\ proximo_bloque_swap' = proximo_bloque_swap
        /\ lista \in Seq(EntradaSwap) /\ lista # <<>>
    BY <1>5 DEF RestauraSegmento, TipoTablas
  <2>2. nueva = Tail(lista) /\ \A q \in Pid : q # a => segmentos_en_swap'[q] = segmentos_en_swap[q]
    BY <2>1 DEF TipoTablas
  <2>3. \A i \in DOMAIN nueva : i + 1 \in DOMAIN lista /\ nueva[i] = lista[i + 1] /\ i \in Nat
    <3>1. /\ nueva \in Seq(EntradaSwap) /\ Len(nueva) = Len(lista) - 1
          /\ \A i \in 1 .. Len(nueva) : nueva[i] = lista[i + 1]
      <4> DEFINE R == Tail(lista)
      <4>1. R \in Seq(EntradaSwap) /\ Len(R) = Len(lista) - 1 /\ \A i \in 1 .. Len(R) : R[i] = lista[i + 1]
        BY <2>1, HeadTailProperties
      <4>2. QED
        BY <2>2, <4>1
    <3>2. DOMAIN nueva = 1 .. Len(nueva) /\ DOMAIN lista = 1 .. Len(lista) /\ Len(lista) \in Nat /\ Len(nueva) \in Nat
      BY <2>1, <3>1, LenProperties
    <3>3. QED
      BY <3>1, <3>2
  <2> DEFINE Antes(p, i) == IF p = a THEN i + 1 ELSE i
  <2>4. \A p \in Pid : \A i \in DOMAIN segmentos_en_swap'[p] :
           Antes(p, i) \in DOMAIN segmentos_en_swap[p] /\ segmentos_en_swap'[p][i] = segmentos_en_swap[p][Antes(p, i)]
    BY <2>2, <2>3
  <2>5. \A p, q \in Pid : \A i \in DOMAIN segmentos_en_swap'[p], j \in DOMAIN segmentos_en_swap'[q] :
           <<p, i>> # <<q, j>> => <<p, Antes(p, i)>> # <<q, Antes(q, j)>>
    <3> SUFFICES ASSUME NEW p \in Pid, NEW q \in Pid, NEW i \in DOMAIN segmentos_en_swap'[p],
                        NEW j \in DOMAIN segmentos_en_swap'[q], <<p, i>> # <<q, j>>, p = q
                 PROVE  Antes(p, i) # Antes(q, j)
      OBVIOUS
    <3>1. i # j
      OBVIOUS
    <3>2. CASE p = a
      BY <2>3, <3>1, <3>2
    <3>3. CASE p # a
      BY <3>1, <3>3
    <3>4. QED
      BY <3>2, <3>3
  <2> HIDE DEF Antes
  <2>6. QED
    BY <2>1, <2>4, <2>5 DEF BloquesPropios, DeBloques
<1>6. UNCHANGED <<segmentos_en_swap, proximo_bloque_swap>>
      \/ \E p \in Pid : RestauraSegmento(p) \/ \E n \in Nro : GuardaSegmento(p, n)
  <2>1. ASSUME NEW p \in Pid, CambiaTablas(p)
        PROVE  \/ UNCHANGED <<segmentos_en_swap, proximo_bloque_swap>>
               \/ RestauraSegmento(p) \/ \E n \in Nro : GuardaSegmento(p, n)
    BY <2>1 DEF CambiaTablas, MemAlloc, MemFree, Sale, swap
  <2>2. QED
    BY <2>1, PasosDeTablas DEF tablas
<1>7. QED
  BY <1>3, <1>4, <1>5, <1>6

-----------------------------------------------------------------------------

TablasOK == TipoProceso /\ TipoTablas /\ SinSolaparse /\ BloquesPropios

LEMMA TablasInit == Init => TablasOK
<1> SUFFICES ASSUME Init PROVE TablasOK
  OBVIOUS
<1>1. TipoTablas
  BY DEF Init, TipoTablas, Parcial
<1>2. SinSolaparse
  BY DEF Init, SinSolaparse, SinSolaparseEn
<1>3. BloquesPropios
  BY DEF Init, BloquesPropios
<1>4. TipoProceso
  BY TamanioAssumption DEF TamanioAssumption, Init, TipoProceso, Estado
<1>5. QED
  BY <1>1, <1>2, <1>3, <1>4 DEF TablasOK

\* The tables of kernel_memory keep their form whatever the requests and their order.
THEOREM TablasSiempre == Spec => []TablasOK
<1>1. TablasOK /\ [Next]_vars => TablasOK'
  BY TipoProcesoNext, TipoTablasNext, SolaparseNext, BloquesNext DEF TablasOK
<1>2. QED
  BY TablasInit, <1>1, PTL DEF Spec

\* A block of the SWAP file is of one segment, which has all those it needs.
THEOREM BloquesCorrecto == Spec => []BloquesPropios
<1>1. TablasOK => BloquesPropios
  BY DEF TablasOK
<1>2. QED
  BY TablasSiempre, <1>1, PTL

-----------------------------------------------------------------------------
(* Requests: what the MMU lets through is in the sticks.                    *)

\* The addresses a request names.
Rangos(r) ==
    (IF r.op \in Lectura \cup Escritura THEN Tramo(r.dir, r.tam) ELSE {})
    \cup (IF r.op = "copiar" THEN Tramo(r.destino, r.tam) ELSE {})

TipoPcb == pcb \in [Pid -> Seq(Segmento)]
TipoPedido ==
    /\ pedido \in [Pid -> Pedido]
    /\ leido \in [Pid -> Seq(Valor)]
TipoBytes ==
    /\ DOMAIN espacio_memoria = Stick
    /\ \A s \in Stick : espacio_memoria[s] \in [0 .. tam_stick[s] - 1 -> Valor]
    /\ archivo_swap \in [0 .. proximo_bloque_swap - 1 -> [0 .. Bloque - 1 -> Valor]]

\* A base in a PCB may be stale, but it was that of a segment: it stays in the sticks.
PcbEnMemoria == \A p \in Pid : \A i \in DOMAIN pcb[p] : Rango(pcb[p], i) \subseteq Direccion
PedidoEnMemoria == \A p \in Pid : Rangos(pedido[p]) \subseteq Direccion

LEMMA FuncionEsSecuencia ==
    ASSUME NEW S, NEW n \in Nat, NEW f \in [1 .. n -> S]
    PROVE  f \in Seq(S) /\ Len(f) = n
  BY SMT

LEMMA Numeros ==
    /\ TamMax \in Nat \ {0} /\ Bloque \in Nat \ {0} /\ memoria_total \in Nat
    /\ Id \subseteq Nat /\ Tramos \subseteq Nat /\ Logica \subseteq Nat
<1>1. TamMax \in Nat \ {0} /\ Bloque \in Nat \ {0} /\ memoria_total \in Nat /\ Id \subseteq Nat /\ Tramos \subseteq Nat
  BY TamanioAssumption, StickAssumption DEF TamanioAssumption, StickAssumption
<1>2. ASSUME NEW id \in Id, NEW a \in id * TamMax .. (id + 1) * TamMax - 1 PROVE a \in Nat
  <2>1. id * TamMax \in Nat
    BY <1>1
  <2> QED
    BY <2>1, <1>2
<1>3. QED
  BY <1>1, <1>2 DEF Logica

LEMMA MenorNat ==
    ASSUME NEW S, S \subseteq Nat, S # {}
    PROVE  \E x \in S : \A y \in S : x <= y
<1>1. PICK x \in S : \A y \in S : ~(<<y, x>> \in OpToRel(<, Nat))
  BY WFMin, NatLessThanWellFounded, Zenon
<1>2. ASSUME NEW y \in S PROVE x <= y
  <2>1. <<y, x>> \in Nat \X Nat
    OBVIOUS
  <2>2. ~(y < x)
    BY <1>1, <2>1 DEF OpToRel
  <2>3. QED
    BY <2>2
<1>3. QED
  BY <1>2

LEMMA PrimeroEs ==
    ASSUME TipoPcb, NEW p \in Pid, NEW id, Con(p, id) # {}
    PROVE  Primero(p, id) \in DOMAIN pcb[p]
<1>1. Con(p, id) \subseteq Nat /\ Con(p, id) \subseteq DOMAIN pcb[p]
  BY DEF Con, TipoPcb
<1>2. \E i \in Con(p, id) : \A j \in Con(p, id) : i <= j
  BY <1>1, MenorNat
<1>3. QED
  BY <1>1, <1>2 DEF Primero

\* The entry of the PCB that the MMU takes for dir.
Usado(p, dir) == Primero(p, dir \div TamMax)

\* traducir_direccion_mmu answers SEG_FAULT, or an address whose whole range is in the
\* segment as the PCB has it: the sum of uint32_t does not wrap.
LEMMA MmuEnSegmento ==
    ASSUME TipoPcb, NEW p \in Pid, NEW dir \in Nat, NEW n \in Tramos,
           traducir_direccion_mmu(p, dir, n) # SegFault
    PROVE  /\ traducir_direccion_mmu(p, dir, n) \in Nat
           /\ Usado(p, dir) \in DOMAIN pcb[p]
           /\ Tramo(traducir_direccion_mmu(p, dir, n), n) \subseteq Rango(pcb[p], Usado(p, dir))
<1> DEFINE i == Usado(p, dir)
           d == dir % TamMax
           f == traducir_direccion_mmu(p, dir, n)
<1>1. d \in 0 .. TamMax - 1
  BY Numeros, Division
<1>2. Con(p, dir \div TamMax) # {} /\ (d + n) % Palabra <= pcb[p][i].tamanio /\ f = pcb[p][i].base + d
  BY DEF traducir_direccion_mmu, Usado
<1>3. i \in DOMAIN pcb[p]
  BY <1>2, PrimeroEs DEF Usado
<1> HIDE DEF i, d, f
<1>4. pcb[p][i] \in Segmento
  BY <1>3 DEF TipoPcb
<1>5. pcb[p][i].base \in Nat /\ pcb[p][i].tamanio \in Nat
  BY <1>4, Numeros DEF Segmento
<1>6. n \in Nat /\ n <= Palabra - TamMax /\ Palabra \in Nat
  BY TamanioAssumption DEF TamanioAssumption
<1>7. d + n \in Nat /\ d + n < Palabra
  BY <1>1, <1>6, Numeros
<1>8. (d + n) % Palabra = d + n
  BY <1>7, SumaSinVuelta
<1>9. Tramo(f, n) \subseteq Rango(pcb[p], i) /\ f \in Nat
  BY <1>1, <1>2, <1>5, <1>6, <1>8 DEF Tramo, Rango
<1>10. QED
  BY <1>3, <1>9 DEF f, i

\* Every address of the sticks has a byte.
LEMMA ByteTipo ==
    ASSUME TipoBytes, NEW a \in Direccion
    PROVE  Byte(a) \in Valor
<1>1. buscar_stick(a) \in Stick /\ EnStick(buscar_stick(a), a)
  BY StickAssumption DEF StickAssumption, buscar_stick
<1> DEFINE s == buscar_stick(a)
<1> HIDE DEF s
<1>2. s \in Stick /\ EnStick(s, a)
  BY <1>1 DEF s
<1>3. base_global[s] \in Nat /\ tam_stick[s] \in Nat /\ a \in Nat
  BY <1>2, StickAssumption DEF StickAssumption, Direccion
<1>4. a - base_global[s] \in 0 .. tam_stick[s] - 1
  BY <1>2, <1>3 DEF EnStick
<1>5. espacio_memoria[s][a - base_global[s]] \in Valor
  BY <1>2, <1>4 DEF TipoBytes
<1>6. QED
  BY <1>5 DEF Byte, Local, s

LEMMA LeerTipo ==
    ASSUME TipoBytes, NEW dir \in Nat, NEW n \in Nat, Tramo(dir, n) \subseteq Direccion
    PROVE  leer_de_sticks(dir, n) \in Seq(Valor)
<1>1. \A k \in 1 .. n : dir + k - 1 \in Direccion
  BY DEF Tramo
<1>2. \A k \in 1 .. n : Byte(dir + k - 1) \in Valor
  BY <1>1, ByteTipo
<1>3. leer_de_sticks(dir, n) \in [1 .. n -> Valor]
  BY <1>2 DEF leer_de_sticks
<1>4. QED
  BY <1>3, FuncionEsSecuencia

LEMMA EscribirTipo ==
    ASSUME TipoBytes, NEW dir \in Nat, NEW datos \in Seq(Valor), escribir_en_sticks(dir, datos)
    PROVE  /\ DOMAIN espacio_memoria' = Stick
           /\ \A s \in Stick : espacio_memoria'[s] \in [0 .. tam_stick[s] - 1 -> Valor]
<1>1. \A i \in DOMAIN datos : datos[i] \in Valor
  OBVIOUS
<1>2. QED
  BY <1>1 DEF escribir_en_sticks, TipoBytes

-----------------------------------------------------------------------------
(* The types of a PCB.                                                      *)

\* Only MEM_ALLOC and MEM_FREE change what a PCB says of its segments.
LEMMA SinEs ==
    ASSUME NEW S, NEW f \in Seq(S), NEW i \in DOMAIN f
    PROVE  /\ Sin(f, i) \in Seq(S)
           /\ \A j \in DOMAIN Sin(f, i) : \E k \in DOMAIN f : Sin(f, i)[j] = f[k]
<1>1. i \in 1 .. Len(f) /\ Len(f) \in Nat
  OBVIOUS
<1>2. DOMAIN Sin(f, i) = 1 .. Len(f) - 1
  BY DEF Sin
<1>3. ASSUME NEW j \in 1 .. Len(f) - 1
      PROVE  \E k \in DOMAIN f : Sin(f, i)[j] = f[k]
  <2>1. j \in DOMAIN f /\ j + 1 \in DOMAIN f
    BY <1>1
  <2>2. Sin(f, i)[j] = IF j < i THEN f[j] ELSE f[j + 1]
    BY DEF Sin
  <2>3. QED
    BY <2>1, <2>2
<1>4. \A j \in 1 .. Len(f) - 1 : Sin(f, i)[j] \in S
  BY <1>3
<1>5. Sin(f, i) = [j \in 1 .. Len(f) - 1 |-> Sin(f, i)[j]]
  BY DEF Sin
<1>6. Sin(f, i) \in [1 .. Len(f) - 1 -> S]
  BY <1>4, <1>5
<1>7. Len(f) - 1 \in Nat
  BY <1>1
<1>8. QED
  BY <1>2, <1>3, <1>6, <1>7, FuncionEsSecuencia

LEMMA PcbNext == TipoPcb /\ PcbEnMemoria /\ [Next]_vars => TipoPcb' /\ PcbEnMemoria'
<1> SUFFICES ASSUME TipoPcb, PcbEnMemoria, [Next]_vars PROVE TipoPcb' /\ PcbEnMemoria'
  OBVIOUS
<1>1. CASE UNCHANGED pcb
  BY <1>1 DEF TipoPcb, PcbEnMemoria, Rango, Direccion
<1>0. ASSUME NEW p \in Pid, NEW nueva \in Seq(Segmento), pcb' = [pcb EXCEPT ![p] = nueva],
             \A i \in DOMAIN nueva : Rango(nueva, i) \subseteq Direccion
      PROVE  TipoPcb' /\ PcbEnMemoria'
  BY <1>0 DEF TipoPcb, PcbEnMemoria, Rango, Direccion
<1>2. ASSUME NEW p \in Pid, NEW r \in Pedidos, NEW b \in Direccion, MemAlloc(p, r[1], r[2], b)
      PROVE  TipoPcb' /\ PcbEnMemoria'
  <2> DEFINE v == [id |-> r[1], base |-> b, tamanio |-> r[2]]
             nueva == Append(pcb[p], v)
  <2>1. pcb' = [pcb EXCEPT ![p] = nueva] /\ Hueco(b, r[2])
    BY <1>2 DEF MemAlloc
  <2>2. v \in Segmento
    BY TamanioAssumption, Numeros DEF TamanioAssumption, Direccion, Segmento
  <2>3. pcb[p] \in Seq(Segmento)
    BY DEF TipoPcb
  <2>4. v.base = b /\ v.tamanio = r[2]
    OBVIOUS
  <2> HIDE DEF v
  <2>5. /\ nueva \in Seq(Segmento) /\ DOMAIN nueva = DOMAIN pcb[p] \cup {Len(pcb[p]) + 1}
        /\ nueva[Len(pcb[p]) + 1] = v /\ \A i \in DOMAIN pcb[p] : nueva[i] = pcb[p][i]
    BY <2>2, <2>3
  <2>6. b .. b + r[2] - 1 \subseteq Direccion
    BY <2>1 DEF Hueco, Libres
  <2> HIDE DEF nueva
  <2>7. \A i \in DOMAIN nueva : Rango(nueva, i) \subseteq Direccion
    BY <2>4, <2>5, <2>6 DEF PcbEnMemoria, Rango
  <2>8. QED
    BY <1>0, <2>1, <2>5, <2>7
<1>3. ASSUME NEW p \in Pid, NEW id \in Id, MemFree(p, id) PROVE TipoPcb' /\ PcbEnMemoria'
  <2> DEFINE nueva == IF Con(p, id) = {} THEN pcb[p] ELSE Sin(pcb[p], Primero(p, id))
  <2>1. pcb' = [pcb EXCEPT ![p] = nueva]
    BY <1>3 DEF MemFree
  <2>2. pcb[p] \in Seq(Segmento)
    BY DEF TipoPcb
  <2>3. CASE Con(p, id) = {}
    BY <1>0, <2>1, <2>2, <2>3 DEF PcbEnMemoria
  <2>4. CASE Con(p, id) # {}
    <3>1. Primero(p, id) \in DOMAIN pcb[p]
      BY <2>4, PrimeroEs
    <3>2. nueva = Sin(pcb[p], Primero(p, id))
      BY <2>4
    <3>3. nueva \in Seq(Segmento) /\ \A j \in DOMAIN nueva : \E k \in DOMAIN pcb[p] : nueva[j] = pcb[p][k]
      BY <2>2, <3>1, <3>2, SinEs
    <3> HIDE DEF nueva
    <3>4. \A j \in DOMAIN nueva : Rango(nueva, j) \subseteq Direccion
      BY <3>3 DEF PcbEnMemoria, Rango
    <3>5. QED
      BY <1>0, <2>1, <3>3, <3>4
  <2>5. QED
    BY <2>3, <2>4
<1>4. ASSUME NEW p \in Pid, Instruccion(p) PROVE UNCHANGED pcb
  BY <1>4 DEF Instruccion, Duerme, Exit, MovIn, MovOut, CopyMem, LlamaIO, Accede
<1>5. ASSUME NEW p \in Pid, Lee(p) \/ Escribe(p) \/ Sale(p) \/ Suspension(p) PROVE UNCHANGED pcb
  BY <1>5 DEF Lee, Escribe, Sale, Suspension, FinIO, FinStdin, Suspende, TerminaGuardar, GuardaSegmento,
     Desuspende, RestauraSegmento, TerminaVolver
<1>6. CASE UNCHANGED vars \/ Fin
  BY <1>1, <1>6 DEF Fin, vars
<1>7. QED
  BY <1>1, <1>2, <1>3, <1>4, <1>5, <1>6 DEF Next, Memoria

-----------------------------------------------------------------------------
(* The types of a request, and that its range is in the sticks.             *)

\* The request of p is replaced by one that names only addresses of the sticks.
Cambia(p, r, l) ==
    /\ r \in Pedido /\ l \in Seq(Valor) /\ Rangos(r) \subseteq Direccion
    /\ pedido' = [pedido EXCEPT ![p] = r]
    /\ leido' = [leido EXCEPT ![p] = l]

LEMMA PeticionTipo ==
    ASSUME NEW op \in Lectura \cup Escritura \cup {"ninguno", "espera"},
           NEW dir \in Nat, NEW tam \in Nat, NEW destino \in Nat, NEW datos \in Seq(Valor), NEW al_dia \in BOOLEAN,
           op \in Lectura \cup Escritura => Tramo(dir, tam) \subseteq Direccion,
           op = "copiar" => Tramo(destino, tam) \subseteq Direccion
    PROVE  /\ Peticion(op, dir, tam, destino, datos, al_dia) \in Pedido
           /\ Rangos(Peticion(op, dir, tam, destino, datos, al_dia)) \subseteq Direccion
<1>1. Peticion(op, dir, tam, destino, datos, al_dia) \in Pedido
  BY DEF Peticion, Pedido
<1>2. Rangos(Peticion(op, dir, tam, destino, datos, al_dia)) \subseteq Direccion
  BY DEF Peticion, Rangos
<1>3. QED
  BY <1>1, <1>2

LEMMA SinMemoriaTipo ==
    /\ Ninguno \in Pedido /\ Rangos(Ninguno) \subseteq Direccion
    /\ EnEspera \in Pedido /\ Rangos(EnEspera) \subseteq Direccion
<1>1. <<>> \in Seq(Valor) /\ {"ninguno", "espera"} \cap (Lectura \cup Escritura) = {}
  BY DEF Lectura, Escritura
<1>2. QED
  BY <1>1, PeticionTipo DEF Ninguno, EnEspera

\* The instructions that name memory: what they ask for is in the sticks.
LEMMA AccedeCambia ==
    ASSUME TipoPcb, TipoPedido, PcbEnMemoria, NEW p \in Pid, Instruccion(p)
    PROVE  UNCHANGED <<pedido, leido>> \/ \E r, l : Cambia(p, r, l)
<1> USE DEF TipoPedido
<1>0. leido = [leido EXCEPT ![p] = leido[p]]
  OBVIOUS
<1>1. ASSUME NEW dir \in Logica, NEW n \in Tramos, traducir_direccion_mmu(p, dir, n) # SegFault
      PROVE  /\ traducir_direccion_mmu(p, dir, n) \in Nat /\ n \in Nat
             /\ Tramo(traducir_direccion_mmu(p, dir, n), n) \subseteq Direccion
  <2>1. dir \in Nat /\ n \in Nat
    BY Numeros
  <2>2. PICK i \in DOMAIN pcb[p] : /\ traducir_direccion_mmu(p, dir, n) \in Nat
                                   /\ Tramo(traducir_direccion_mmu(p, dir, n), n) \subseteq Rango(pcb[p], i)
    BY <1>1, <2>1, MmuEnSegmento
  <2>3. QED
    BY <2>1, <2>2 DEF PcbEnMemoria
<1>2. ASSUME NEW dirs, NEW op \in Lectura \cup Escritura, NEW f, NEW n, NEW g, NEW datos \in Seq(Valor),
             NEW al_dia \in BOOLEAN, NEW donde,
             Accede(p, dirs, Peticion(op, f, n, g, datos, al_dia), donde),
             SegFault \notin dirs => /\ f \in Nat /\ n \in Nat /\ g \in Nat /\ Tramo(f, n) \subseteq Direccion
                                     /\ op = "copiar" => Tramo(g, n) \subseteq Direccion
      PROVE  UNCHANGED <<pedido, leido>> \/ \E x, l : Cambia(p, x, l)
  <2>1. CASE SegFault \in dirs
    BY <1>2, <2>1 DEF Accede
  <2>2. CASE SegFault \notin dirs
    <3> DEFINE r == Peticion(op, f, n, g, datos, al_dia)
    <3>1. r \in Pedido /\ Rangos(r) \subseteq Direccion
      BY <1>2, <2>2, PeticionTipo
    <3>2. pedido' = [pedido EXCEPT ![p] = r] /\ leido' = leido
      BY <1>2, <2>2 DEF Accede, Pide
    <3>3. Cambia(p, r, leido[p])
      BY <1>0, <3>1, <3>2 DEF Cambia
    <3>4. QED
      BY <3>3
  <2>3. QED
    BY <2>1, <2>2
<1>3. CASE Duerme(p)
  <2>1. Cambia(p, EnEspera, leido[p])
    BY <1>0, <1>3, SinMemoriaTipo DEF Duerme, Pide, Cambia
  <2>2. QED
    BY <2>1
<1>4. CASE Exit(p)
  BY <1>4 DEF Exit
<1>5. <<>> \in Seq(Valor) /\ \A dir : AlDia(p, dir) \in BOOLEAN
  BY DEF AlDia
<1>6. ASSUME NEW n \in Tramos, NEW dir \in Logica, NEW op \in {"leer", "stdin", "stdout"}, NEW donde,
             Accede(p, {traducir_direccion_mmu(p, dir, n)},
                    Peticion(op, traducir_direccion_mmu(p, dir, n), n, 0, <<>>, AlDia(p, dir)), donde)
      PROVE  UNCHANGED <<pedido, leido>> \/ \E r, l : Cambia(p, r, l)
  <2> DEFINE f == traducir_direccion_mmu(p, dir, n)
  <2>1. op \in Lectura \cup Escritura /\ op # "copiar"
    BY DEF Lectura, Escritura
  <2>2. SegFault \notin {f} => f \in Nat /\ n \in Nat /\ Tramo(f, n) \subseteq Direccion
    BY <1>1
  <2> HIDE DEF f
  <2>3. Accede(p, {f}, Peticion(op, f, n, 0, <<>>, AlDia(p, dir)), donde)
    BY <1>6 DEF f
  <2>4. QED
    BY <1>2, <1>5, <2>1, <2>2, <2>3
<1>7. ASSUME NEW n \in Tramos, NEW dir \in Logica, NEW v \in Valor, MovOut(p, dir, n, v)
      PROVE  UNCHANGED <<pedido, leido>> \/ \E r, l : Cambia(p, r, l)
  <2> DEFINE f == traducir_direccion_mmu(p, dir, n)
             datos == [k \in 1 .. n |-> v]
  <2>1. datos \in Seq(Valor)
    BY Numeros, FuncionEsSecuencia
  <2>2. "escribir" \in Lectura \cup Escritura /\ "escribir" # "copiar"
    BY DEF Lectura, Escritura
  <2>3. SegFault \notin {f} => f \in Nat /\ n \in Nat /\ Tramo(f, n) \subseteq Direccion
    BY <1>1
  <2>4. Accede(p, {f}, Peticion("escribir", f, n, 0, datos, AlDia(p, dir)), "ACTIVO")
    BY <1>7 DEF MovOut
  <2> HIDE DEF f, datos
  <2>5. QED
    BY <1>2, <1>5, <2>1, <2>2, <2>3, <2>4
<1>8. ASSUME NEW n \in Tramos, NEW si \in Logica, NEW di \in Logica, CopyMem(p, si, di, n)
      PROVE  UNCHANGED <<pedido, leido>> \/ \E r, l : Cambia(p, r, l)
  <2> DEFINE f == traducir_direccion_mmu(p, si, n)
             g == traducir_direccion_mmu(p, di, n)
  <2>1. "copiar" \in Lectura \cup Escritura
    BY DEF Lectura
  <2>2. SegFault \notin {f, g} => /\ f \in Nat /\ n \in Nat /\ g \in Nat /\ Tramo(f, n) \subseteq Direccion
                                  /\ Tramo(g, n) \subseteq Direccion
    BY <1>1
  <2>3. Accede(p, {f, g}, Peticion("copiar", f, n, g, <<>>, AlDia(p, si) /\ AlDia(p, di)), "ACTIVO")
    BY <1>8 DEF CopyMem
  <2> HIDE DEF f, g
  <2>4. QED
    BY <1>2, <1>5, <2>1, <2>2, <2>3
<1>9. QED
  <2>1. CASE \E n \in Tramos, dir \in Logica : MovIn(p, dir, n)
    BY <1>6, <2>1 DEF MovIn
  <2>2. CASE \E n \in Tramos, dir \in Logica, op \in {"stdin", "stdout"} : LlamaIO(p, op, dir, n)
    BY <1>6, <2>2 DEF LlamaIO
  <2>3. QED
    BY <1>3, <1>4, <1>7, <1>8, <2>1, <2>2 DEF Instruccion

\* Every step leaves the requests alone or changes one so.
LEMMA PedidoCambia ==
    ASSUME TipoPcb, TipoPedido, TipoBytes, PcbEnMemoria, PedidoEnMemoria, [Next]_vars
    PROVE  UNCHANGED <<pedido, leido>> \/ \E p \in Pid : \E r, l : Cambia(p, r, l)
<1> USE DEF TipoPedido
<1>1. CASE UNCHANGED vars \/ Fin
  BY <1>1 DEF Fin, vars
<1>2. ASSUME NEW p \in Pid, Instruccion(p) PROVE UNCHANGED <<pedido, leido>> \/ \E r, l : Cambia(p, r, l)
  BY <1>2, AccedeCambia
<1>3. ASSUME NEW p \in Pid, pedido' = [pedido EXCEPT ![p] = Ninguno], leido' = leido
      PROVE  Cambia(p, Ninguno, leido[p])
  BY <1>3, SinMemoriaTipo DEF Cambia
<1>4. ASSUME NEW p \in Pid
      PROVE  /\ pedido[p].dir \in Nat /\ pedido[p].tam \in Nat /\ pedido[p].destino \in Nat
             /\ pedido[p].al_dia \in BOOLEAN
             /\ pedido[p].op \in Lectura \cup Escritura => Tramo(pedido[p].dir, pedido[p].tam) \subseteq Direccion
             /\ pedido[p].op = "copiar" => Tramo(pedido[p].destino, pedido[p].tam) \subseteq Direccion
  BY DEF Pedido, PedidoEnMemoria, Rangos
<1>5. ASSUME NEW p \in Pid, Lee(p) PROVE \E r, l : Cambia(p, r, l)
  <2> DEFINE bytes == leer_de_sticks(pedido[p].dir, pedido[p].tam)
             copia == Peticion("escribir", pedido[p].destino, pedido[p].tam, 0, bytes, pedido[p].al_dia)
  <2>1. pedido[p].op \in Lectura
    BY <1>5 DEF Lee
  <2>2. bytes \in Seq(Valor)
    BY <1>4, <2>1, LeerTipo
  <2>3. leido' = [leido EXCEPT ![p] = bytes]
    BY <1>5 DEF Lee
  <2>4. CASE pedido[p].op = "leer"
    <3>1. Cambia(p, Ninguno, bytes)
      BY <1>5, <2>2, <2>3, <2>4, SinMemoriaTipo DEF Lee, Pide, Cambia
    <3>2. QED
      BY <3>1
  <2>5. CASE pedido[p].op = "stdout"
    <3>1. Cambia(p, EnEspera, bytes)
      BY <1>5, <2>2, <2>3, <2>5, SinMemoriaTipo DEF Lee, Pide, Cambia
    <3>2. QED
      BY <3>1
  <2>6. CASE pedido[p].op = "copiar"
    <3>1. "escribir" \in Lectura \cup Escritura /\ "escribir" # "copiar"
      BY DEF Escritura
    <3>2. copia \in Pedido /\ Rangos(copia) \subseteq Direccion
      BY <1>4, <2>2, <2>6, <3>1, PeticionTipo
    <3>3. pedido' = [pedido EXCEPT ![p] = copia]
      BY <1>5, <2>6 DEF Lee, Pide
    <3>4. Cambia(p, copia, bytes)
      BY <2>2, <2>3, <3>2, <3>3 DEF Cambia
    <3>5. QED
      BY <3>4
  <2>7. QED
    BY <2>1, <2>4, <2>5, <2>6 DEF Lectura
<1>6. ASSUME NEW p \in Pid, NEW v \in Valor, FinStdin(p, v) PROVE \E r, l : Cambia(p, r, l)
  <2> DEFINE datos == [k \in 1 .. pedido[p].tam |-> v]
             escrito == Peticion("escribir", pedido[p].dir, pedido[p].tam, 0, datos, pedido[p].al_dia)
  <2>1. CASE estado[p] = "BLOCK"
    <3>1. datos \in Seq(Valor)
      BY <1>4, FuncionEsSecuencia
    <3>2. pedido' = [pedido EXCEPT ![p] = escrito] /\ leido' = leido /\ pedido[p].op = "stdin"
      BY <1>6, <2>1 DEF FinStdin, Pide
    <3>3. pedido[p].op \in Lectura \cup Escritura /\ "escribir" \in Lectura \cup Escritura /\ "escribir" # "copiar"
      BY <3>2 DEF Escritura
    <3>4. escrito \in Pedido /\ Rangos(escrito) \subseteq Direccion
      BY <1>4, <3>1, <3>3, PeticionTipo
    <3>5. Cambia(p, escrito, leido[p])
      BY <3>2, <3>4 DEF Cambia
    <3>6. QED
      BY <3>5
  <2>2. CASE estado[p] # "BLOCK"
    <3>1. Cambia(p, Ninguno, leido[p])
      BY <1>3, <1>6, <2>2 DEF FinStdin, Pide
    <3>2. QED
      BY <3>1
  <2>3. QED
    BY <2>1, <2>2
<1>7. ASSUME NEW p \in Pid, Escribe(p) \/ FinIO(p) PROVE \E r, l : Cambia(p, r, l)
  <2>1. Cambia(p, Ninguno, leido[p])
    BY <1>3, <1>7 DEF Escribe, FinIO, Pide
  <2>2. QED
    BY <2>1
<1>8. ASSUME NEW p \in Pid, Memoria(p), ~Lee(p), ~Escribe(p) PROVE UNCHANGED <<pedido, leido>>
  BY <1>8 DEF Memoria, Sale, MemFree, MemAlloc
<1>9. ASSUME NEW p \in Pid, Suspension(p), ~FinIO(p), ~\E v \in Valor : FinStdin(p, v)
      PROVE  UNCHANGED <<pedido, leido>>
  BY <1>9 DEF Suspension, Suspende, TerminaGuardar, GuardaSegmento, Desuspende, RestauraSegmento, TerminaVolver
<1>10. QED
  BY <1>1, <1>2, <1>5, <1>6, <1>7, <1>8, <1>9 DEF Next

LEMMA PedidoNext ==
    ASSUME TipoPcb, TipoPedido, TipoBytes, PcbEnMemoria, PedidoEnMemoria, [Next]_vars
    PROVE  TipoPedido' /\ PedidoEnMemoria'
<1>1. CASE UNCHANGED <<pedido, leido>>
  BY <1>1 DEF TipoPedido, PedidoEnMemoria, Rangos, Tramo, Direccion
<1>2. ASSUME NEW p \in Pid, NEW r, NEW l, Cambia(p, r, l) PROVE TipoPedido' /\ PedidoEnMemoria'
  BY <1>2 DEF Cambia, TipoPedido, PedidoEnMemoria, Rangos, Tramo, Direccion
<1>3. QED
  BY <1>1, <1>2, PedidoCambia

-----------------------------------------------------------------------------
(* The bytes of the sticks and of SWAP.                                     *)

LEMMA CocienteMenor ==
    ASSUME NEW a \in Nat, NEW b \in Nat \ {0}, NEW c \in Nat, a < c * b
    PROVE  a \div b \in 0 .. c - 1
<1> DEFINE q == a \div b
           r == a % b
<1>1. q \in Nat /\ r \in Nat /\ a = b * q + r
  BY Division
<1> HIDE DEF q, r
<1>2. ASSUME q >= c PROVE FALSE
  <2>1. PICK d \in Nat : q = c + d
    <3>1. q - c \in Nat /\ q = c + (q - c)
      BY <1>1, <1>2
    <3>2. QED
      BY <3>1
  <2>2. b * q = c * b + b * d
    BY <2>1
  <2>3. b * d \in Nat /\ c * b \in Nat
    BY <2>1
  <2>4. QED
    BY <1>1, <2>2, <2>3
<1>3. q \in 0 .. c - 1
  BY <1>1, <1>2
<1>4. QED
  BY <1>3 DEF q

\* SWAP_LECTURA reads back blocks that were written, and all of them.
LEMMA DeSwapTipo ==
    ASSUME TipoBytes, TipoTablas, BloquesPropios, NEW p \in Pid, NEW i \in DOMAIN segmentos_en_swap[p],
           NEW k \in 0 .. segmentos_en_swap[p][i].tamanio - 1
    PROVE  DeSwap(segmentos_en_swap[p][i], k) \in Valor
<1> DEFINE e == segmentos_en_swap[p][i]
<1>1. e \in EntradaSwap /\ e.tamanio <= e.cant * Bloque /\ e.inicio + e.cant <= proximo_bloque_swap
  BY DEF TipoTablas, BloquesPropios
<1>2. k \in 0 .. e.tamanio - 1
  OBVIOUS
<1> HIDE DEF e
<1>3. e.inicio \in Nat /\ e.cant \in Nat /\ e.tamanio \in Nat /\ k \in Nat
  BY <1>1, <1>2, Numeros DEF EntradaSwap
<1> DEFINE capacidad == e.cant * Bloque
<1>4. capacidad \in Nat
  BY <1>3, Numeros
<1>5. e.tamanio <= capacidad
  BY <1>1
<1> HIDE DEF capacidad
<1>6. k < capacidad
  BY <1>2, <1>3, <1>4, <1>5
<1>7. k \div Bloque \in 0 .. e.cant - 1
  BY <1>3, <1>6, CocienteMenor, Numeros DEF capacidad
<1>8. k % Bloque \in 0 .. Bloque - 1
  BY <1>3, Division, Numeros
<1>9. e.inicio + (k \div Bloque) \in 0 .. proximo_bloque_swap - 1
  BY <1>1, <1>3, <1>7 DEF TipoTablas
<1>10. archivo_swap[e.inicio + (k \div Bloque)][k % Bloque] \in Valor
  BY <1>8, <1>9 DEF TipoBytes
<1>11. QED
  BY <1>10 DEF DeSwap, e

LEMMA BytesNext ==
    ASSUME TipoBytes, TipoPedido, TablasOK, [Next]_vars
    PROVE  TipoBytes'
<1> USE DEF TablasOK
<1>1. CASE UNCHANGED <<espacio_memoria, archivo_swap, proximo_bloque_swap>>
  BY <1>1 DEF TipoBytes
<1>2. ASSUME NEW p \in Pid, Escribe(p) PROVE TipoBytes'
  <2>1. pedido[p].dir \in Nat /\ pedido[p].datos \in Seq(Valor)
    BY DEF TipoPedido, Pedido
  <2>2. escribir_en_sticks(pedido[p].dir, pedido[p].datos)
    BY <1>2 DEF Escribe
  <2>3. QED
    BY <1>2, <2>1, <2>2, EscribirTipo DEF Escribe, swap, TipoBytes
<1>3. ASSUME NEW p \in Pid, RestauraSegmento(p) PROVE TipoBytes'
  <2> DEFINE e == Head(segmentos_en_swap[p])
             datos == [k \in 1 .. e.tamanio |-> DeSwap(e, k - 1)]
  <2>1. CASE UNCHANGED espacio_memoria
    BY <1>1, <1>3, <2>1 DEF RestauraSegmento
  <2>2. ASSUME NEW b \in Direccion, escribir_en_sticks(b, datos) PROVE TipoBytes'
    <3>1. segmentos_en_swap[p] \in Seq(EntradaSwap) /\ segmentos_en_swap[p] # <<>>
      BY <1>3 DEF RestauraSegmento, TipoTablas
    <3>2. 1 \in DOMAIN segmentos_en_swap[p] /\ e = segmentos_en_swap[p][1] /\ e \in EntradaSwap
      BY <3>1
    <3>3. e.tamanio \in Nat
      BY <3>2, Numeros DEF EntradaSwap
    <3>4. ASSUME NEW k \in 1 .. e.tamanio PROVE DeSwap(e, k - 1) \in Valor
      <4>1. k - 1 \in 0 .. segmentos_en_swap[p][1].tamanio - 1
        BY <3>2, <3>3
      <4>2. DeSwap(segmentos_en_swap[p][1], k - 1) \in Valor
        BY <3>2, <4>1, DeSwapTipo
      <4>3. QED
        BY <3>2, <4>2
    <3> HIDE DEF e
    <3>5. datos \in [1 .. e.tamanio -> Valor]
      BY <3>4
    <3>6. datos \in Seq(Valor)
      BY <3>3, <3>5, FuncionEsSecuencia
    <3>7. b \in Nat
      BY DEF Direccion
    <3> HIDE DEF datos
    <3>8. QED
      BY <1>3, <2>2, <3>6, <3>7, EscribirTipo DEF RestauraSegmento, TipoBytes
  <2>3. QED
    BY <1>3, <2>1, <2>2 DEF RestauraSegmento
<1>4. ASSUME NEW p \in Pid, NEW n \in Nro, GuardaSegmento(p, n) PROVE TipoBytes'
  <2> DEFINE seg == tabla[<<p, n>>]
             b0 == proximo_bloque_swap
             cant == Bloques(seg.tamanio)
  <2>1. seg \in Segmento /\ Ocupa(p, n) \subseteq Direccion
    <3>1. <<p, n>> \in DOMAIN tabla
      BY <1>4 DEF GuardaSegmento
    <3>2. tabla[<<p, n>>] \in Segmento
      BY <3>1 DEF TipoTablas, Parcial
    <3>3. Ocupa(p, n) = Rango(tabla, <<p, n>>)
      BY DEF Ocupa, Rango
    <3>4. QED
      BY <3>1, <3>2, <3>3 DEF SinSolaparse, SinSolaparseEn
  <2>2. seg.base \in Nat /\ seg.tamanio \in Nat
    BY <2>1, Numeros DEF Segmento
  <2>3. cant \in Nat /\ b0 \in Nat
    BY <2>2, BloquesBastan DEF TipoTablas
  <2>4. Ocupa(p, n) = seg.base .. seg.base + seg.tamanio - 1
    BY DEF Ocupa
  <2>5. /\ archivo_swap' = [b \in 0 .. b0 + cant - 1 |->
              IF b < b0 THEN archivo_swap[b]
              ELSE [o \in 0 .. Bloque - 1 |->
                      LET k == (b - b0) * Bloque + o
                      IN  IF k < seg.tamanio THEN Byte(seg.base + k) ELSE 0]]
        /\ proximo_bloque_swap' = b0 + cant /\ espacio_memoria' = espacio_memoria
    BY <1>4 DEF GuardaSegmento
  <2> HIDE DEF seg, cant
  <2>6. ASSUME NEW k \in Nat, k < seg.tamanio PROVE Byte(seg.base + k) \in Valor
    <3>1. seg.base + k \in Direccion
      BY <2>1, <2>2, <2>4, <2>6
    <3>2. QED
      BY <3>1, ByteTipo
  <2>7. ASSUME NEW b \in 0 .. b0 + cant - 1, ~(b < b0), NEW o \in 0 .. Bloque - 1 PROVE (b - b0) * Bloque + o \in Nat
    <3>1. b - b0 \in Nat
      BY <2>3, <2>7
    <3>2. (b - b0) * Bloque \in Nat
      BY <3>1, Numeros
    <3>3. QED
      BY <3>2, Numeros
  <2>8. 0 \in Valor
    BY TamanioAssumption DEF TamanioAssumption
  <2>9. ASSUME NEW b \in 0 .. b0 + cant - 1 PROVE archivo_swap'[b] \in [0 .. Bloque - 1 -> Valor]
    <3>1. CASE b < b0
      <4>1. b \in 0 .. b0 - 1
        BY <2>3, <3>1
      <4>2. QED
        BY <2>5, <3>1, <4>1 DEF TipoBytes
    <3>2. CASE ~(b < b0)
      <4>1. archivo_swap'[b] = [o \in 0 .. Bloque - 1 |->
                      IF (b - b0) * Bloque + o < seg.tamanio THEN Byte(seg.base + ((b - b0) * Bloque + o)) ELSE 0]
        BY <2>5, <3>2
      <4>2. \A o \in 0 .. Bloque - 1 : (b - b0) * Bloque + o < seg.tamanio =>
                Byte(seg.base + ((b - b0) * Bloque + o)) \in Valor
        BY <2>6, <2>7, <3>2
      <4>3. QED
        BY <2>8, <4>1, <4>2
    <3>3. QED
      BY <3>1, <3>2
  <2>10. archivo_swap' \in [0 .. proximo_bloque_swap' - 1 -> [0 .. Bloque - 1 -> Valor]]
    <3>1. archivo_swap' = [b \in 0 .. b0 + cant - 1 |-> archivo_swap'[b]] /\ proximo_bloque_swap' = b0 + cant
      BY <2>5
    <3>2. archivo_swap' \in [0 .. b0 + cant - 1 -> [0 .. Bloque - 1 -> Valor]]
      BY <2>9, <3>1
    <3>3. QED
      BY <2>3, <3>1, <3>2
  <2>11. QED
    BY <2>5, <2>10 DEF TipoBytes
<1>5. CASE UNCHANGED vars \/ Fin
  BY <1>1, <1>5 DEF Fin, vars, swap
<1>6. ASSUME NEW p \in Pid, Instruccion(p) PROVE TipoBytes'
  BY <1>1, <1>6 DEF Instruccion, Duerme, Exit, MovIn, MovOut, CopyMem, LlamaIO, Accede, swap
<1>7. ASSUME NEW p \in Pid, Memoria(p), ~Escribe(p) PROVE TipoBytes'
  BY <1>1, <1>7 DEF Memoria, Lee, Sale, MemFree, MemAlloc, swap
<1>8. ASSUME NEW p \in Pid, Suspension(p), ~RestauraSegmento(p), ~\E n \in Nro : GuardaSegmento(p, n)
      PROVE  TipoBytes'
  BY <1>1, <1>8 DEF Suspension, FinIO, FinStdin, Suspende, TerminaGuardar, Desuspende, TerminaVolver, swap
<1>9. QED
  BY <1>2, <1>3, <1>4, <1>5, <1>6, <1>7, <1>8 DEF Next

-----------------------------------------------------------------------------

TiposOK ==
    /\ TablasOK
    /\ TipoPcb /\ TipoPedido /\ TipoBytes
    /\ PcbEnMemoria /\ PedidoEnMemoria

LEMMA TiposInit == Init => TiposOK
<1> SUFFICES ASSUME Init PROVE TiposOK
  OBVIOUS
<1>1. TablasOK
  BY TablasInit
<1>2. TipoPcb /\ PcbEnMemoria
  BY DEF Init, TipoPcb, PcbEnMemoria
<1>3. TipoPedido /\ PedidoEnMemoria
  BY SinMemoriaTipo DEF Init, TipoPedido, PedidoEnMemoria
<1>4. TipoBytes
  BY TamanioAssumption DEF TamanioAssumption, Init, TipoBytes
<1>5. QED
  BY <1>1, <1>2, <1>3, <1>4 DEF TiposOK

\* Types, tables, and that no address leaves the sticks, stale bases included: together
\* they are inductive.
THEOREM TiposSiempre == Spec => []TiposOK
<1>1. TiposOK /\ [Next]_vars => TiposOK'
  BY TipoTablasNext, SolaparseNext, BloquesNext, TipoProcesoNext, PcbNext, PedidoNext, BytesNext DEF TiposOK, TablasOK
<1>2. QED
  BY TiposInit, <1>1, PTL DEF Spec

\* Every variable keeps its type: no access of a program, also one by a stale base,
\* leaves the sticks, and no block is read from SWAP that was not written.
THEOREM TypeCorrect == Spec => []TypeOK
<1>1. TiposOK => TypeOK
  BY DEF TiposOK, TablasOK, TipoTablas, TipoProceso, TipoPcb, TipoPedido, TipoBytes, TypeOK
<1>2. QED
  BY TiposSiempre, <1>1, PTL

-----------------------------------------------------------------------------
(* What a process may be waiting for, by where its PCB is.                   *)

\* Segments leave memory only when no access of their process is left to serve, if no
\* timer outruns the read of a STDOUT.
OpSegunEstado(e, op) ==
    /\ e = "ACTIVO" => op \in {"ninguno", "leer", "copiar", "escribir"}
    /\ e \in {"SALE", "VUELVE", "FIN"} => op = "ninguno"
    /\ e = "BLOCK" => op \in {"stdin", "stdout", "espera"}
    /\ e = "MANO" => op = "escribir"
    /\ e \in {"GUARDA", "SUSP"} =>
           op \in {"ninguno", "stdin", "espera"} \cup (IF SuspensionCorta THEN {"stdout"} ELSE {})
EsperaSegunEstado == \A p \in Pid : OpSegunEstado(estado[p], pedido[p].op)

LEMMA OpDePeticion ==
    /\ Ninguno.op = "ninguno" /\ EnEspera.op = "espera"
    /\ \A op, dir, tam, destino, datos, al_dia : Peticion(op, dir, tam, destino, datos, al_dia).op = op
  BY DEF Ninguno, EnEspera, Peticion

LEMMA EsperaNext ==
    ASSUME TipoProceso, TipoPedido, EsperaSegunEstado, [Next]_vars
    PROVE  EsperaSegunEstado'
<1> USE OpDePeticion DEF TipoProceso, TipoPedido, EsperaSegunEstado
<1>1. CASE UNCHANGED <<estado, pedido>>
  BY <1>1
<1>2. ASSUME NEW p \in Pid, UNCHANGED pedido, NEW e, estado' = [estado EXCEPT ![p] = e],
             OpSegunEstado(e, pedido[p].op)
      PROVE  EsperaSegunEstado'
  BY <1>2
<1>3. ASSUME NEW p \in Pid, NEW r, pedido' = [pedido EXCEPT ![p] = r], NEW e, estado' = [estado EXCEPT ![p] = e],
             OpSegunEstado(e, r.op)
      PROVE  EsperaSegunEstado'
  BY <1>3
<1>4. ASSUME NEW p \in Pid, NEW r, pedido' = [pedido EXCEPT ![p] = r], UNCHANGED estado,
             OpSegunEstado(estado[p], r.op)
      PROVE  EsperaSegunEstado'
  BY <1>4
<1>5. ASSUME NEW p \in Pid, Instruccion(p) PROVE EsperaSegunEstado'
  <2>1. ASSUME NEW dirs, NEW op, NEW f, NEW n, NEW g, NEW datos, NEW d, NEW e,
               Accede(p, dirs, Peticion(op, f, n, g, datos, d), e), OpSegunEstado(e, op)
        PROVE  EsperaSegunEstado'
    <3> DEFINE r == Peticion(op, f, n, g, datos, d)
    <3>1. CASE SegFault \in dirs
      BY <1>2, <2>1, <3>1 DEF Accede, Instruye, Pone, OpSegunEstado
    <3>2. CASE SegFault \notin dirs
      <4>1. pedido' = [pedido EXCEPT ![p] = r] /\ estado' = [estado EXCEPT ![p] = e]
        BY <2>1, <3>2 DEF Accede, Pone, Pide
      <4>2. r.op = op
        OBVIOUS
      <4> HIDE DEF r
      <4>3. QED
        BY <1>3, <2>1, <4>1, <4>2
    <3>3. QED
      BY <3>1, <3>2
  <2>2. CASE Duerme(p)
    BY <1>3, <2>2 DEF Duerme, Pone, Pide, OpSegunEstado
  <2>3. CASE Exit(p)
    BY <1>2, <2>3 DEF Exit, Pone, OpSegunEstado
  <2>4. /\ \A op \in {"leer", "escribir", "copiar"} : OpSegunEstado("ACTIVO", op)
        /\ \A op \in {"stdin", "stdout"} : OpSegunEstado("BLOCK", op)
    BY DEF OpSegunEstado
  <2>5. CASE \E n \in Tramos, dir \in Logica : MovIn(p, dir, n)
    BY <2>1, <2>4, <2>5 DEF MovIn
  <2>6. CASE \E n \in Tramos, dir \in Logica, v \in Valor : MovOut(p, dir, n, v)
    BY <2>1, <2>4, <2>6 DEF MovOut
  <2>7. CASE \E n \in Tramos, dir \in Logica, di \in Logica : CopyMem(p, dir, di, n)
    BY <2>1, <2>4, <2>7 DEF CopyMem
  <2>8. CASE \E n \in Tramos, dir \in Logica, op \in {"stdin", "stdout"} : LlamaIO(p, op, dir, n)
    BY <2>1, <2>4, <2>8 DEF LlamaIO
  <2>9. QED
    BY <1>5, <2>2, <2>3, <2>5, <2>6, <2>7, <2>8 DEF Instruccion
<1>6. ASSUME NEW p \in Pid, Lee(p) PROVE EsperaSegunEstado'
  <2>1. pedido[p].op \in Lectura /\ UNCHANGED estado
    BY <1>6 DEF Lee
  <2>2. CASE pedido[p].op = "leer"
    BY <1>4, <1>6, <2>1, <2>2 DEF Lee, Pide, OpSegunEstado, Estado
  <2>3. CASE pedido[p].op = "stdout"
    BY <1>4, <1>6, <2>1, <2>3 DEF Lee, Pide, OpSegunEstado, Estado
  <2>4. CASE pedido[p].op = "copiar"
    <3> DEFINE r == Peticion("escribir", pedido[p].destino, pedido[p].tam, 0, leer_de_sticks(pedido[p].dir, pedido[p].tam),
                            pedido[p].al_dia)
    <3>1. pedido' = [pedido EXCEPT ![p] = r]
      BY <1>6, <2>4 DEF Lee, Pide
    <3>2. r.op = "escribir"
      OBVIOUS
    <3> HIDE DEF r
    <3>3. OpSegunEstado(estado[p], r.op)
      BY <2>4, <3>2 DEF OpSegunEstado
    <3>4. QED
      BY <1>4, <2>1, <3>1, <3>3
  <2>5. QED
    BY <2>1, <2>2, <2>3, <2>4 DEF Lectura
<1>7. ASSUME NEW p \in Pid, Escribe(p) PROVE EsperaSegunEstado'
  <2>1. pedido' = [pedido EXCEPT ![p] = Ninguno] /\ pedido[p].op = "escribir"
    BY <1>7 DEF Escribe, Pide
  <2>2. estado' = [estado EXCEPT ![p] = IF estado[p] = "MANO" THEN "ACTIVO" ELSE estado[p]]
    BY <1>7 DEF Escribe
  <2>3. OpSegunEstado(IF estado[p] = "MANO" THEN "ACTIVO" ELSE estado[p], "ninguno")
    BY <2>1 DEF OpSegunEstado
  <2>4. QED
    BY <1>3, <2>1, <2>2, <2>3
<1>8. ASSUME NEW p \in Pid, Sale(p) PROVE EsperaSegunEstado'
  BY <1>2, <1>8 DEF Sale, Pone, OpSegunEstado
<1>9. ASSUME NEW p \in Pid, FinIO(p) PROVE EsperaSegunEstado'
  <2>1. pedido' = [pedido EXCEPT ![p] = Ninguno] /\ pedido[p].op = "espera"
    BY <1>9 DEF FinIO, Pide
  <2>2. estado' = [estado EXCEPT ![p] = IF estado[p] = "BLOCK" THEN "ACTIVO" ELSE estado[p]]
    BY <1>9 DEF FinIO
  <2>3. OpSegunEstado(IF estado[p] = "BLOCK" THEN "ACTIVO" ELSE estado[p], "ninguno")
    BY <2>1 DEF OpSegunEstado
  <2>4. QED
    BY <1>3, <2>1, <2>2, <2>3
<1>10. ASSUME NEW p \in Pid, NEW v \in Valor, FinStdin(p, v) PROVE EsperaSegunEstado'
  <2> DEFINE r == Peticion("escribir", pedido[p].dir, pedido[p].tam, 0, [k \in 1 .. pedido[p].tam |-> v],
                            pedido[p].al_dia)
  <2>1. CASE estado[p] = "BLOCK"
    <3>1. pedido' = [pedido EXCEPT ![p] = r] /\ estado' = [estado EXCEPT ![p] = "MANO"]
      BY <1>10, <2>1 DEF FinStdin, Pide, Pone
    <3>2. r.op = "escribir"
      OBVIOUS
    <3> HIDE DEF r
    <3>3. OpSegunEstado("MANO", r.op)
      BY <3>2 DEF OpSegunEstado
    <3>4. QED
      BY <1>3, <3>1, <3>3
  <2>2. CASE estado[p] # "BLOCK"
    BY <1>4, <1>10, <2>2 DEF FinStdin, Pide, OpSegunEstado
  <2>3. QED
    BY <2>1, <2>2
<1>11. ASSUME NEW p \in Pid, Suspende(p) PROVE EsperaSegunEstado'
  BY <1>2, <1>11 DEF Suspende, Pone, OpSegunEstado
<1>12. ASSUME NEW p \in Pid, TerminaGuardar(p) \/ TerminaVolver(p) PROVE EsperaSegunEstado'
  BY <1>2, <1>12 DEF TerminaGuardar, TerminaVolver, Pone, OpSegunEstado
<1>13. ASSUME NEW p \in Pid, Desuspende(p) PROVE EsperaSegunEstado'
  BY <1>2, <1>13 DEF Desuspende, Pone, OpSegunEstado
<1>14. ASSUME NEW p \in Pid, RestauraSegmento(p) \/ (\E n \in Nro : GuardaSegmento(p, n))
                             \/ (\E id \in Id : MemFree(p, id))
                             \/ \E r \in Pedidos, b \in Direccion : MemAlloc(p, r[1], r[2], b)
       PROVE EsperaSegunEstado'
  BY <1>1, <1>14 DEF RestauraSegmento, GuardaSegmento, MemFree, MemAlloc
<1>15. CASE UNCHANGED vars \/ Fin
  BY <1>1, <1>15 DEF Fin, vars
<1>16. QED
  BY <1>5, <1>6, <1>7, <1>8, <1>9, <1>10, <1>11, <1>12, <1>13, <1>14, <1>15 DEF Next, Memoria, Suspension

=============================================================================

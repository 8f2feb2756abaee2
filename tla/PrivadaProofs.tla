---------------------------- MODULE PrivadaProofs ----------------------------
(***************************************************************************)
(* Accesos implements MemoriaPrivada, for any programs, sticks, sizes,     *)
(* timers and bounds.  The argument:                                       *)
(*   Registro    the numbers a process has in the table and in SWAP are    *)
(*               apart, each once, and a request whose bases were right    *)
(*               names bytes of one segment of the table;                  *)
(*   Aparte      a step of a process leaves what the others have alone;    *)
(*   Contenido   what a step does to the bytes of its own process, read    *)
(*               through the table or the blocks of SWAP, is a step of     *)
(*               MemoriaPrivada, or none; a write with a base of another   *)
(*               time is its EscribeAjeno.                                 *)
(***************************************************************************)
EXTENDS AccesosProofs

EnUso(p, nro) == <<p, nro>> \in DOMAIN tabla
Lista(p) == segmentos_en_swap[p]

\* A range of addresses inside one segment.
EnUno(p, dir, n) == \E nro \in Nro : EnUso(p, nro) /\ Tramo(dir, n) \subseteq Rango(tabla, <<p, nro>>)

\* The numbers of the MEM_ALLOCs to come.
Nuevos == 1 .. restan

\* The request of p is one that reads or writes, before a suspension if it has one.
Pendiente(p) ==
    \/ pedido[p].op \in {"leer", "copiar", "escribir"}
    \/ pedido[p].op \in {"stdin", "stdout"} /\ estado[p] = "BLOCK"

\* A segment is in the table or in SWAP, once, and only a suspension puts it there.
Separados(p) ==
    /\ \A i, j \in DOMAIN Lista(p) : Lista(p)[i].nro = Lista(p)[j].nro => i = j
    /\ \A i \in DOMAIN Lista(p) : ~EnUso(p, Lista(p)[i].nro) /\ Lista(p)[i].nro \notin Nuevos
    /\ \A nro \in Nro : EnUso(p, nro) => nro \notin Nuevos
    /\ estado[p] \notin {"GUARDA", "SUSP", "VUELVE"} => Lista(p) = <<>>

Bien(p, r) ==
    /\ r.tam \in Nat \ {0} /\ EnUno(p, r.dir, r.tam)
    /\ r.op = "copiar" => EnUno(p, r.destino, r.tam)
    /\ r.op = "escribir" => DOMAIN r.datos = 1 .. r.tam

\* From the MMU to the sticks a request keeps meaning what it meant.
Vigente(p) == Pendiente(p) /\ pedido[p].al_dia => Bien(p, pedido[p])

Registro(p) == Separados(p) /\ Vigente(p)
Registros == \A p \in Pid : Registro(p)

-----------------------------------------------------------------------------
(* The contents of a process, segment by segment.                           *)

Nros(p) == {nro \in Nro : EnUso(p, nro)} \cup {Lista(p)[i].nro : i \in DOMAIN Lista(p)}
Bytes(p, nro) == [k \in 0 .. tabla[<<p, nro>>].tamanio - 1 |-> Byte(tabla[<<p, nro>>].base + k)]
Guardado(e) == [k \in 0 .. e.tamanio - 1 |-> DeSwap(e, k)]

Visto(p) ==
    /\ estado[p] = "FIN" => Contenido(p) = <<>>
    /\ estado[p] # "FIN" =>
        /\ Contenido(p) = [nro \in Nros(p) |-> Contenido(p)[nro]]
        /\ \A nro \in Nro : EnUso(p, nro) => Contenido(p)[nro] = Bytes(p, nro)
        /\ \A i \in DOMAIN Lista(p) : Contenido(p)[Lista(p)[i].nro] = Guardado(Lista(p)[i])

LEMMA NrosEs ==
    ASSUME TipoTablas, NEW p \in Pid
    PROVE  {k[2] : k \in DePid(p)} \cup {e.nro : e \in EnSwap(p)} = Nros(p)
<1>1. ASSUME NEW k \in DePid(p) PROVE k[2] \in Nro /\ EnUso(p, k[2])
  <2>1. k \in DOMAIN tabla /\ k \in Pid \X Nro /\ k[1] = p
    BY DEF DePid, TipoTablas, Parcial
  <2>2. k = <<p, k[2]>> /\ k[2] \in Nro
    BY <2>1
  <2>3. QED
    BY <2>1, <2>2 DEF EnUso
<1>2. ASSUME NEW nro \in Nro, EnUso(p, nro) PROVE \E k \in DePid(p) : k[2] = nro
  <2>1. <<p, nro>> \in DePid(p) /\ <<p, nro>>[2] = nro
    BY <1>2 DEF DePid, EnUso
  <2>2. QED
    BY <2>1
<1>3. {k[2] : k \in DePid(p)} = {nro \in Nro : EnUso(p, nro)}
  BY <1>1, <1>2
<1>4. {e.nro : e \in EnSwap(p)} = {Lista(p)[i].nro : i \in DOMAIN Lista(p)}
  BY DEF EnSwap, Lista
<1>5. QED
  BY <1>3, <1>4 DEF Nros

\* Contenido reads each segment where it is, with no doubt about where that is.
LEMMA VistoAhora == TipoTablas /\ Registros => \A p \in Pid : Visto(p)
<1> SUFFICES ASSUME TipoTablas, NEW p \in Pid, Separados(p) PROVE Visto(p)
  BY DEF Registros, Registro
<1>1. ASSUME estado[p] = "FIN" PROVE Contenido(p) = <<>>
  BY <1>1 DEF Contenido
<1>2. ASSUME estado[p] # "FIN"
      PROVE  Contenido(p) = [nro \in Nros(p) |->
                 IF <<p, nro>> \in DOMAIN tabla
                 THEN [k \in 0 .. tabla[<<p, nro>>].tamanio - 1 |-> Byte(tabla[<<p, nro>>].base + k)]
                 ELSE LET e == CHOOSE x \in EnSwap(p) : x.nro = nro
                      IN  [k \in 0 .. e.tamanio - 1 |-> DeSwap(e, k)]]
  BY <1>2, NrosEs DEF Contenido
<1>3. ASSUME estado[p] # "FIN", NEW nro \in Nro, EnUso(p, nro) PROVE Contenido(p)[nro] = Bytes(p, nro)
  <2>1. nro \in Nros(p)
    BY <1>3 DEF Nros
  <2>2. QED
    BY <1>2, <1>3, <2>1 DEF EnUso, Bytes
<1>4. ASSUME estado[p] # "FIN", NEW i \in DOMAIN Lista(p)
      PROVE  Contenido(p)[Lista(p)[i].nro] = Guardado(Lista(p)[i])
  <2> DEFINE nro == Lista(p)[i].nro
             e == CHOOSE x \in EnSwap(p) : x.nro = nro
  <2>1. nro \in Nros(p) /\ <<p, nro>> \notin DOMAIN tabla
    BY DEF Nros, Separados, EnUso
  <2>2. Lista(p)[i] \in EnSwap(p) /\ Lista(p)[i].nro = nro
    BY DEF EnSwap, Lista
  <2>3. e \in EnSwap(p) /\ e.nro = nro
    BY <2>2
  <2>4. PICK j \in DOMAIN Lista(p) : e = Lista(p)[j]
    BY <2>3 DEF EnSwap, Lista
  <2>5. e = Lista(p)[i]
    BY <2>3, <2>4 DEF Separados
  <2>6. Contenido(p)[nro] = [k \in 0 .. e.tamanio - 1 |-> DeSwap(e, k)]
    BY <1>2, <1>4, <2>1
  <2> HIDE DEF e
  <2>7. QED
    BY <2>5, <2>6 DEF Guardado
<1>5. ASSUME estado[p] # "FIN" PROVE Contenido(p) = [nro \in Nros(p) |-> Contenido(p)[nro]]
  BY <1>2, <1>5
<1>6. QED
  BY <1>1, <1>3, <1>4, <1>5 DEF Visto

LEMMA VistoDespues == TipoTablas' /\ Registros' => \A p \in Pid : Visto(p)'
<1>1. (TipoTablas /\ Registros => \A p \in Pid : Visto(p))'
  BY VistoAhora, PTL
<1>2. QED
  BY <1>1

\* What a step must leave alone for a process to see the same.
MismoSitio(q) ==
    /\ Lista(q)' = Lista(q)
    /\ \A nro \in Nro : EnUso(q, nro)' <=> EnUso(q, nro)
    /\ \A nro \in Nro : EnUso(q, nro) => tabla'[<<q, nro>>] = tabla[<<q, nro>>]
MismosBytes(q) ==
    /\ \A nro \in Nro : EnUso(q, nro) => \A a \in Rango(tabla, <<q, nro>>) : Byte(a)' = Byte(a)
    /\ \A e \in EnSwap(q) : Guardado(e)' = Guardado(e)
Igual(q) == ((estado[q] = "FIN")' <=> estado[q] = "FIN") /\ MismoSitio(q) /\ MismosBytes(q)

LEMMA MismoSegmento ==
    ASSUME TipoTablas, NEW q \in Pid, NEW nro \in Nro, EnUso(q, nro), tabla'[<<q, nro>>] = tabla[<<q, nro>>],
           \A a \in Rango(tabla, <<q, nro>>) : Byte(a)' = Byte(a)
    PROVE  Bytes(q, nro)' = Bytes(q, nro)
<1> DEFINE s == tabla[<<q, nro>>]
<1>1. s.base \in Nat /\ s.tamanio \in Nat
  BY Numeros DEF EnUso, TipoTablas, Parcial, Segmento
<1>2. \A k \in 0 .. s.tamanio - 1 : s.base + k \in Rango(tabla, <<q, nro>>)
  BY <1>1 DEF Rango
<1>3. \A k \in 0 .. s.tamanio - 1 : Byte(s.base + k)' = Byte(s.base + k)
  <2> SUFFICES ASSUME NEW k \in 0 .. s.tamanio - 1 PROVE Byte(s.base + k)' = Byte(s.base + k)
    OBVIOUS
  <2>1. PICK a \in Rango(tabla, <<q, nro>>) : a = s.base + k
    BY <1>2
  <2>2. Byte(a)' = Byte(a)
    OBVIOUS
  <2>3. s' = s
    OBVIOUS
  <2>4. QED
    BY <2>1, <2>2, <2>3
<1>4. QED
  BY <1>3 DEF Bytes

LEMMA IgualEs ==
    ASSUME TipoTablas, Registros, TipoTablas', Registros', NEW q \in Pid, Igual(q)
    PROVE  Contenido(q)' = Contenido(q)
<1>1. Visto(q) /\ Visto(q)'
  BY VistoAhora, VistoDespues
<1>2. CASE estado[q] = "FIN"
  BY <1>1, <1>2 DEF Igual, Visto
<1>3. CASE estado[q] # "FIN"
  <2>1. estado'[q] # "FIN"
    BY <1>3 DEF Igual
  <2>2. Nros(q)' = Nros(q)
    BY DEF Nros, Igual, MismoSitio
  <2>3. ASSUME NEW nro \in Nro, EnUso(q, nro) PROVE Contenido(q)'[nro] = Contenido(q)[nro]
    <3>1. Bytes(q, nro)' = Bytes(q, nro)
      BY <2>3, MismoSegmento DEF Igual, MismoSitio, MismosBytes
    <3>2. EnUso(q, nro)'
      BY <2>3 DEF Igual, MismoSitio
    <3>3. Contenido(q)[nro] = Bytes(q, nro)
      BY <1>1, <1>3, <2>3 DEF Visto
    <3>4. Contenido(q)'[nro] = Bytes(q, nro)'
      BY <1>1, <2>1, <3>2 DEF Visto
    <3>5. QED
      BY <3>1, <3>3, <3>4
  <2>4. ASSUME NEW i \in DOMAIN Lista(q) PROVE Contenido(q)'[Lista(q)[i].nro] = Contenido(q)[Lista(q)[i].nro]
    <3>1. PICK e : e = Lista(q)[i]
      OBVIOUS
    <3>2. e \in EnSwap(q)
      BY <3>1 DEF EnSwap, Lista
    <3>3. Guardado(e)' = Guardado(e)
      BY <3>2 DEF Igual, MismosBytes
    <3>4. Lista(q)' = Lista(q)
      BY DEF Igual, MismoSitio
    <3>5. Contenido(q)'[e.nro] = Guardado(e)'
      <4>1. \A j \in DOMAIN Lista(q)' : Contenido(q)'[Lista(q)'[j].nro] = Guardado(Lista(q)[j])'
        BY <1>1, <2>1 DEF Visto
      <4>2. i \in DOMAIN Lista(q)' /\ Lista(q)'[i] = e /\ Lista(q)[i]' = e
        BY <3>1, <3>4
      <4>3. Contenido(q)'[e.nro] = Guardado(Lista(q)[i])'
        BY <4>1, <4>2
      <4>4. Guardado(Lista(q)[i])' = Guardado(e)'
        BY <4>2 DEF Guardado, DeSwap
      <4>5. QED
        BY <4>3, <4>4
    <3>6. Contenido(q)[e.nro] = Guardado(e)
      BY <1>1, <1>3, <3>1 DEF Visto
    <3>7. QED
      BY <3>1, <3>3, <3>5, <3>6
  <2>5. \A nro \in Nros(q) : Contenido(q)'[nro] = Contenido(q)[nro]
    BY <2>3, <2>4 DEF Nros
  <2>6. Contenido(q)' = [nro \in Nros(q)' |-> Contenido(q)'[nro]]
    BY <1>1, <2>1 DEF Visto
  <2>7. Contenido(q) = [nro \in Nros(q) |-> Contenido(q)[nro]]
    BY <1>1, <1>3 DEF Visto
  <2>8. QED
    BY <2>2, <2>5, <2>6, <2>7
<1>4. QED
  BY <1>2, <1>3

-----------------------------------------------------------------------------
(* The bytes of the sticks and of the file.                                 *)

\* escribir_en_sticks writes its range, wherever a stick ends, and nothing else.
LEMMA EscribirEs ==
    ASSUME TipoBytes, NEW dir \in Nat, NEW datos, escribir_en_sticks(dir, datos), NEW a \in Direccion
    PROVE  Byte(a)' = IF a - dir + 1 \in DOMAIN datos THEN datos[a - dir + 1] ELSE Byte(a)
<1>1. buscar_stick(a) \in Stick /\ EnStick(buscar_stick(a), a)
  BY StickAssumption DEF StickAssumption, buscar_stick
<1> DEFINE s == buscar_stick(a)
           k == a - base_global[s]
<1>2. Byte(a) = espacio_memoria[s][k] /\ Byte(a)' = espacio_memoria'[s][k]
  BY DEF Byte, Local
<1>3. s \in Stick /\ EnStick(s, a)
  BY <1>1
<1> HIDE DEF s
<1>4. base_global[s] \in Nat /\ tam_stick[s] \in Nat /\ a \in Nat
  BY <1>3, StickAssumption DEF StickAssumption, Direccion
<1>5. k \in 0 .. tam_stick[s] - 1 /\ base_global[s] + k - dir + 1 = a - dir + 1
  BY <1>3, <1>4 DEF EnStick
<1> HIDE DEF k
<1>6. s \in DOMAIN espacio_memoria /\ k \in DOMAIN espacio_memoria[s]
  BY <1>3, <1>5 DEF TipoBytes
<1>7. espacio_memoria'[s][k] = LET i == base_global[s] + k - dir + 1
                                IN  IF i \in DOMAIN datos THEN datos[i] ELSE espacio_memoria[s][k]
  <2>1. espacio_memoria' = [r \in Stick |-> [j \in DOMAIN espacio_memoria[r] |->
             LET i == base_global[r] + j - dir + 1
             IN  IF i \in DOMAIN datos THEN datos[i] ELSE espacio_memoria[r][j]]]
    BY DEF escribir_en_sticks
  <2>2. QED
    BY <1>3, <1>6, <2>1
<1>8. QED
  BY <1>2, <1>5, <1>7

\* A segment that is not in the range keeps its bytes.
LEMMA EscribirFuera ==
    ASSUME TipoBytes, NEW dir \in Nat, NEW n \in Nat, NEW datos, DOMAIN datos = 1 .. n,
           escribir_en_sticks(dir, datos), NEW a \in Direccion, a \notin Tramo(dir, n)
    PROVE  Byte(a)' = Byte(a)
<1>1. a \in Nat
  BY DEF Direccion
<1>2. a - dir + 1 \notin 1 .. n
  BY <1>1 DEF Tramo
<1>3. QED
  BY <1>2, EscribirEs

\* The bytes of a block that was in use before the file grew.
LEMMA GuardadoQueda ==
    ASSUME TipoTablas, BloquesPropios, NEW p \in Pid, NEW e \in EnSwap(p),
           \A b \in 0 .. proximo_bloque_swap - 1 : archivo_swap'[b] = archivo_swap[b]
    PROVE  Guardado(e)' = Guardado(e)
<1>1. PICK i \in DOMAIN segmentos_en_swap[p] : e = segmentos_en_swap[p][i]
  BY DEF EnSwap
<1>2. e \in EntradaSwap /\ e.tamanio <= e.cant * Bloque /\ e.inicio + e.cant <= proximo_bloque_swap
  BY <1>1 DEF TipoTablas, BloquesPropios
<1>3. e.inicio \in Nat /\ e.cant \in Nat /\ e.tamanio \in Nat /\ proximo_bloque_swap \in Nat
  BY <1>2, Numeros DEF EntradaSwap, TipoTablas
<1>4. ASSUME NEW k \in 0 .. e.tamanio - 1 PROVE DeSwap(e, k)' = DeSwap(e, k)
  <2> DEFINE capacidad == e.cant * Bloque
  <2>1. capacidad \in Nat /\ e.tamanio <= capacidad
    BY <1>2, <1>3, Numeros
  <2> HIDE DEF capacidad
  <2>2. k \in Nat /\ k < capacidad
    BY <1>3, <2>1
  <2>3. k \div Bloque \in 0 .. e.cant - 1
    BY <1>3, <2>2, CocienteMenor, Numeros DEF capacidad
  <2>4. e.inicio + (k \div Bloque) \in 0 .. proximo_bloque_swap - 1
    BY <1>2, <1>3, <2>3
  <2>5. QED
    BY <2>4 DEF DeSwap
<1>5. QED
  BY <1>4 DEF Guardado

-----------------------------------------------------------------------------
(* What an instruction leaves behind.                                       *)

Paso(p) == Instruccion(p) \/ Memoria(p) \/ Suspension(p)

Pedida(p) ==
    \E r : /\ pedido' = [pedido EXCEPT ![p] = r]
           /\ estado' = [estado EXCEPT ![p] = IF r.op \in {"stdin", "stdout"} THEN "BLOCK" ELSE "ACTIVO"]
           /\ r.op \in Lectura \cup Escritura /\ (r.al_dia => Bien(p, r))
Saliendo(p) == UNCHANGED pedido /\ estado' = [estado EXCEPT ![p] = "SALE"]
Durmiendo(p) == pedido' = [pedido EXCEPT ![p] = EnEspera] /\ estado' = [estado EXCEPT ![p] = "BLOCK"]

\* What the MMU lets through is in one segment of the table, if it used its base.
LEMMA MmuEnUno ==
    ASSUME TipoTablas, TipoPcb, NEW p \in Pid, NEW dir \in Logica, NEW n \in Tramos,
           traducir_direccion_mmu(p, dir, n) # SegFault, AlDia(p, dir)
    PROVE  EnUno(p, traducir_direccion_mmu(p, dir, n), n)
<1>1. Tramo(traducir_direccion_mmu(p, dir, n), n) \subseteq Rango(pcb[p], Usado(p, dir))
  BY Numeros, MmuEnSegmento
<1>2. PICK k \in DePid(p) : tabla[k] = pcb[p][Usado(p, dir)]
  BY DEF AlDia, Usado
<1>3. PICK nro \in Nro : k = <<p, nro>>
  <2>1. k \in DOMAIN tabla /\ k \in Pid \X Nro /\ k[1] = p
    BY DEF DePid, TipoTablas, Parcial
  <2>2. QED
    BY <2>1
<1>4. EnUso(p, nro) /\ Rango(tabla, <<p, nro>>) = Rango(pcb[p], Usado(p, dir))
  BY <1>2, <1>3 DEF DePid, EnUso, Rango
<1>5. QED
  BY <1>1, <1>4 DEF EnUno

LEMMA QueInstruccion ==
    ASSUME TipoTablas, TipoPcb, NEW p \in Pid, Instruccion(p)
    PROVE  /\ estado[p] = "ACTIVO" /\ pedido[p] = Ninguno
           /\ UNCHANGED <<pcb, leido, m_fd_memoria, tabla, espacio_memoria, swap>>
           /\ Saliendo(p) \/ Durmiendo(p) \/ Pedida(p)
<1> DEFINE Meta == /\ estado[p] = "ACTIVO" /\ pedido[p] = Ninguno
                   /\ UNCHANGED <<pcb, leido, m_fd_memoria, tabla, espacio_memoria, swap>>
                   /\ Saliendo(p) \/ Durmiendo(p) \/ Pedida(p)
<1>1. CASE Duerme(p)
  BY <1>1 DEF Duerme, Instruye, Pone, Pide, Durmiendo
<1>2. CASE Exit(p)
  BY <1>2 DEF Exit, Pone, Saliendo
<1>3. ASSUME NEW dirs, NEW op \in Lectura \cup Escritura, NEW f, NEW n \in Nat \ {0}, NEW g, NEW datos, NEW d, NEW e,
             Accede(p, dirs, Peticion(op, f, n, g, datos, d), e), e = IF op \in {"stdin", "stdout"} THEN "BLOCK" ELSE "ACTIVO",
             SegFault \notin dirs /\ d => EnUno(p, f, n) /\ (op = "copiar" => EnUno(p, g, n)),
             op = "escribir" => DOMAIN datos = 1 .. n
      PROVE  Meta
  <2> DEFINE r == Peticion(op, f, n, g, datos, d)
  <2>1. r.op = op /\ r.dir = f /\ r.tam = n /\ r.destino = g /\ r.datos = datos /\ r.al_dia = d
    BY DEF Peticion
  <2>2. Accede(p, dirs, r, e)
    BY <1>3
  <2>3. e = IF r.op \in {"stdin", "stdout"} THEN "BLOCK" ELSE "ACTIVO"
    BY <1>3, <2>1
  <2> HIDE DEF r
  <2>4. estado[p] = "ACTIVO" /\ pedido[p] = Ninguno
        /\ UNCHANGED <<pcb, leido, m_fd_memoria, tabla, espacio_memoria, swap>>
    BY <2>2 DEF Accede, Instruye
  <2>5. CASE SegFault \in dirs
    BY <2>2, <2>4, <2>5 DEF Accede, Pone, Saliendo
  <2>6. CASE SegFault \notin dirs
    <3>1. pedido' = [pedido EXCEPT ![p] = r] /\ estado' = [estado EXCEPT ![p] = e]
      BY <2>2, <2>6 DEF Accede, Pone, Pide
    <3>2. r.al_dia => Bien(p, r)
      BY <1>3, <2>1, <2>6 DEF Bien
    <3>3. Pedida(p)
      BY <2>1, <2>3, <2>4, <3>1, <3>2 DEF Pedida
    <3>4. QED
      BY <2>4, <3>3
  <2>7. QED
    BY <2>5, <2>6
<1>4. /\ Tramos \subseteq Nat \ {0}
      /\ {"leer", "copiar", "stdout"} = Lectura /\ {"escribir", "stdin"} = Escritura
  BY TamanioAssumption DEF TamanioAssumption, Lectura, Escritura
<1> HIDE DEF Meta
<1>5. ASSUME NEW n \in Tramos, NEW dir \in Logica, MovIn(p, dir, n) PROVE Meta
  <2> DEFINE f == traducir_direccion_mmu(p, dir, n)
             d == AlDia(p, dir)
  <2>1. Accede(p, {f}, Peticion("leer", f, n, 0, <<>>, d), "ACTIVO")
    BY <1>5 DEF MovIn
  <2>2. SegFault \notin {f} /\ d => EnUno(p, f, n)
    BY MmuEnUno
  <2>3. n \in Nat \ {0} /\ "leer" \in Lectura \cup Escritura /\ "leer" \notin {"stdin", "stdout", "copiar", "escribir"}
    BY <1>4
  <2> HIDE DEF f, d
  <2>4. QED
    BY <1>3, <2>1, <2>2, <2>3
<1>6. ASSUME NEW n \in Tramos, NEW dir \in Logica, NEW v \in Valor, MovOut(p, dir, n, v) PROVE Meta
  <2> DEFINE f == traducir_direccion_mmu(p, dir, n)
             datos == [k \in 1 .. n |-> v]
             d == AlDia(p, dir)
  <2>1. Accede(p, {f}, Peticion("escribir", f, n, 0, datos, d), "ACTIVO")
    BY <1>6 DEF MovOut
  <2>2. (SegFault \notin {f} /\ d => EnUno(p, f, n)) /\ DOMAIN datos = 1 .. n
    BY MmuEnUno
  <2> HIDE DEF f, datos, d
  <2>3. QED
    BY <1>3, <1>4, <2>1, <2>2
<1>7. ASSUME NEW n \in Tramos, NEW si \in Logica, NEW di \in Logica, CopyMem(p, si, di, n) PROVE Meta
  <2> DEFINE f == traducir_direccion_mmu(p, si, n)
             g == traducir_direccion_mmu(p, di, n)
  <2>1. Accede(p, {f, g}, Peticion("copiar", f, n, g, <<>>, AlDia(p, si) /\ AlDia(p, di)), "ACTIVO")
    BY <1>7 DEF CopyMem
  <2>2. SegFault \notin {f, g} /\ AlDia(p, si) /\ AlDia(p, di) => EnUno(p, f, n) /\ EnUno(p, g, n)
    BY MmuEnUno
  <2>3. n \in Nat \ {0} /\ "copiar" \in Lectura \cup Escritura /\ "copiar" \notin {"stdin", "stdout", "escribir"}
    BY <1>4
  <2> HIDE DEF f, g
  <2>4. QED
    BY <1>3, <2>1, <2>2, <2>3
<1>8. ASSUME NEW n \in Tramos, NEW dir \in Logica, NEW op \in {"stdin", "stdout"}, LlamaIO(p, op, dir, n) PROVE Meta
  <2> DEFINE f == traducir_direccion_mmu(p, dir, n)
  <2>1. Accede(p, {f}, Peticion(op, f, n, 0, <<>>, AlDia(p, dir)), "BLOCK")
    BY <1>8 DEF LlamaIO
  <2>2. (SegFault \notin {f} /\ AlDia(p, dir) => EnUno(p, f, n)) /\ op # "escribir" /\ op # "copiar"
    BY MmuEnUno
  <2> HIDE DEF f
  <2>3. QED
    BY <1>3, <1>4, <2>1, <2>2
<1>9. QED
  BY <1>1, <1>2, <1>5, <1>6, <1>7, <1>8 DEF Instruccion, Meta, Saliendo, Durmiendo, Duerme, Exit, Instruye

-----------------------------------------------------------------------------
(* A step of p leaves the others alone.                                     *)

Aparte(q) ==
    /\ estado'[q] = estado[q] /\ pedido'[q] = pedido[q] /\ leido'[q] = leido[q]
    /\ MismoSitio(q) /\ Nuevos' \subseteq Nuevos

\* A number is used once.
LEMMA NuevosBajan ==
    ASSUME TipoProceso, NEW p \in Pid, Paso(p)
    PROVE  Nuevos' \subseteq Nuevos
<1>1. ASSUME restan' = restan \/ restan' = restan - 1 PROVE Nuevos' \subseteq Nuevos
  BY <1>1, TamanioAssumption DEF TamanioAssumption, TipoProceso, Nuevos
<1>2. CASE Instruccion(p)
  BY <1>1, <1>2 DEF Instruccion, Duerme, Exit, MovIn, MovOut, CopyMem, LlamaIO, Accede, Instruye
<1>3. CASE Memoria(p)
  BY <1>1, <1>3 DEF Memoria, Lee, Escribe, Sale, MemFree, MemAlloc, Instruye
<1>4. CASE Suspension(p)
  BY <1>1, <1>4 DEF Suspension, FinIO, FinStdin, Suspende, TerminaGuardar, GuardaSegmento, Desuspende,
     RestauraSegmento, TerminaVolver
<1>5. QED
  BY <1>2, <1>3, <1>4 DEF Paso

\* The table keeps what it says of q if an entry of p comes or goes.
LEMMA AgregaSitio ==
    ASSUME NEW p \in Pid, NEW q \in Pid, NEW i, NEW v, tabla' = Agrega(tabla, <<p, i>>, v)
    PROVE  \A nro \in Nro : <<q, nro>> # <<p, i>> =>
               /\ EnUso(q, nro)' <=> EnUso(q, nro)
               /\ EnUso(q, nro) => tabla'[<<q, nro>>] = tabla[<<q, nro>>]
<1> SUFFICES ASSUME NEW nro \in Nro, <<q, nro>> # <<p, i>>
             PROVE  /\ EnUso(q, nro)' <=> EnUso(q, nro)
                    /\ EnUso(q, nro) => tabla'[<<q, nro>>] = tabla[<<q, nro>>]
  OBVIOUS
<1> DEFINE k == <<q, nro>>
           j == <<p, i>>
<1>1. k # j /\ tabla' = Agrega(tabla, j, v)
  OBVIOUS
<1>2. EnUso(q, nro) <=> k \in DOMAIN tabla
  BY DEF EnUso
<1>3. EnUso(q, nro)' <=> k \in DOMAIN tabla'
  BY DEF EnUso
<1> HIDE DEF k, j
<1>4. (k \in DOMAIN tabla' <=> k \in DOMAIN tabla) /\ (k \in DOMAIN tabla => tabla'[k] = tabla[k])
  BY <1>1 DEF Agrega
<1>5. QED
  BY <1>2, <1>3, <1>4 DEF k

LEMMA PasoAparte ==
    ASSUME TiposOK, NEW p \in Pid, Paso(p), NEW q \in Pid, p # q
    PROVE  Aparte(q)
<1>0. /\ DOMAIN estado = Pid /\ DOMAIN pedido = Pid /\ DOMAIN leido = Pid
      /\ DOMAIN segmentos_en_swap = Pid /\ TipoTablas /\ TipoPcb /\ Nuevos' \subseteq Nuevos
  BY NuevosBajan DEF TiposOK, TablasOK, TipoProceso, TipoPcb, TipoPedido, TipoTablas
<1>1. ASSUME UNCHANGED <<tabla, segmentos_en_swap>> PROVE MismoSitio(q)
  BY <1>1 DEF MismoSitio, Lista, EnUso
<1>quita. ASSUME Lista(q)' = Lista(q), NEW K, \A k \in K : k[1] = p, tabla' = Quita(tabla, K) PROVE MismoSitio(q)
  <2>1. \A nro \in Nro : /\ EnUso(q, nro)' <=> EnUso(q, nro)
                         /\ EnUso(q, nro) => tabla'[<<q, nro>>] = tabla[<<q, nro>>]
    <3> SUFFICES ASSUME NEW nro \in Nro
                 PROVE  /\ EnUso(q, nro)' <=> EnUso(q, nro)
                        /\ EnUso(q, nro) => tabla'[<<q, nro>>] = tabla[<<q, nro>>]
      OBVIOUS
    <3>1. <<q, nro>>[1] = q
      OBVIOUS
    <3>2. <<q, nro>> \notin K
      BY <1>quita, <3>1
    <3>3. QED
      BY <1>quita, <3>2 DEF EnUso, Quita
  <2>2. QED
    BY <1>quita, <2>1 DEF MismoSitio
<1>agrega. ASSUME Lista(q)' = Lista(q), NEW i, NEW v, tabla' = Agrega(tabla, <<p, i>>, v) PROVE MismoSitio(q)
  <2>1. \A nro \in Nro : <<q, nro>> # <<p, i>>
    OBVIOUS
  <2>2. QED
    BY <1>agrega, <2>1, AgregaSitio DEF MismoSitio
<1>2. CASE Instruccion(p)
  BY <1>0, <1>1, <1>2, QueInstruccion DEF swap, Saliendo, Durmiendo, Pedida, Aparte
<1>3. CASE Lee(p) \/ Escribe(p) \/ FinIO(p) \/ (\E v \in Valor : FinStdin(p, v))
  BY <1>0, <1>1, <1>3 DEF Lee, Escribe, FinIO, FinStdin, Pone, Pide, swap, Aparte
<1>4. CASE Suspende(p) \/ TerminaGuardar(p) \/ Desuspende(p) \/ TerminaVolver(p)
  BY <1>0, <1>1, <1>4 DEF Suspende, TerminaGuardar, Desuspende, TerminaVolver, Pone, swap, Aparte
<1>5. CASE Sale(p)
  <2>1. \A k \in DePid(p) : k[1] = p
    BY DEF DePid
  <2>2. tabla' = Quita(tabla, DePid(p)) /\ Lista(q)' = Lista(q)
    BY <1>5 DEF Sale, swap, Lista
  <2>3. MismoSitio(q)
    BY <1>quita, <2>1, <2>2
  <2>4. QED
    BY <1>0, <1>5, <2>3 DEF Sale, Pone, Aparte
<1>6. ASSUME NEW id \in Id, MemFree(p, id) PROVE Aparte(q)
  <2>1. Lista(q)' = Lista(q)
    BY <1>6 DEF MemFree, swap, Lista
  <2>2. MismoSitio(q)
    <3>1. CASE UNCHANGED tabla
      BY <2>1, <3>1 DEF MismoSitio, EnUso
    <3>2. CASE ~UNCHANGED tabla
      <4>1. PICK k \in DePid(p) : tabla' = Quita(tabla, {k})
        BY <1>6, <3>2 DEF MemFree
      <4>2. \A l \in {k} : l[1] = p
        BY DEF DePid
      <4>3. QED
        BY <1>quita, <2>1, <4>1, <4>2
    <3>3. QED
      BY <3>1, <3>2
  <2>3. QED
    BY <1>0, <1>6, <2>2 DEF MemFree, Aparte
<1>7. ASSUME NEW r \in Pedidos, NEW b \in Direccion, MemAlloc(p, r[1], r[2], b) PROVE Aparte(q)
  <2> DEFINE v == [id |-> r[1], base |-> b, tamanio |-> r[2]]
  <2>1. tabla' = Agrega(tabla, <<p, restan>>, v) /\ Lista(q)' = Lista(q)
    BY <1>7 DEF MemAlloc, swap, Lista
  <2>2. PICK i : i = restan
    OBVIOUS
  <2> HIDE DEF v
  <2>3. MismoSitio(q)
    BY <1>agrega, <2>1, <2>2
  <2>4. QED
    BY <1>0, <1>7, <2>3 DEF MemAlloc, Aparte
<1>8. ASSUME NEW nro \in Nro, GuardaSegmento(p, nro) PROVE Aparte(q)
  <2>1. \A k \in {<<p, nro>>} : k[1] = p
    OBVIOUS
  <2>2. Lista(q)' = Lista(q)
    BY <1>0, <1>8 DEF GuardaSegmento, Lista
  <2>3. tabla' = Quita(tabla, {<<p, nro>>})
    BY <1>8 DEF GuardaSegmento
  <2>4. MismoSitio(q)
    BY <1>quita, <2>1, <2>2, <2>3
  <2>5. QED
    BY <1>0, <1>8, <2>4 DEF GuardaSegmento, Aparte
<1>9. CASE RestauraSegmento(p)
  <2>1. Lista(q)' = Lista(q)
    BY <1>0, <1>9 DEF RestauraSegmento, Lista
  <2>2. MismoSitio(q)
    <3>1. CASE UNCHANGED tabla
      BY <2>1, <3>1 DEF MismoSitio, EnUso
    <3>2. CASE ~UNCHANGED tabla
      <4>1. \E i, v : tabla' = Agrega(tabla, <<p, i>>, v)
        BY <1>9, <3>2 DEF RestauraSegmento
      <4>2. QED
        BY <1>agrega, <2>1, <4>1
    <3>3. QED
      BY <3>1, <3>2
  <2>3. QED
    BY <1>0, <1>9, <2>2 DEF RestauraSegmento, Aparte
<1>10. QED
  BY <1>2, <1>3, <1>4, <1>5, <1>6, <1>7, <1>8, <1>9 DEF Paso, Memoria, Suspension

\* What a process knows of its memory depends on what is its own.
LEMMA EnUnoQueda ==
    ASSUME NEW q \in Pid, MismoSitio(q), NEW dir, NEW n, EnUno(q, dir, n)
    PROVE  EnUno(q, dir, n)'
<1>1. PICK nro \in Nro : EnUso(q, nro) /\ Tramo(dir, n) \subseteq Rango(tabla, <<q, nro>>)
  BY DEF EnUno
<1>2. EnUso(q, nro)' /\ tabla'[<<q, nro>>] = tabla[<<q, nro>>]
  BY <1>1 DEF MismoSitio
<1>3. Tramo(dir, n) \subseteq Rango(tabla', <<q, nro>>)
  BY <1>1, <1>2 DEF Rango
<1>4. QED
  BY <1>2, <1>3 DEF EnUno, Tramo, Rango

LEMMA AparteRegistro ==
    ASSUME TipoTablas, NEW q \in Pid, Registro(q), Aparte(q)
    PROVE  Registro(q)'
<1>1. MismoSitio(q) /\ estado'[q] = estado[q] /\ pedido'[q] = pedido[q] /\ Nuevos' \subseteq Nuevos
  BY DEF Aparte
<1>2. Separados(q)'
  <2>1. \A i \in DOMAIN Lista(q) : Lista(q)[i].nro \in Nro
    <3>1. \A i \in DOMAIN Lista(q) : Lista(q)[i] \in EntradaSwap
      BY DEF TipoTablas, Lista
    <3>2. QED
      BY <3>1 DEF EntradaSwap
  <2>2. QED
    BY <1>1, <2>1 DEF MismoSitio, Registro, Separados
<1>3. Vigente(q)'
  <2>1. PICK r : r = pedido[q]
    OBVIOUS
  <2>2. Pendiente(q)' <=> Pendiente(q)
    BY <1>1 DEF Pendiente
  <2>3. Bien(q, r) => Bien(q, r)'
    <3> SUFFICES ASSUME Bien(q, r) PROVE Bien(q, r)'
      OBVIOUS
    <3>1. PICK d, f, n : d = r.dir /\ f = r.destino /\ n = r.tam
      OBVIOUS
    <3>2. EnUno(q, d, n)' /\ (r.op = "copiar" => EnUno(q, f, n)')
      BY <1>1, <3>1, EnUnoQueda DEF Bien
    <3>3. QED
      BY <3>1, <3>2 DEF Bien
  <2>4. r = pedido'[q]
    BY <1>1, <2>1
  <2>5. QED
    BY <2>1, <2>2, <2>3, <2>4 DEF Registro, Vigente, Bien
<1>4. QED
  BY <1>2, <1>3 DEF Registro

-----------------------------------------------------------------------------
(* A step of p keeps its own numbers apart and its request valid.           *)

Suspendido == {"GUARDA", "SUSP", "VUELVE"}

LEMMA SeparadosQuedan ==
    ASSUME NEW p \in Pid, Separados(p), UNCHANGED <<tabla, segmentos_en_swap>>, Nuevos' \subseteq Nuevos,
           estado'[p] \in Suspendido \/ Lista(p) = <<>>
    PROVE  Separados(p)'
BY DEF Separados, Lista, EnUso, Suspendido

LEMMA SinMemoriaDespues ==
    ASSUME NEW p \in Pid, \/ pedido'[p].op \in {"ninguno", "espera"}
                         \/ (pedido'[p].op \in {"stdin", "stdout"} /\ estado'[p] # "BLOCK")
    PROVE  Vigente(p)'
BY DEF Vigente, Pendiente

LEMMA VigenteNuevo ==
    ASSUME NEW p \in Pid, UNCHANGED tabla, pedido'[p].al_dia => Bien(p, pedido'[p])
    PROVE  Vigente(p)'
BY DEF Vigente, Bien, EnUno, EnUso, Rango

LEMMA SeparadosTabla ==
    ASSUME TiposOK, NEW p \in Pid, Separados(p), CambiaTablas(p), Nuevos' \subseteq Nuevos
    PROVE  Separados(p)'
<1>0. /\ p \in DOMAIN segmentos_en_swap /\ Lista(p) \in Seq(EntradaSwap) /\ p \in DOMAIN estado
  BY DEF TiposOK, TablasOK, TipoTablas, TipoProceso, Lista
<1>1. ASSUME NEW r \in Pedidos, NEW b \in Direccion, MemAlloc(p, r[1], r[2], b) PROVE Separados(p)'
  <2>1. PICK v, i : v = [id |-> r[1], base |-> b, tamanio |-> r[2]] /\ i = restan
    OBVIOUS
  <2>2. /\ tabla' = Agrega(tabla, <<p, i>>, v) /\ UNCHANGED <<estado, segmentos_en_swap>> /\ estado[p] = "ACTIVO"
    BY <1>1, <2>1 DEF MemAlloc, swap, Instruye
  <2>3. i \notin Nuevos'
    BY <1>1, <2>1, TamanioAssumption DEF TamanioAssumption, TiposOK, TablasOK, TipoProceso, Nuevos, MemAlloc, Instruye
  <2>4. Lista(p) = <<>> /\ Lista(p)' = <<>>
    BY <2>2 DEF Separados, Lista
  <2>5. \A nro \in Nro : EnUso(p, nro)' => nro \notin Nuevos'
    <3> SUFFICES ASSUME NEW nro \in Nro, EnUso(p, nro)' PROVE nro \notin Nuevos'
      OBVIOUS
    <3>1. nro = i \/ EnUso(p, nro)
      <4>1. nro # i => <<p, nro>> # <<p, i>>
        OBVIOUS
      <4>2. QED
        BY <2>2, <4>1, AgregaSitio
    <3>2. QED
      BY <2>3, <3>1 DEF Separados
  <2>6. QED
    BY <2>4, <2>5 DEF Separados
<1>2. ASSUME NEW id \in Id, MemFree(p, id) PROVE Separados(p)'
  <2>1. UNCHANGED <<estado, segmentos_en_swap>> /\ estado[p] = "ACTIVO"
    BY <1>2 DEF MemFree, swap, Instruye
  <2>2. \A nro \in Nro : EnUso(p, nro)' => EnUso(p, nro)
    BY <1>2 DEF MemFree, EnUso, Quita
  <2>3. Lista(p) = <<>> /\ Lista(p)' = <<>>
    BY <2>1 DEF Separados, Lista
  <2>4. QED
    BY <2>2, <2>3 DEF Separados
<1>3. CASE Sale(p)
  <2>1. tabla' = Quita(tabla, DePid(p)) /\ UNCHANGED segmentos_en_swap /\ estado[p] = "SALE"
    BY <1>3 DEF Sale, swap
  <2>2. Lista(p) = <<>> /\ Lista(p)' = <<>>
    BY <2>1 DEF Separados, Lista
  <2>3. \A nro \in Nro : EnUso(p, nro)' => EnUso(p, nro)
    BY <2>1 DEF EnUso, Quita
  <2>4. QED
    BY <2>2, <2>3 DEF Separados
<1>4. ASSUME NEW nro \in Nro, GuardaSegmento(p, nro) PROVE Separados(p)'
  <2>1. /\ EnUso(p, nro) /\ tabla' = Quita(tabla, {<<p, nro>>}) /\ UNCHANGED estado /\ estado[p] = "GUARDA"
        /\ \E e : e.nro = nro /\ Lista(p)' = Append(Lista(p), e)
    BY <1>0, <1>4 DEF GuardaSegmento, EnUso, Lista
  <2>2. PICK e, L, M : e.nro = nro /\ L = Lista(p) /\ M = Lista(p)' /\ M = Append(L, e)
    BY <2>1
  <2>3. /\ Len(L) \in Nat /\ DOMAIN L = 1 .. Len(L) /\ DOMAIN M = 1 .. Len(L) + 1
        /\ M[Len(L) + 1] = e /\ \A i \in 1 .. Len(L) : M[i] = L[i]
    BY <1>0, <2>2
  <2>4. /\ \A i, j \in DOMAIN L : L[i].nro = L[j].nro => i = j
        /\ \A i \in DOMAIN L : ~EnUso(p, L[i].nro) /\ L[i].nro \notin Nuevos
    BY <2>2 DEF Separados
  <2>5. \A x : EnUso(p, x)' <=> EnUso(p, x) /\ x # nro
    BY <2>1 DEF EnUso, Quita
  <2>6. nro \notin Nuevos /\ \A x \in Nro : EnUso(p, x) => x \notin Nuevos'
    BY <2>1 DEF Separados
  <2>7. \A i \in DOMAIN L : L[i].nro # nro
    BY <2>1, <2>4
  <2>8. \A i, j \in DOMAIN M : M[i].nro = M[j].nro => i = j
    BY <2>2, <2>3, <2>4, <2>7
  <2>9. \A i \in DOMAIN M : ~EnUso(p, M[i].nro)' /\ M[i].nro \notin Nuevos'
    BY <2>1, <2>2, <2>3, <2>4, <2>5, <2>6
  <2>10. QED
    BY <2>1, <2>2, <2>5, <2>6, <2>8, <2>9 DEF Separados, Suspendido
<1>5. CASE RestauraSegmento(p)
  <2>1. PICK L, M, e :
        /\ L = Lista(p) /\ M = Lista(p)' /\ e = Head(L)
        /\ L # <<>> /\ M = Tail(L) /\ UNCHANGED estado /\ estado[p] = "VUELVE"
        /\ UNCHANGED tabla \/ \E v : tabla' = Agrega(tabla, <<p, e.nro>>, v)
    BY <1>0, <1>5 DEF RestauraSegmento, Lista
  <2>2. /\ Len(L) \in Nat \ {0} /\ DOMAIN L = 1 .. Len(L) /\ DOMAIN M = 1 .. Len(L) - 1
        /\ e = L[1] /\ \A i \in 1 .. Len(L) - 1 : M[i] = L[i + 1]
    BY <1>0, <2>1, EmptySeq, HeadTailProperties
  <2>3. /\ \A i, j \in DOMAIN L : L[i].nro = L[j].nro => i = j
        /\ \A i \in DOMAIN L : ~EnUso(p, L[i].nro) /\ L[i].nro \notin Nuevos
        /\ \A i \in DOMAIN L : L[i].nro \in Nro
        /\ \A x \in Nro : EnUso(p, x) => x \notin Nuevos
    <3>1. L \in Seq(EntradaSwap)
      BY <1>0, <2>1
    <3>2. \A i \in DOMAIN L : L[i] \in EntradaSwap
      BY <3>1
    <3>3. \A i \in DOMAIN L : L[i].nro \in Nro
      BY <3>2 DEF EntradaSwap
    <3>4. QED
      BY <2>1, <3>3 DEF Separados
  <2>4. \A x \in Nro : EnUso(p, x)' => EnUso(p, x) \/ x = e.nro
    BY <2>1, AgregaSitio DEF EnUso
  <2>5. \A i \in DOMAIN M : M[i].nro # e.nro /\ \E j \in DOMAIN L : j = i + 1 /\ M[i] = L[j]
    BY <2>2, <2>3
  <2>6. \A i, j \in DOMAIN M : M[i].nro = M[j].nro => i = j
    BY <2>2, <2>3, <2>5
  <2>7. \A i \in DOMAIN M : ~EnUso(p, M[i].nro)' /\ M[i].nro \notin Nuevos'
    BY <2>1, <2>3, <2>4, <2>5
  <2>8. \A x \in Nro : EnUso(p, x)' => x \notin Nuevos'
    BY <2>1, <2>2, <2>3, <2>4
  <2>9. QED
    BY <2>1, <2>6, <2>7, <2>8 DEF Separados, Suspendido
<1>6. QED
  BY <1>1, <1>2, <1>3, <1>4, <1>5 DEF CambiaTablas

LEMMA RegistroPropio ==
    ASSUME TiposOK, EsperaSegunEstado, NEW p \in Pid, Registro(p), Paso(p)
    PROVE  Registro(p)'
<1> USE OpDePeticion
<1>0. /\ DOMAIN estado = Pid /\ DOMAIN pedido = Pid /\ TipoTablas /\ TipoPcb /\ Nuevos' \subseteq Nuevos
      /\ Separados(p) /\ Vigente(p) /\ OpSegunEstado(estado[p], pedido[p].op)
  BY NuevosBajan DEF TiposOK, TablasOK, TipoProceso, TipoPedido, Registro, EsperaSegunEstado
<1>1. estado[p] \notin Suspendido => Lista(p) = <<>>
  BY <1>0 DEF Separados, Suspendido
<1>2. CASE Instruccion(p)
  <2>1. /\ estado[p] = "ACTIVO" /\ UNCHANGED <<tabla, segmentos_en_swap>>
        /\ pedido[p] = Ninguno
        /\ Saliendo(p) \/ Durmiendo(p) \/ Pedida(p)
    BY <1>0, <1>2, QueInstruccion DEF swap
  <2>2. Separados(p)'
    BY <1>0, <1>1, <2>1, SeparadosQuedan DEF Suspendido
  <2>3. Vigente(p)'
    <3>1. CASE Saliendo(p)
      BY <2>1, <3>1, SinMemoriaDespues DEF Saliendo
    <3>2. CASE Durmiendo(p)
      BY <1>0, <3>2, SinMemoriaDespues DEF Durmiendo
    <3>3. CASE Pedida(p)
      BY <1>0, <2>1, <3>3, VigenteNuevo DEF Pedida
    <3>4. QED
      BY <2>1, <3>1, <3>2, <3>3
  <2>4. QED
    BY <2>2, <2>3 DEF Registro
<1>3. CASE Lee(p)
  <2>1. pedido[p].op \in Lectura /\ UNCHANGED <<estado, tabla, segmentos_en_swap>>
    BY <1>3 DEF Lee, swap
  <2>2. Separados(p)'
    BY <1>0, <2>1, <1>1, SeparadosQuedan
  <2>3. Vigente(p)'
    <3>1. CASE pedido[p].op = "leer" \/ pedido[p].op = "stdout"
      <4>1. pedido'[p] \in {Ninguno, EnEspera}
        BY <1>0, <1>3, <3>1 DEF Lee, Pide
      <4>2. QED
        BY <4>1, SinMemoriaDespues
    <3>2. CASE pedido[p].op = "copiar"
      <4> DEFINE o == pedido[p]
                 datos == leer_de_sticks(o.dir, o.tam)
                 r == Peticion("escribir", o.destino, o.tam, 0, datos, o.al_dia)
      <4>1. pedido'[p] = r
        BY <1>0, <1>3, <3>2 DEF Lee, Pide
      <4>2. r.op = "escribir" /\ r.dir = o.destino /\ r.tam = o.tam /\ r.datos = datos /\ r.al_dia = o.al_dia
        BY DEF Peticion
      <4>3. DOMAIN datos = 1 .. o.tam
        BY DEF leer_de_sticks
      <4>4. o.al_dia => Bien(p, o)
        BY <1>0, <3>2 DEF Vigente, Pendiente
      <4> HIDE DEF r, datos
      <4>5. r.al_dia => Bien(p, r)
        BY <3>2, <4>2, <4>3, <4>4 DEF Bien
      <4>6. QED
        BY <2>1, <4>1, <4>5, VigenteNuevo
    <3>3. QED
      BY <2>1, <3>1, <3>2 DEF Lectura
  <2>4. QED
    BY <2>2, <2>3 DEF Registro
<1>4. CASE Escribe(p) \/ FinIO(p)
  <2>1. /\ pedido'[p] = Ninguno /\ UNCHANGED <<tabla, segmentos_en_swap>>
        /\ estado'[p] = estado[p] \/ estado[p] \notin Suspendido
    BY <1>0, <1>4 DEF Escribe, FinIO, Pide, swap, Suspendido
  <2>2. estado'[p] \in Suspendido \/ Lista(p) = <<>>
    BY <1>1, <2>1
  <2>3. QED
    BY <1>0, <2>1, <2>2, SeparadosQuedan, SinMemoriaDespues DEF Registro
<1>5. ASSUME NEW v \in Valor, FinStdin(p, v) PROVE Registro(p)'
  <2>1. /\ pedido[p].op = "stdin" /\ UNCHANGED <<tabla, segmentos_en_swap>>
        /\ estado'[p] = estado[p] \/ estado[p] \notin Suspendido
    BY <1>0, <1>5 DEF FinStdin, Pone, Pide, swap, Suspendido
  <2>2. Separados(p)'
    BY <1>0, <1>1, <2>1, SeparadosQuedan
  <2>3. CASE estado[p] = "BLOCK"
    <3> DEFINE o == pedido[p]
               datos == [k \in 1 .. o.tam |-> v]
               r == Peticion("escribir", o.dir, o.tam, 0, datos, o.al_dia)
    <3>1. pedido'[p] = r
      BY <1>0, <1>5, <2>3 DEF FinStdin, Pide
    <3>2. r.op = "escribir" /\ r.dir = o.dir /\ r.tam = o.tam /\ r.datos = datos /\ r.al_dia = o.al_dia
          /\ DOMAIN datos = 1 .. o.tam
      BY DEF Peticion
    <3>3. o.al_dia => Bien(p, o)
      BY <1>0, <2>1, <2>3 DEF Vigente, Pendiente
    <3> HIDE DEF r, datos
    <3>4. r.al_dia => Bien(p, r)
      BY <3>2, <3>3 DEF Bien
    <3>5. QED
      BY <2>1, <2>2, <3>1, <3>4, VigenteNuevo DEF Registro
  <2>4. CASE estado[p] # "BLOCK"
    <3>1. pedido'[p] = Ninguno
      BY <1>0, <1>5, <2>4 DEF FinStdin, Pide
    <3>2. QED
      BY <2>2, <3>1, SinMemoriaDespues DEF Registro
  <2>5. QED
    BY <2>3, <2>4
<1>6. CASE Suspende(p) \/ TerminaGuardar(p) \/ Desuspende(p) \/ TerminaVolver(p)
  <2>1. UNCHANGED <<pedido, tabla, segmentos_en_swap>>
    BY <1>6 DEF Suspende, TerminaGuardar, Desuspende, TerminaVolver, swap
  <2>2. /\ estado'[p] \in Suspendido \/ Lista(p) = <<>>
        /\ estado'[p] # "BLOCK"
    BY <1>0, <1>6 DEF Suspende, TerminaGuardar, Desuspende, TerminaVolver, Pone, Suspendido, Lista
  <2>3. pedido[p].op \in {"ninguno", "stdin", "stdout", "espera"}
    BY <1>0, <1>6 DEF Suspende, TerminaGuardar, Desuspende, TerminaVolver, OpSegunEstado
  <2>4. QED
    BY <1>0, <2>1, <2>2, <2>3, SeparadosQuedan, SinMemoriaDespues DEF Registro
<1>7. CASE CambiaTablas(p)
  <2>1. /\ UNCHANGED pedido /\ pedido[p].op \in {"ninguno", "stdin", "stdout", "espera"}
        /\ pedido[p].op = "ninguno" \/ estado'[p] # "BLOCK"
    <3>1. ASSUME NEW nro \in Nro, GuardaSegmento(p, nro) PROVE <2>1
      BY <1>0, <3>1 DEF GuardaSegmento, OpSegunEstado
    <3>2. CASE RestauraSegmento(p)
      BY <1>0, <3>2 DEF RestauraSegmento, OpSegunEstado
    <3>3. CASE Sale(p)
      BY <1>0, <3>3 DEF Sale, Pone, OpSegunEstado
    <3>4. CASE (\E id \in Id : MemFree(p, id)) \/ \E r \in Pedidos, b \in Direccion : MemAlloc(p, r[1], r[2], b)
      BY <3>4 DEF MemFree, MemAlloc, Instruye
    <3>5. QED
      BY <1>7, <3>1, <3>2, <3>3, <3>4 DEF CambiaTablas
  <2>2. QED
    BY <1>0, <1>7, <2>1, SeparadosTabla, SinMemoriaDespues DEF Registro
<1>8. QED
  BY <1>2, <1>3, <1>4, <1>5, <1>6, <1>7 DEF Paso, Memoria, Suspension, CambiaTablas

LEMMA RegistrosNext ==
    ASSUME TiposOK, EsperaSegunEstado, Registros, NEW p \in Pid, Paso(p)
    PROVE  Registros'
<1>1. ASSUME NEW q \in Pid PROVE Registro(q)'
  <2>1. CASE q = p
    BY <2>1, RegistroPropio DEF Registros
  <2>2. CASE q # p
    <3>1. TipoTablas /\ Registro(q) /\ Aparte(q)
      BY <2>2, PasoAparte DEF TiposOK, TablasOK, Registros
    <3>2. QED
      BY <3>1, AparteRegistro
  <2>3. QED
    BY <2>1, <2>2
<1>2. QED
  BY <1>1 DEF Registros

-----------------------------------------------------------------------------
(* What a step writes, and where.                                           *)

LEMMA RangosAparte ==
    ASSUME TablasOK
    PROVE  \A k, l \in DOMAIN tabla : /\ Rango(tabla, k) \subseteq Direccion
                                      /\ k # l => Rango(tabla, k) \cap Rango(tabla, l) = {}
BY DEF TablasOK, SinSolaparse, SinSolaparseEn

LEMMA MismoEspacio == UNCHANGED espacio_memoria => \A a : Byte(a)' = Byte(a)
BY DEF Byte, Local

LEMMA MismoArchivo == UNCHANGED archivo_swap => \A e : Guardado(e)' = Guardado(e)
BY DEF Guardado, DeSwap

\* A write that is served changes bytes of the segment its program named.
LEMMA EscribeDentro ==
    ASSUME TiposOK, NEW p \in Pid, Registro(p), Escribe(p), pedido[p].al_dia, NEW nro \in Nro, EnUso(p, nro),
           Tramo(pedido[p].dir, pedido[p].tam) \subseteq Rango(tabla, <<p, nro>>)
    PROVE  \A k \in DOMAIN tabla : k # <<p, nro>> => \A a \in Rango(tabla, k) : Byte(a)' = Byte(a)
<1> DEFINE r == pedido[p]
<1>1. pedido[p].op = "escribir" /\ escribir_en_sticks(pedido[p].dir, pedido[p].datos)
  BY DEF Escribe
<1>2. r.tam \in Nat /\ DOMAIN r.datos = 1 .. r.tam
  BY <1>1 DEF Registro, Vigente, Pendiente, Bien
<1>3. r.dir \in Nat /\ TipoBytes /\ TablasOK
  BY DEF TiposOK, TipoPedido, Pedido
<1> SUFFICES ASSUME NEW k \in DOMAIN tabla, k # <<p, nro>>, NEW a \in Rango(tabla, k) PROVE Byte(a)' = Byte(a)
  OBVIOUS
<1>4. a \in Direccion /\ a \notin Tramo(r.dir, r.tam)
  BY <1>3, RangosAparte DEF EnUso
<1>5. QED
  BY <1>1, <1>2, <1>3, <1>4, EscribirFuera

\* A segment that comes back from SWAP is written where nobody had anything.
Vuelta(p, b) ==
    LET e == Head(Lista(p)) IN
    /\ Hueco(b, e.tamanio)
    /\ tabla' = Agrega(tabla, <<p, e.nro>>, [id |-> e.id, base |-> b, tamanio |-> e.tamanio])
    /\ escribir_en_sticks(b, [k \in 1 .. e.tamanio |-> DeSwap(e, k - 1)])

LEMMA VueltaFuera ==
    ASSUME TiposOK, NEW p \in Pid, Lista(p) # <<>>, NEW b \in Direccion, Vuelta(p, b)
    PROVE  /\ \A k \in DOMAIN tabla : \A a \in Rango(tabla, k) : Byte(a)' = Byte(a)
           /\ \A k \in 0 .. Head(Lista(p)).tamanio - 1 : Byte(b + k)' = DeSwap(Head(Lista(p)), k)
<1> DEFINE e == Head(Lista(p))
           n == e.tamanio
           datos == [k \in 1 .. e.tamanio |-> DeSwap(e, k - 1)]
<1>1. e \in EntradaSwap
  BY HeadTailProperties DEF TiposOK, TablasOK, TipoTablas, Lista
<1>2. n \in Nat /\ b \in Nat /\ TipoBytes /\ TablasOK
  BY <1>1, Numeros DEF EntradaSwap, Direccion, TiposOK
<1>3. Hueco(b, n) /\ escribir_en_sticks(b, datos) /\ DOMAIN datos = 1 .. n
  BY DEF Vuelta
<1>4. \A i \in 1 .. n : datos[i] = DeSwap(e, i - 1)
  OBVIOUS
<1> HIDE DEF e, datos, n
<1>5. ASSUME NEW k \in DOMAIN tabla, NEW a \in Rango(tabla, k) PROVE Byte(a)' = Byte(a)
  <2>1. a \in Direccion
    BY <1>2, RangosAparte
  <2>2. a \in UNION {Ocupa(j[1], j[2]) : j \in DOMAIN tabla}
    <3>1. k = <<k[1], k[2]>>
      BY <1>2 DEF TablasOK, TipoTablas, Parcial
    <3>2. Ocupa(k[1], k[2]) = Rango(tabla, k)
      BY <3>1 DEF Ocupa, Rango
    <3>3. QED
      BY <3>2
  <2>3. a \notin Libres
    BY <2>2 DEF Libres
  <2>4. a \notin Tramo(b, n)
    BY <1>3, <2>3 DEF Hueco, Tramo
  <2>5. QED
    BY <1>2, <1>3, <2>1, <2>4, EscribirFuera
<1>6. ASSUME NEW k \in 0 .. n - 1 PROVE Byte(b + k)' = DeSwap(e, k)
  <2>1. b + k \in Direccion
    BY <1>2, <1>3 DEF Hueco, Libres
  <2>2. b + k - b + 1 = k + 1 /\ k + 1 \in 1 .. n /\ k + 1 - 1 = k
    BY <1>2
  <2>3. Byte(b + k)' = datos[k + 1]
    BY <1>2, <1>3, <2>1, <2>2, EscribirEs
  <2>4. datos[k + 1] = DeSwap(e, k)
    BY <1>4, <2>2
  <2>5. QED
    BY <2>3, <2>4
<1>7. QED
  BY <1>5, <1>6 DEF e, n

LEMMA QueRestaura ==
    ASSUME TiposOK, NEW p \in Pid, RestauraSegmento(p)
    PROVE  /\ Lista(p) # <<>> /\ Lista(p)' = Tail(Lista(p)) /\ estado[p] = "VUELVE"
           /\ UNCHANGED <<estado, pedido, leido, archivo_swap>>
           /\ UNCHANGED <<tabla, espacio_memoria>> \/ \E b \in Direccion : Vuelta(p, b)
<1>1. p \in DOMAIN segmentos_en_swap
  BY DEF TiposOK, TablasOK, TipoTablas
<1>2. QED
  BY <1>1 DEF RestauraSegmento, Lista, Vuelta

\* The byte k of a segment is in block k / Bloque of its blocks, at k % Bloque.
LEMMA BloqueDe ==
    ASSUME NEW k \in Nat, NEW n \in Nat, k < n * Bloque, NEW b0 \in Nat
    PROVE  /\ b0 + (k \div Bloque) \in b0 .. b0 + n - 1
           /\ k % Bloque \in 0 .. Bloque - 1
           /\ ((b0 + (k \div Bloque)) - b0) * Bloque + (k % Bloque) = k
<1>1. k \div Bloque \in 0 .. n - 1
  BY CocienteMenor, Numeros
<1>2. k % Bloque \in 0 .. Bloque - 1 /\ k = Bloque * (k \div Bloque) + (k % Bloque)
  BY Division, Numeros
<1> DEFINE q == k \div Bloque
           r == k % Bloque
<1>3. q \in 0 .. n - 1 /\ r \in 0 .. Bloque - 1 /\ k = Bloque * q + r
  BY <1>1, <1>2
<1> HIDE DEF q, r
<1>4. (b0 + q) - b0 = q /\ b0 + q \in b0 .. b0 + n - 1
  BY <1>3
<1>5. Bloque * q = q * Bloque
  BY <1>3, Numeros
<1>6. QED
  BY <1>3, <1>4, <1>5 DEF q, r

\* SWAP_ESCRITURA puts the bytes of the segment in new blocks.
LEMMA GuardaEs ==
    ASSUME TiposOK, NEW p \in Pid, NEW nro \in Nro, GuardaSegmento(p, nro)
    PROVE  /\ \A b \in 0 .. proximo_bloque_swap - 1 : archivo_swap'[b] = archivo_swap[b]
           /\ \E e : e.nro = nro /\ Lista(p)' = Append(Lista(p), e) /\ Guardado(e)' = Bytes(p, nro)
<1> DEFINE seg == tabla[<<p, nro>>]
           b0 == proximo_bloque_swap
           n == Bloques(seg.tamanio)
           e == [nro |-> nro, id |-> seg.id, tamanio |-> seg.tamanio, inicio |-> b0, cant |-> n]
<1>1. seg.base \in Nat /\ seg.tamanio \in Nat /\ b0 \in Nat /\ p \in DOMAIN segmentos_en_swap
  BY Numeros DEF GuardaSegmento, TiposOK, TablasOK, TipoTablas, Parcial, Segmento
<1>2. n \in Nat /\ seg.tamanio <= n * Bloque
  BY <1>1, BloquesBastan
<1>3. /\ archivo_swap' = [b \in 0 .. b0 + n - 1 |->
              IF b < b0 THEN archivo_swap[b]
              ELSE [o \in 0 .. Bloque - 1 |->
                      LET k == (b - b0) * Bloque + o
                      IN  IF k < seg.tamanio THEN Byte(seg.base + k) ELSE 0]]
      /\ Lista(p)' = Append(Lista(p), e)
  BY <1>1 DEF GuardaSegmento, Lista
<1>4. e.nro = nro /\ e.tamanio = seg.tamanio /\ e.inicio = b0
  OBVIOUS
<1>5. Bytes(p, nro) = [k \in 0 .. seg.tamanio - 1 |-> Byte(seg.base + k)]
  BY DEF Bytes
<1>6. PICK e1, s1, t1, b1, n1 :
          e1 = e /\ s1 = seg.base /\ t1 = seg.tamanio /\ b1 = b0 /\ n1 = n
  OBVIOUS
<1> HIDE DEF seg, n, e
<1>7. ASSUME NEW k \in 0 .. t1 - 1 PROVE DeSwap(e1, k)' = Byte(s1 + k)
  <2> DEFINE b == b1 + (k \div Bloque)
             o == k % Bloque
             capacidad == n1 * Bloque
  <2>1. k \in Nat /\ k < n1 * Bloque
    <3>1. capacidad \in Nat /\ t1 <= capacidad /\ t1 \in Nat
      BY <1>1, <1>2, <1>6, Numeros
    <3> HIDE DEF capacidad
    <3>2. k \in Nat /\ k < capacidad
      BY <3>1
    <3>3. QED
      BY <3>2 DEF capacidad
  <2>2. b \in b1 .. b1 + n1 - 1 /\ o \in 0 .. Bloque - 1 /\ (b - b1) * Bloque + o = k
    BY <1>1, <1>2, <1>6, <2>1, BloqueDe
  <2>3. DeSwap(e1, k)' = archivo_swap'[b][o]
    BY <1>4, <1>6 DEF DeSwap
  <2> HIDE DEF b, o
  <2>4. b \in 0 .. b1 + n1 - 1 /\ ~(b < b1)
    BY <1>1, <1>2, <1>6, <2>2
  <2>5. archivo_swap'[b] = [j \in 0 .. Bloque - 1 |->
             IF (b - b1) * Bloque + j < t1 THEN Byte(s1 + ((b - b1) * Bloque + j)) ELSE 0]
    BY <1>3, <1>6, <2>4
  <2>6. archivo_swap'[b][o] = IF k < t1 THEN Byte(s1 + k) ELSE 0
    BY <2>2, <2>5
  <2>7. k < t1
    BY <1>1, <1>6
  <2>8. QED
    BY <2>3, <2>6, <2>7
<1>8. Guardado(e1)' = [k \in 0 .. t1 - 1 |-> Byte(s1 + k)]
  BY <1>4, <1>6, <1>7 DEF Guardado
<1>9. e1.nro = nro /\ Lista(p)' = Append(Lista(p), e1) /\ Guardado(e1)' = Bytes(p, nro)
  BY <1>3, <1>4, <1>5, <1>6, <1>8
<1>10. \A b \in 0 .. b0 - 1 : archivo_swap'[b] = archivo_swap[b]
  BY <1>1, <1>2, <1>3
<1>11. QED
  BY <1>9, <1>10

\* No byte of another process changes, in the sticks or in SWAP, but by a write with a
\* base of another time.
EscribeBien(p) == Escribe(p) => pedido[p].al_dia

LEMMA PasoBytes ==
    ASSUME TiposOK, NEW p \in Pid, Registro(p), Paso(p), EscribeBien(p), NEW q \in Pid, p # q
    PROVE  MismosBytes(q)
<1>1. ASSUME UNCHANGED <<espacio_memoria, archivo_swap>> PROVE MismosBytes(q)
  BY <1>1, MismoEspacio, MismoArchivo DEF MismosBytes
<1>2. CASE Instruccion(p)
  BY <1>1, <1>2, QueInstruccion DEF swap, TiposOK, TablasOK
<1>3. CASE Lee(p) \/ FinIO(p) \/ (\E v \in Valor : FinStdin(p, v)) \/ Suspende(p) \/ TerminaGuardar(p)
           \/ Desuspende(p) \/ TerminaVolver(p) \/ Sale(p) \/ (\E id \in Id : MemFree(p, id))
           \/ \E r \in Pedidos, b \in Direccion : MemAlloc(p, r[1], r[2], b)
  BY <1>1, <1>3 DEF Lee, FinIO, FinStdin, Suspende, TerminaGuardar, Desuspende, TerminaVolver, Sale, MemFree, MemAlloc, swap
<1>4. ASSUME UNCHANGED archivo_swap,
             \A nro \in Nro : EnUso(q, nro) => \A a \in Rango(tabla, <<q, nro>>) : Byte(a)' = Byte(a)
      PROVE  MismosBytes(q)
  BY <1>4, MismoArchivo DEF MismosBytes
<1>5. CASE Escribe(p)
  <2>1. Bien(p, pedido[p]) /\ pedido[p].al_dia
    BY <1>5 DEF EscribeBien, Escribe, Registro, Vigente, Pendiente
  <2>2. PICK nro \in Nro : EnUso(p, nro) /\ Tramo(pedido[p].dir, pedido[p].tam) \subseteq Rango(tabla, <<p, nro>>)
    BY <2>1 DEF Bien, EnUno
  <2>3. \A k \in DOMAIN tabla : k # <<p, nro>> => \A a \in Rango(tabla, k) : Byte(a)' = Byte(a)
    BY <1>5, <2>1, <2>2, EscribeDentro
  <2>4. \A i \in Nro : <<q, i>> # <<p, nro>>
    OBVIOUS
  <2>5. QED
    BY <1>4, <1>5, <2>3, <2>4 DEF Escribe, swap, EnUso
<1>6. ASSUME NEW nro \in Nro, GuardaSegmento(p, nro) PROVE MismosBytes(q)
  <2>1. \A b \in 0 .. proximo_bloque_swap - 1 : archivo_swap'[b] = archivo_swap[b]
    BY <1>6, GuardaEs
  <2>2. TipoTablas /\ BloquesPropios
    BY DEF TiposOK, TablasOK
  <2>3. \A e \in EnSwap(q) : Guardado(e)' = Guardado(e)
    BY <2>1, <2>2, GuardadoQueda
  <2>4. UNCHANGED espacio_memoria
    BY <1>6 DEF GuardaSegmento
  <2>5. QED
    BY <2>3, <2>4, MismoEspacio DEF MismosBytes
<1>7. CASE RestauraSegmento(p)
  <2>1. CASE UNCHANGED espacio_memoria
    BY <1>1, <1>7, <2>1, QueRestaura
  <2>2. CASE ~UNCHANGED espacio_memoria
    <3>1. PICK b \in Direccion : Vuelta(p, b)
      BY <1>7, <2>2, QueRestaura
    <3>2. \A k \in DOMAIN tabla : \A a \in Rango(tabla, k) : Byte(a)' = Byte(a)
      BY <1>7, <3>1, QueRestaura, VueltaFuera
    <3>3. QED
      BY <1>4, <1>7, <3>2, QueRestaura DEF EnUso
  <2>3. QED
    BY <2>1, <2>2
<1>8. QED
  BY <1>2, <1>3, <1>5, <1>6, <1>7 DEF Paso, Memoria, Suspension

-----------------------------------------------------------------------------
(* Steps of MemoriaPrivada, told by what they do to one process.            *)

Nada == [op |-> "nada"]
Dentro(p, nro, d, n) == nro \in DOMAIN Contenido(p) /\ d .. d + n - 1 \subseteq DOMAIN Contenido(p)[nro]
OtrosIgual(p) == \A q \in Pid : q # p => Contenido(q)' = Contenido(q) /\ Quiere(q)' = Quiere(q)

LEMMA EsTartamudeo ==
    ASSUME NEW p \in Pid, OtrosIgual(p), Contenido(p)' = Contenido(p), Quiere(p)' = Quiere(p), UNCHANGED leido
    PROVE  UNCHANGED Privada!vars
<1>1. \A q \in Pid : Contenido(q)' = Contenido(q) /\ Quiere(q)' = Quiere(q)
  BY DEF OtrosIgual
<1>2. QED
  BY <1>1 DEF Privada!vars

LEMMA EsPide ==
    ASSUME NEW p \in Pid, OtrosIgual(p), Contenido(p)' = Contenido(p), UNCHANGED leido,
           Quiere(p) = Nada, Quiere(p)' # Nada, Privada!EsAcceso(p, Quiere(p)')
    PROVE  Privada!Next
<1>1. UNCHANGED [q \in Pid |-> Contenido(q)]
  BY DEF OtrosIgual
<1>2. [q \in Pid |-> Quiere(q)]' = [[q \in Pid |-> Quiere(q)] EXCEPT ![p] = Quiere(p)']
  BY DEF OtrosIgual
<1>3. Privada!Pide(p)
  BY <1>1, <1>2 DEF Privada!Pide, Privada!Nada, Nada
<1>4. QED
  BY <1>3 DEF Privada!Next

\* A read is late once its process is suspended.
LEMMA EsEnvejece ==
    ASSUME NEW p \in Pid, OtrosIgual(p), Contenido(p)' = Contenido(p), UNCHANGED leido,
           NEW q, q = Quiere(p), q.op = "leer", Quiere(p)' = [op |-> "leer_ajeno", n |-> q.n]
    PROVE  Privada!Next
<1>1. UNCHANGED [r \in Pid |-> Contenido(r)]
  BY DEF OtrosIgual
<1>2. [r \in Pid |-> Quiere(r)]' = [[r \in Pid |-> Quiere(r)] EXCEPT ![p] = [op |-> "leer_ajeno", n |-> q.n]]
  BY DEF OtrosIgual
<1>3. Privada!Envejece(p)
  BY <1>1, <1>2 DEF Privada!Envejece
<1>4. QED
  BY <1>3 DEF Privada!Next

LEMMA EsLeeAjeno ==
    ASSUME NEW p \in Pid, OtrosIgual(p), Contenido(p)' = Contenido(p), DOMAIN leido = Pid,
           NEW q, q = Quiere(p), q.op \in {"leer_ajeno", "copiar_ajeno"},
           NEW bytes, bytes \in [1 .. q.n -> Valor], leido' = [leido EXCEPT ![p] = bytes],
           Quiere(p)' = IF q.op = "leer_ajeno" THEN Nada ELSE [op |-> "escribir_ajeno", n |-> q.n]
    PROVE  Privada!Next
<1>1. UNCHANGED [r \in Pid |-> Contenido(r)]
  BY DEF OtrosIgual
<1>2. [r \in Pid |-> Quiere(r)]' = [[r \in Pid |-> Quiere(r)] EXCEPT ![p] =
          IF q.op = "leer_ajeno" THEN Nada ELSE [op |-> "escribir_ajeno", n |-> q.n]]
  BY DEF OtrosIgual
<1>3. leido' = [leido EXCEPT ![p] = leido'[p]] /\ leido'[p] \in [1 .. q.n -> Valor]
  OBVIOUS
<1>4. Privada!LeeAjeno(p)
  BY <1>1, <1>2, <1>3 DEF Privada!LeeAjeno, Privada!Nada, Nada
<1>5. QED
  BY <1>4 DEF Privada!Next

LEMMA EsEscribeAjeno ==
    ASSUME NEW p \in Pid, UNCHANGED leido, Quiere(p).op = "escribir_ajeno", Quiere(p)' = Nada,
           \A q \in Pid : q # p => Quiere(q)' = Quiere(q),
           \A q \in Pid :
               /\ Contenido(q)' = [nro \in DOMAIN Contenido(q) |-> Contenido(q)'[nro]]
               /\ \A nro \in DOMAIN Contenido(q) : Contenido(q)'[nro] \in [DOMAIN Contenido(q)[nro] -> Valor]
    PROVE  Privada!Next
<1> DEFINE c == [r \in Pid |-> Contenido(r)]
<1>1. \A q \in Pid : c[q] = Contenido(q) /\ c'[q] = Contenido(q)'
  OBVIOUS
<1>2. [r \in Pid |-> Quiere(r)]' = [[r \in Pid |-> Quiere(r)] EXCEPT ![p] = Nada]
  OBVIOUS
<1>3. \A q \in Pid : /\ DOMAIN c'[q] = DOMAIN c[q]
                     /\ \A nro \in DOMAIN c[q] : c'[q][nro] \in [DOMAIN c[q][nro] -> Valor]
  BY <1>1
<1>4. c' = [q \in Pid |-> [nro \in DOMAIN c[q] |-> c'[q][nro]]]
  <2>1. c' = [q \in Pid |-> Contenido(q)']
    OBVIOUS
  <2>2. \A q \in Pid : Contenido(q)' = [nro \in DOMAIN c[q] |-> c'[q][nro]]
    BY <1>1
  <2> HIDE DEF c
  <2>3. QED
    BY <2>1, <2>2
<1>5. Privada!EscribeAjeno(p)
  BY <1>2, <1>3, <1>4 DEF Privada!EscribeAjeno, Privada!Nada, Nada
<1>6. QED
  BY <1>5 DEF Privada!Next

LEMMA EsLee ==
    ASSUME NEW p \in Pid, OtrosIgual(p), Contenido(p)' = Contenido(p),
           NEW q, q = Quiere(p), q.op \in {"leer", "copiar"}, Dentro(p, q.nro, q.d, q.n),
           NEW bytes, bytes = [k \in 1 .. q.n |-> Contenido(p)[q.nro][q.d + k - 1]],
           leido' = [leido EXCEPT ![p] = bytes],
           Quiere(p)' = IF q.op = "leer" THEN Nada
                        ELSE [op |-> "escribir", nro |-> q.nro2, d |-> q.d2, n |-> q.n, datos |-> bytes]
    PROVE  Privada!Next
<1>1. UNCHANGED [r \in Pid |-> Contenido(r)]
  BY DEF OtrosIgual
<1>2. [r \in Pid |-> Quiere(r)]' = [[r \in Pid |-> Quiere(r)] EXCEPT ![p] =
          IF q.op = "leer" THEN Nada
          ELSE [op |-> "escribir", nro |-> q.nro2, d |-> q.d2, n |-> q.n, datos |-> bytes]]
  BY DEF OtrosIgual
<1>3. Privada!Lee(p)
  BY <1>1, <1>2 DEF Privada!Lee, Privada!Dentro, Privada!Nada, Dentro, Nada
<1>4. QED
  BY <1>3 DEF Privada!Next

LEMMA EsEscribe ==
    ASSUME NEW p \in Pid, OtrosIgual(p), UNCHANGED leido,
           NEW q, q = Quiere(p), q.op = "escribir", Dentro(p, q.nro, q.d, q.n), Quiere(p)' = Nada,
           Contenido(p)' = [Contenido(p) EXCEPT ![q.nro] =
               [k \in DOMAIN Contenido(p)[q.nro] |->
                   IF k \in q.d .. q.d + q.n - 1 THEN q.datos[k - q.d + 1] ELSE Contenido(p)[q.nro][k]]]
    PROVE  Privada!Next
<1> DEFINE c == [r \in Pid |-> Contenido(r)]
           nuevo == [k \in DOMAIN Contenido(p)[q.nro] |->
                       IF k \in q.d .. q.d + q.n - 1 THEN q.datos[k - q.d + 1] ELSE Contenido(p)[q.nro][k]]
<1>1. c' = [c EXCEPT ![p][q.nro] =
             [k \in DOMAIN @ |-> IF k \in q.d .. q.d + q.n - 1 THEN q.datos[k - q.d + 1] ELSE @[k]]]
  <2>1. PICK f : f = nuevo
    OBVIOUS
  <2>2. Contenido(p)' = [Contenido(p) EXCEPT ![q.nro] = f]
    BY <2>1
  <2>3. c' = [c EXCEPT ![p] = [Contenido(p) EXCEPT ![q.nro] = f]]
    BY <2>2 DEF OtrosIgual
  <2>4. c[p] = Contenido(p)
    OBVIOUS
  <2> HIDE DEF c
  <2>5. c' = [c EXCEPT ![p][q.nro] = f]
    BY <2>3, <2>4
  <2>6. QED
    BY <2>1, <2>4, <2>5
<1>2. [r \in Pid |-> Quiere(r)]' = [[r \in Pid |-> Quiere(r)] EXCEPT ![p] = Nada]
  BY DEF OtrosIgual
<1>3. Privada!Escribe(p)
  BY <1>1, <1>2 DEF Privada!Escribe, Privada!Dentro, Privada!Nada, Dentro, Nada
<1>4. QED
  BY <1>3 DEF Privada!Next

LEMMA EsTermina ==
    ASSUME NEW p \in Pid, OtrosIgual(p), UNCHANGED leido, Quiere(p)' = Quiere(p), Contenido(p)' = <<>>
    PROVE  Privada!Next
<1>1. [r \in Pid |-> Contenido(r)]' = [[r \in Pid |-> Contenido(r)] EXCEPT ![p] = <<>>]
  BY DEF OtrosIgual
<1>2. UNCHANGED [r \in Pid |-> Quiere(r)]
  BY DEF OtrosIgual
<1>3. Privada!Termina(p)
  BY <1>1, <1>2 DEF Privada!Termina
<1>4. QED
  BY <1>3 DEF Privada!Next

LEMMA EsCrea ==
    ASSUME NEW p \in Pid, OtrosIgual(p), UNCHANGED leido, Quiere(p)' = Quiere(p),
           NEW nro \in Nro, nro \notin DOMAIN Contenido(p), NEW t \in 1 .. TamMax, NEW b \in [0 .. t - 1 -> Valor],
           Contenido(p)' = [i \in DOMAIN Contenido(p) \cup {nro} |-> IF i = nro THEN b ELSE Contenido(p)[i]]
    PROVE  Privada!Next
<1> DEFINE c == [r \in Pid |-> Contenido(r)]
<1>1. c'[p] = Contenido(p)' /\ c[p] = Contenido(p)
  OBVIOUS
<1>2. c'[p][nro] = b /\ nro \in DOMAIN c'[p]
  BY <1>1
<1>3. c' = [c EXCEPT ![p] = [i \in DOMAIN @ \cup {nro} |-> IF i = nro THEN c'[p][nro] ELSE c[p][i]]]
  BY <1>2 DEF OtrosIgual
<1>4. UNCHANGED [r \in Pid |-> Quiere(r)]
  BY DEF OtrosIgual
<1>5. Privada!Crea(p, nro)
  BY <1>1, <1>2, <1>3, <1>4 DEF Privada!Crea
<1>6. QED
  BY <1>5 DEF Privada!Next

LEMMA EsPierde ==
    ASSUME NEW p \in Pid, OtrosIgual(p), UNCHANGED leido, Quiere(p)' = Quiere(p),
           NEW nro \in Nro, nro \in DOMAIN Contenido(p),
           Contenido(p)' = [i \in DOMAIN Contenido(p) \ {nro} |-> Contenido(p)[i]]
    PROVE  Privada!Next
<1> DEFINE c == [r \in Pid |-> Contenido(r)]
<1>1. c' = [c EXCEPT ![p] = [i \in DOMAIN @ \ {nro} |-> @[i]]]
  BY DEF OtrosIgual
<1>2. UNCHANGED [r \in Pid |-> Quiere(r)]
  BY DEF OtrosIgual
<1>3. Privada!Pierde(p, nro)
  BY <1>1, <1>2 DEF Privada!Pierde
<1>4. QED
  BY <1>3 DEF Privada!Next

-----------------------------------------------------------------------------
(* What a request means to its program.                                     *)

\* Quiere, of any table, state and request.
Sirve(t, p, dir, i) ==
    /\ <<p, i>> \in DOMAIN t
    /\ dir \in t[<<p, i>>].base .. t[<<p, i>>].base + t[<<p, i>>].tamanio - 1
NombraEn(t, p, dir) ==
    LET nro == CHOOSE i \in Nro : Sirve(t, p, dir, i)
    IN  [nro |-> nro, d |-> dir - t[<<p, nro>>].base]
EnHora(e, r) == r.al_dia /\ e \in {"ACTIVO", "BLOCK", "MANO"}
QuiereEn(t, p, e, r) ==
    LET o == NombraEn(t, p, r.dir)
        f == NombraEn(t, p, r.destino)
    IN  CASE EnHora(e, r) /\ r.op \in {"leer", "stdout"} -> [op |-> "leer", nro |-> o.nro, d |-> o.d, n |-> r.tam]
          [] EnHora(e, r) /\ r.op = "copiar" ->
               [op |-> "copiar", nro |-> o.nro, d |-> o.d, n |-> r.tam, nro2 |-> f.nro, d2 |-> f.d]
          [] EnHora(e, r) /\ r.op = "escribir" ->
               [op |-> "escribir", nro |-> o.nro, d |-> o.d, n |-> r.tam, datos |-> r.datos]
          [] ~EnHora(e, r) /\ r.op \in {"leer", "stdout"} -> [op |-> "leer_ajeno", n |-> r.tam]
          [] ~EnHora(e, r) /\ r.op = "copiar" -> [op |-> "copiar_ajeno", n |-> r.tam]
          [] ~EnHora(e, r) /\ r.op = "escribir" -> [op |-> "escribir_ajeno", n |-> r.tam]
          [] OTHER -> [op |-> "nada"]

LEMMA QuiereAhora == \A p : Quiere(p) = QuiereEn(tabla, p, estado[p], pedido[p])
BY DEF Quiere, QuiereEn, EnHora, Nombra, NombraEn, Sirve, Ocupa

LEMMA QuiereDespues == \A p : Quiere(p)' = QuiereEn(tabla', p, estado'[p], pedido'[p])
BY DEF Quiere, QuiereEn, EnHora, Nombra, NombraEn, Sirve, Ocupa

LEMMA QuiereLee ==
    ASSUME NEW t, NEW p, NEW e, NEW r, EnHora(e, r), r.op \in {"leer", "stdout"}
    PROVE  QuiereEn(t, p, e, r) =
               [op |-> "leer", nro |-> NombraEn(t, p, r.dir).nro, d |-> NombraEn(t, p, r.dir).d, n |-> r.tam]
BY DEF QuiereEn

LEMMA QuiereCopia ==
    ASSUME NEW t, NEW p, NEW e, NEW r, EnHora(e, r), r.op = "copiar"
    PROVE  QuiereEn(t, p, e, r) =
               [op |-> "copiar", nro |-> NombraEn(t, p, r.dir).nro, d |-> NombraEn(t, p, r.dir).d, n |-> r.tam,
                nro2 |-> NombraEn(t, p, r.destino).nro, d2 |-> NombraEn(t, p, r.destino).d]
BY DEF QuiereEn

LEMMA QuiereEscribe ==
    ASSUME NEW t, NEW p, NEW e, NEW r, EnHora(e, r), r.op = "escribir"
    PROVE  QuiereEn(t, p, e, r) =
               [op |-> "escribir", nro |-> NombraEn(t, p, r.dir).nro, d |-> NombraEn(t, p, r.dir).d, n |-> r.tam,
                datos |-> r.datos]
BY DEF QuiereEn

LEMMA QuiereAjeno ==
    ASSUME NEW t, NEW p, NEW e, NEW r, ~EnHora(e, r)
    PROVE  /\ r.op \in {"leer", "stdout"} => QuiereEn(t, p, e, r) = [op |-> "leer_ajeno", n |-> r.tam]
           /\ r.op = "copiar" => QuiereEn(t, p, e, r) = [op |-> "copiar_ajeno", n |-> r.tam]
           /\ r.op = "escribir" => QuiereEn(t, p, e, r) = [op |-> "escribir_ajeno", n |-> r.tam]
BY DEF QuiereEn

LEMMA QuiereNada ==
    ASSUME NEW t, NEW p, NEW e, NEW r, r.op \in {"ninguno", "espera", "stdin"}
    PROVE  QuiereEn(t, p, e, r) = Nada
BY DEF QuiereEn, Nada

LEMMA NombraUno ==
    ASSUME NEW t, NEW p, NEW dir, NEW nro \in Nro, \A i \in Nro : Sirve(t, p, dir, i) <=> i = nro
    PROVE  NombraEn(t, p, dir) = [nro |-> nro, d |-> dir - t[<<p, nro>>].base]
<1>1. (CHOOSE i \in Nro : Sirve(t, p, dir, i)) = nro
  OBVIOUS
<1>2. QED
  BY <1>1 DEF NombraEn

\* A physical address is in one segment of the process: the mapping has no choice.
LEMMA UnoSirve ==
    ASSUME TiposOK, NEW p \in Pid, NEW dir \in Nat, NEW n \in Nat \ {0},
           NEW nro \in Nro, EnUso(p, nro), Tramo(dir, n) \subseteq Rango(tabla, <<p, nro>>)
    PROVE  \A i \in Nro : Sirve(tabla, p, dir, i) <=> i = nro
<1>1. dir \in Tramo(dir, n)
  BY DEF Tramo
<1>2. dir \in Rango(tabla, <<p, nro>>)
  BY <1>1
<1>3. Sirve(tabla, p, dir, nro)
  BY <1>2 DEF Sirve, EnUso, Rango
<1>4. ASSUME NEW i \in Nro, Sirve(tabla, p, dir, i) PROVE i = nro
  <2>1. <<p, i>> \in DOMAIN tabla /\ <<p, nro>> \in DOMAIN tabla /\ dir \in Rango(tabla, <<p, i>>)
    BY <1>4 DEF Sirve, EnUso, Rango
  <2>2. <<p, i>> = <<p, nro>>
    BY <1>2, <2>1, RangosAparte DEF TiposOK
  <2>3. QED
    BY <2>2
<1>5. QED
  BY <1>3, <1>4

LEMMA NombraEs ==
    ASSUME TiposOK, NEW p \in Pid, NEW dir \in Nat, NEW n \in Nat \ {0}, EnUno(p, dir, n)
    PROVE  LET o == NombraEn(tabla, p, dir)
               s == tabla[<<p, o.nro>>]
           IN  /\ o.nro \in Nro /\ EnUso(p, o.nro) /\ Tramo(dir, n) \subseteq Rango(tabla, <<p, o.nro>>)
               /\ s.base \in Nat /\ s.tamanio \in Nat /\ o.d = dir - s.base /\ o.d \in Nat /\ o.d + n <= s.tamanio
<1>1. PICK nro \in Nro : EnUso(p, nro) /\ Tramo(dir, n) \subseteq Rango(tabla, <<p, nro>>)
  BY DEF EnUno
<1> DEFINE s == tabla[<<p, nro>>]
<1>2. s.base \in Nat /\ s.tamanio \in Nat
  BY <1>1, Numeros DEF TiposOK, TablasOK, TipoTablas, Parcial, EnUso, Segmento
<1>3. Rango(tabla, <<p, nro>>) = s.base .. s.base + s.tamanio - 1
  BY DEF Rango
<1>4. dir \in s.base .. s.base + s.tamanio - 1 /\ dir + n - 1 \in s.base .. s.base + s.tamanio - 1
  <2>1. dir \in Tramo(dir, n) /\ dir + n - 1 \in Tramo(dir, n)
    BY DEF Tramo
  <2>2. QED
    BY <1>1, <1>3, <2>1
<1>5. NombraEn(tabla, p, dir) = [nro |-> nro, d |-> dir - s.base]
  BY <1>1, UnoSirve, NombraUno
<1>6. NombraEn(tabla, p, dir).nro = nro /\ NombraEn(tabla, p, dir).d = dir - s.base
  BY <1>5
<1>7. dir - s.base \in Nat /\ (dir - s.base) + n <= s.tamanio
  BY <1>2, <1>4
<1>8. QED
  BY <1>1, <1>2, <1>6, <1>7

\* While its segments stay where they are, an address names the same byte.
LEMMA NombraQueda ==
    ASSUME TiposOK, NEW p \in Pid, MismoSitio(p), NEW dir \in Nat, NEW n \in Nat \ {0}, EnUno(p, dir, n)
    PROVE  NombraEn(tabla', p, dir) = NombraEn(tabla, p, dir)
<1>1. PICK nro \in Nro : EnUso(p, nro) /\ Tramo(dir, n) \subseteq Rango(tabla, <<p, nro>>)
  BY DEF EnUno
<1>2. \A i \in Nro : Sirve(tabla, p, dir, i) <=> i = nro
  BY <1>1, UnoSirve
<1>3. ASSUME NEW i \in Nro PROVE Sirve(tabla', p, dir, i) <=> Sirve(tabla, p, dir, i)
  <2>1. /\ <<p, i>> \in DOMAIN tabla' <=> <<p, i>> \in DOMAIN tabla
        /\ <<p, i>> \in DOMAIN tabla => tabla'[<<p, i>>] = tabla[<<p, i>>]
    BY DEF MismoSitio, EnUso
  <2>2. QED
    BY <2>1 DEF Sirve
<1>4. tabla'[<<p, nro>>] = tabla[<<p, nro>>]
  BY <1>1 DEF MismoSitio
<1>5. PICK t : t = tabla'
  OBVIOUS
<1>6. NombraEn(t, p, dir) = [nro |-> nro, d |-> dir - t[<<p, nro>>].base]
  BY <1>2, <1>3, <1>5, NombraUno
<1>7. NombraEn(tabla, p, dir) = [nro |-> nro, d |-> dir - tabla[<<p, nro>>].base]
  BY <1>2, NombraUno
<1>8. QED
  BY <1>4, <1>5, <1>6, <1>7

\* It is then an access inside the contents of the process.
LEMMA EsDentro ==
    ASSUME TiposOK, Registros, NEW p \in Pid, estado[p] # "FIN",
           NEW nro \in Nro, EnUso(p, nro), NEW d \in Nat, NEW n \in Nat, d + n <= tabla[<<p, nro>>].tamanio
    PROVE  /\ Dentro(p, nro, d, n) /\ Contenido(p)[nro] = Bytes(p, nro)
           /\ \A k \in 1 .. n : Contenido(p)[nro][d + k - 1] = Byte(tabla[<<p, nro>>].base + (d + k - 1))
<1>1. Visto(p)
  BY VistoAhora DEF TiposOK, TablasOK
<1>2. Contenido(p)[nro] = Bytes(p, nro)
  BY <1>1 DEF Visto
<1>3. nro \in DOMAIN Contenido(p)
  BY <1>1 DEF Visto, Nros
<1>4. tabla[<<p, nro>>].tamanio \in Nat
  BY Numeros DEF TiposOK, TablasOK, TipoTablas, Parcial, EnUso, Segmento
<1>5. d .. d + n - 1 \subseteq 0 .. tabla[<<p, nro>>].tamanio - 1
  BY <1>4
<1>6. \A k \in 1 .. n : d + k - 1 \in 0 .. tabla[<<p, nro>>].tamanio - 1
  BY <1>4
<1>7. QED
  BY <1>2, <1>3, <1>5, <1>6 DEF Dentro, Bytes

-----------------------------------------------------------------------------
(* Each step of Accesos is a step of MemoriaPrivada, or none.               *)

Inv == TiposOK /\ EsperaSegunEstado /\ Registros

\* A process with a request of its own to be served runs or is blocked, with its segments.
LEMMA PendienteVive ==
    ASSUME Inv, NEW p \in Pid, pedido[p].op \in Lectura \cup {"escribir"}
    PROVE  /\ pedido[p] \in Pedido /\ pedido[p].al_dia \in BOOLEAN
           /\ estado[p] # "FIN"
           /\ EnHora(estado[p], pedido[p]) => Bien(p, pedido[p])
           /\ ~EnHora(estado[p], pedido[p]) => ~pedido[p].al_dia \/ pedido[p].op = "stdout"
<1>1. OpSegunEstado(estado[p], pedido[p].op) /\ Vigente(p) /\ pedido[p] \in Pedido /\ estado[p] \in Estado
  BY DEF Inv, EsperaSegunEstado, Registros, Registro, TiposOK, TablasOK, TipoProceso, TipoPedido
<1>2. pedido[p].al_dia \in BOOLEAN
  BY <1>1 DEF Pedido
<1>3. EnHora(estado[p], pedido[p]) => Pendiente(p) /\ pedido[p].al_dia
  BY <1>1 DEF OpSegunEstado, Pendiente, EnHora, Lectura
<1>4. ~EnHora(estado[p], pedido[p]) => ~pedido[p].al_dia \/ pedido[p].op = "stdout"
  BY <1>1 DEF OpSegunEstado, EnHora, Lectura, Estado
<1>5. estado[p] # "FIN"
  BY <1>1 DEF OpSegunEstado, Lectura
<1>6. QED
  BY <1>1, <1>2, <1>3, <1>4, <1>5 DEF Vigente

LEMMA QuiereQueda ==
    ASSUME Inv, NEW q \in Pid, Aparte(q)
    PROVE  Quiere(q)' = Quiere(q)
<1>1. PICK r, e, t : r = pedido[q] /\ e = estado[q] /\ t = tabla'
  OBVIOUS
<1>2. Quiere(q) = QuiereEn(tabla, q, e, r) /\ Quiere(q)' = QuiereEn(t, q, e, r)
  BY <1>1, QuiereAhora, QuiereDespues DEF Aparte
<1>3. MismoSitio(q) /\ TiposOK /\ r \in Pedido
  BY <1>1 DEF Aparte, Inv, TiposOK, TipoPedido
<1>4. CASE r.op \in {"ninguno", "espera", "stdin"}
  BY <1>2, <1>4, QuiereNada
<1>5. CASE r.op \in Lectura \cup {"escribir"} /\ ~EnHora(e, r)
  BY <1>2, <1>5, QuiereAjeno DEF Lectura
<1>6. CASE r.op \in Lectura \cup {"escribir"} /\ EnHora(e, r)
  <2>1. Bien(q, r) /\ r.dir \in Nat /\ r.destino \in Nat /\ r.tam \in Nat \ {0}
    BY <1>1, <1>3, <1>6, PendienteVive DEF Bien, Pedido
  <2>2. PICK d, f, n : d = r.dir /\ f = r.destino /\ n = r.tam
    OBVIOUS
  <2>3. NombraEn(t, q, d) = NombraEn(tabla, q, d)
    BY <1>1, <1>3, <2>1, <2>2, NombraQueda DEF Bien
  <2>4. r.op = "copiar" => NombraEn(t, q, f) = NombraEn(tabla, q, f)
    BY <1>1, <1>3, <2>1, <2>2, NombraQueda DEF Bien
  <2>5. CASE r.op \in {"leer", "stdout"}
    BY <1>2, <1>6, <2>2, <2>3, <2>5, QuiereLee
  <2>6. CASE r.op = "copiar"
    BY <1>2, <1>6, <2>2, <2>3, <2>4, <2>6, QuiereCopia
  <2>7. CASE r.op = "escribir"
    BY <1>2, <1>6, <2>2, <2>3, <2>7, QuiereEscribe
  <2>8. QED
    BY <1>6, <2>5, <2>6, <2>7 DEF Lectura
<1>7. r.op \in {"ninguno", "espera", "stdin"} \cup Lectura \cup {"escribir"}
  BY <1>3 DEF Pedido, Escritura
<1>8. QED
  BY <1>4, <1>5, <1>6, <1>7

LEMMA Otros ==
    ASSUME Inv, Inv', NEW p \in Pid, Paso(p), EscribeBien(p)
    PROVE  OtrosIgual(p)
<1> SUFFICES ASSUME NEW q \in Pid, q # p PROVE Contenido(q)' = Contenido(q) /\ Quiere(q)' = Quiere(q)
  BY DEF OtrosIgual
<1>1. Aparte(q) /\ MismosBytes(q)
  BY PasoAparte, PasoBytes DEF Inv, Registros
<1>2. Igual(q)
  BY <1>1 DEF Aparte, Igual
<1>3. Contenido(q)' = Contenido(q)
  BY <1>2, IgualEs DEF Inv, TiposOK, TablasOK
<1>4. QED
  BY <1>1, <1>3, QuiereQueda

LEMMA OtrosSinEscribir ==
    ASSUME Inv, Inv', NEW p \in Pid, Paso(p), pedido[p].op # "escribir"
    PROVE  OtrosIgual(p)
<1>1. EscribeBien(p)
  BY DEF EscribeBien, Escribe
<1>2. QED
  BY <1>1, Otros

LEMMA ContenidoQuieto ==
    ASSUME Inv, Inv', NEW p \in Pid, UNCHANGED <<tabla, espacio_memoria, segmentos_en_swap, archivo_swap>>,
           estado'[p] = "FIN" <=> estado[p] = "FIN"
    PROVE  Contenido(p)' = Contenido(p)
<1>1. MismoSitio(p) /\ MismosBytes(p)
  BY MismoEspacio, MismoArchivo DEF MismoSitio, MismosBytes, Lista, EnUso
<1>2. Igual(p)
  BY <1>1 DEF Igual
<1>3. QED
  BY <1>2, IgualEs DEF Inv, TiposOK, TablasOK

\* A new request names bytes of a segment of its process, or has bases of another time.
LEMMA PidePaso ==
    ASSUME Inv, NEW p \in Pid, OtrosIgual(p), Contenido(p)' = Contenido(p), UNCHANGED leido, estado[p] # "FIN",
           Quiere(p) = Nada, UNCHANGED tabla,
           NEW r \in Pedido, pedido'[p] = r, r.op \in Lectura \cup {"escribir"}, r.al_dia => Bien(p, r)
    PROVE  Privada!Next
<1>1. PICK e : e = estado'[p]
  OBVIOUS
<1> DEFINE o == NombraEn(tabla, p, r.dir)
           f == NombraEn(tabla, p, r.destino)
<1>2. Quiere(p)' = QuiereEn(tabla, p, e, r)
  BY <1>1, QuiereDespues
<1> HIDE DEF o, f
<1>3. ASSUME NEW q, Quiere(p)' = q, q # Nada,
             q.op \notin {"leer_ajeno", "copiar_ajeno", "escribir_ajeno"} =>
                 Dentro(p, q.nro, q.d, q.n) /\ (q.op = "copiar" => Dentro(p, q.nro2, q.d2, q.n))
      PROVE  Privada!Next
  <2>1. Privada!EsAcceso(p, q)
    BY <1>3 DEF Privada!EsAcceso, Privada!Ajeno, Privada!Dentro, Dentro
  <2>2. QED
    BY <1>3, <2>1, EsPide
<1>4. CASE ~EnHora(e, r)
  <2>1. PICK x \in {"leer_ajeno", "copiar_ajeno", "escribir_ajeno"} : Quiere(p)' = [op |-> x, n |-> r.tam]
    BY <1>2, <1>4, QuiereAjeno DEF Lectura
  <2>2. [op |-> x, n |-> r.tam] # Nada /\ [op |-> x, n |-> r.tam].op = x
    BY <2>1 DEF Nada
  <2>3. QED
    BY <1>3, <2>1, <2>2
<1>5. CASE EnHora(e, r)
  <2>1. Bien(p, r) /\ r.dir \in Nat /\ r.destino \in Nat /\ r.tam \in Nat \ {0} /\ EnUno(p, r.dir, r.tam)
    BY <1>5 DEF EnHora, Bien, Pedido
  <2>2. Dentro(p, o.nro, o.d, r.tam)
    BY <2>1, NombraEs, EsDentro DEF Inv, o
  <2>3. CASE r.op \in {"leer", "stdout"}
    <3>1. PICK q : q = [op |-> "leer", nro |-> o.nro, d |-> o.d, n |-> r.tam]
      OBVIOUS
    <3>2. Quiere(p)' = q
      BY <1>2, <1>5, <2>3, <3>1, QuiereLee DEF o
    <3>3. q # Nada /\ q.op = "leer" /\ q.nro = o.nro /\ q.d = o.d /\ q.n = r.tam
      BY <3>1 DEF Nada
    <3>4. QED
      BY <1>3, <2>2, <3>2, <3>3
  <2>4. CASE r.op = "copiar"
    <3>1. PICK q : q = [op |-> "copiar", nro |-> o.nro, d |-> o.d, n |-> r.tam, nro2 |-> f.nro, d2 |-> f.d]
      OBVIOUS
    <3>2. Quiere(p)' = q
      BY <1>2, <1>5, <2>4, <3>1, QuiereCopia DEF o, f
    <3>3. /\ q # Nada /\ q.op = "copiar" /\ q.nro = o.nro /\ q.d = o.d /\ q.n = r.tam
          /\ q.nro2 = f.nro /\ q.d2 = f.d
      BY <3>1 DEF Nada
    <3>4. Dentro(p, f.nro, f.d, r.tam)
      BY <2>1, <2>4, NombraEs, EsDentro DEF Inv, Bien, f
    <3>5. QED
      BY <1>3, <2>2, <3>2, <3>3, <3>4
  <2>5. CASE r.op = "escribir"
    <3>1. PICK q : q = [op |-> "escribir", nro |-> o.nro, d |-> o.d, n |-> r.tam, datos |-> r.datos]
      OBVIOUS
    <3>2. Quiere(p)' = q
      BY <1>2, <1>5, <2>5, <3>1, QuiereEscribe DEF o
    <3>3. q # Nada /\ q.op = "escribir" /\ q.nro = o.nro /\ q.d = o.d /\ q.n = r.tam
      BY <3>1 DEF Nada
    <3>4. QED
      BY <1>3, <2>2, <3>2, <3>3
  <2>6. QED
    BY <2>3, <2>4, <2>5 DEF Lectura
<1>6. QED
  BY <1>4, <1>5

LEMMA PasoInstruccion ==
    ASSUME Inv, Inv', NEW p \in Pid, Instruccion(p)
    PROVE  Privada!Next \/ UNCHANGED Privada!vars
<1> USE OpDePeticion
<1>0. OtrosIgual(p) /\ DOMAIN estado = Pid /\ DOMAIN pedido = Pid /\ pedido'[p] \in Pedido
  <2>1. EscribeBien(p)
    BY DEF EscribeBien, Escribe, Instruccion, Duerme, Exit, MovIn, MovOut, CopyMem, LlamaIO, Accede, Instruye
  <2>2. QED
    BY <2>1, Otros DEF Paso, Inv, TiposOK, TablasOK, TipoProceso, TipoPedido
<1>1. /\ estado[p] = "ACTIVO" /\ pedido[p] = Ninguno
      /\ UNCHANGED <<leido, tabla, espacio_memoria, segmentos_en_swap, archivo_swap>>
      /\ Saliendo(p) \/ Durmiendo(p) \/ Pedida(p)
  BY QueInstruccion DEF swap, Inv, TiposOK, TablasOK
<1>2. estado'[p] # "FIN"
  BY <1>0, <1>1 DEF Saliendo, Durmiendo, Pedida
<1>3. Contenido(p)' = Contenido(p)
  BY <1>1, <1>2, ContenidoQuieto
<1>4. Quiere(p) = Nada
  BY <1>1, QuiereAhora, QuiereNada
<1>5. ASSUME pedido'[p].op \in {"ninguno", "espera", "stdin"} PROVE UNCHANGED Privada!vars
  <2>1. Quiere(p)' = Nada
    BY <1>5, QuiereDespues, QuiereNada
  <2>2. QED
    BY <1>0, <1>1, <1>3, <1>4, <2>1, EsTartamudeo
<1>6. CASE Saliendo(p) \/ Durmiendo(p)
  BY <1>0, <1>1, <1>5, <1>6 DEF Saliendo, Durmiendo
<1>7. CASE Pedida(p)
  <2>1. PICK r : pedido' = [pedido EXCEPT ![p] = r] /\ r.op \in Lectura \cup Escritura /\ (r.al_dia => Bien(p, r))
    BY <1>7 DEF Pedida
  <2>2. pedido'[p] = r /\ r \in Pedido
    BY <1>0, <2>1
  <2>3. CASE r.op = "stdin"
    BY <1>5, <2>2, <2>3
  <2>4. CASE r.op # "stdin"
    BY <1>0, <1>1, <1>3, <1>4, <2>1, <2>2, <2>4, PidePaso DEF Lectura, Escritura
  <2>5. QED
    BY <2>3, <2>4
<1>8. QED
  BY <1>1, <1>6, <1>7

LEMMA PasoLee ==
    ASSUME Inv, Inv', NEW p \in Pid, Lee(p), EnHora(estado[p], pedido[p])
    PROVE  Privada!Next
<1> USE OpDePeticion
<1> DEFINE r == pedido[p]
           e == estado[p]
           o == NombraEn(tabla, p, r.dir)
           f == NombraEn(tabla, p, r.destino)
           s == tabla[<<p, o.nro>>]
           bytes == leer_de_sticks(r.dir, r.tam)
<1>1. /\ OtrosIgual(p) /\ DOMAIN pedido = Pid /\ r.op \in Lectura /\ leido' = [leido EXCEPT ![p] = bytes]
      /\ UNCHANGED <<estado, tabla, espacio_memoria, segmentos_en_swap, archivo_swap>>
  BY Otros DEF EscribeBien, Escribe, Lectura, Paso, Memoria, Lee, swap, Inv, TiposOK, TipoPedido
<1>2. estado[p] # "FIN" /\ Bien(p, r) /\ r \in Pedido
  BY <1>1, PendienteVive
<1>3. r.dir \in Nat /\ r.tam \in Nat \ {0} /\ EnUno(p, r.dir, r.tam)
  BY <1>2 DEF Bien, Pedido
<1>4. Contenido(p)' = Contenido(p)
  BY <1>1, ContenidoQuieto
<1>5. /\ o.nro \in Nro /\ EnUso(p, o.nro) /\ s.base \in Nat
      /\ o.d = r.dir - s.base /\ o.d \in Nat /\ o.d + r.tam <= s.tamanio
  BY <1>2, <1>3, NombraEs DEF Inv
<1>6. /\ Dentro(p, o.nro, o.d, r.tam)
      /\ \A k \in 1 .. r.tam : Contenido(p)[o.nro][o.d + k - 1] = Byte(s.base + (o.d + k - 1))
  <2>1. PICK i, d, n : i = o.nro /\ d = o.d /\ n = r.tam
    OBVIOUS
  <2>2. i \in Nro /\ EnUso(p, i) /\ d \in Nat /\ n \in Nat /\ d + n <= tabla[<<p, i>>].tamanio
    BY <1>3, <1>5, <2>1
  <2>3. TiposOK /\ Registros /\ estado[p] # "FIN"
    BY <1>2 DEF Inv
  <2>4. Dentro(p, i, d, n) /\ \A k \in 1 .. n : Contenido(p)[i][d + k - 1] = Byte(tabla[<<p, i>>].base + (d + k - 1))
    BY <2>2, <2>3, EsDentro
  <2>5. QED
    BY <2>1, <2>4
<1>7. bytes = [k \in 1 .. r.tam |-> Contenido(p)[o.nro][o.d + k - 1]]
  <2>1. ASSUME NEW k \in 1 .. r.tam PROVE Byte(r.dir + k - 1) = Contenido(p)[o.nro][o.d + k - 1]
    <3>1. s.base + (o.d + k - 1) = r.dir + k - 1
      <4> HIDE DEF o, s, r
      <4>1. QED
        BY <1>3, <1>5
    <3>2. QED
      BY <1>6, <3>1
  <2>2. QED
    BY <2>1 DEF leer_de_sticks
<1>8. Quiere(p) = QuiereEn(tabla, p, e, r) /\ Quiere(p)' = QuiereEn(tabla, p, e, pedido'[p])
  BY <1>1, QuiereAhora, QuiereDespues
<1>9. CASE r.op \in {"leer", "stdout"}
  <2>1. Quiere(p) = [op |-> "leer", nro |-> o.nro, d |-> o.d, n |-> r.tam]
    BY <1>8, <1>9, QuiereLee
  <2>2. pedido'[p] \in {Ninguno, EnEspera}
    BY <1>1, <1>9 DEF Lee, Pide
  <2>3. Quiere(p)' = Nada
    BY <1>8, <2>2, QuiereNada
  <2>4. PICK q : q = Quiere(p)
    OBVIOUS
  <2>5. q.op = "leer" /\ q.nro = o.nro /\ q.d = o.d /\ q.n = r.tam
    BY <2>1, <2>4
  <2> HIDE DEF o, r, s, bytes
  <2>6. QED
    BY <1>1, <1>4, <1>6, <1>7, <2>3, <2>4, <2>5, EsLee
<1>10. CASE r.op = "copiar"
  <2>1. Quiere(p) = [op |-> "copiar", nro |-> o.nro, d |-> o.d, n |-> r.tam, nro2 |-> f.nro, d2 |-> f.d]
    BY <1>8, <1>10, QuiereCopia
  <2>2. PICK w : w = Peticion("escribir", r.destino, r.tam, 0, bytes, r.al_dia)
    OBVIOUS
  <2>3. pedido'[p] = w
    BY <1>1, <1>10, <2>2 DEF Lee, Pide
  <2>4. w.op = "escribir" /\ w.dir = r.destino /\ w.tam = r.tam /\ w.datos = bytes /\ EnHora(e, w)
    BY <2>2 DEF Peticion, EnHora
  <2>5. Quiere(p)' = [op |-> "escribir", nro |-> f.nro, d |-> f.d, n |-> r.tam, datos |-> bytes]
    <3>1. QuiereEn(tabla, p, e, w) =
              [op |-> "escribir", nro |-> NombraEn(tabla, p, w.dir).nro, d |-> NombraEn(tabla, p, w.dir).d, n |-> w.tam,
               datos |-> w.datos]
      BY <2>4, QuiereEscribe
    <3>2. QED
      BY <1>8, <2>3, <2>4, <3>1
  <2>6. PICK q : q = Quiere(p)
    OBVIOUS
  <2>7. q.op = "copiar" /\ q.nro = o.nro /\ q.d = o.d /\ q.n = r.tam /\ q.nro2 = f.nro /\ q.d2 = f.d
    BY <2>1, <2>6
  <2>8. PICK c : c = bytes
    OBVIOUS
  <2>9. Quiere(p)' = IF q.op = "leer" THEN Nada
                     ELSE [op |-> "escribir", nro |-> q.nro2, d |-> q.d2, n |-> q.n, datos |-> c]
    BY <2>5, <2>7, <2>8
  <2>10. q.op \in {"leer", "copiar"} /\ Dentro(p, q.nro, q.d, q.n)
    BY <1>6, <2>7
  <2>11. c = [k \in 1 .. q.n |-> Contenido(p)[q.nro][q.d + k - 1]] /\ leido' = [leido EXCEPT ![p] = c]
    BY <1>1, <1>7, <2>7, <2>8
  <2> HIDE DEF o, f, r, s, bytes
  <2>12. OtrosIgual(p)
    BY <1>1
  <2>13. PICK x : x = [op |-> "escribir", nro |-> q.nro2, d |-> q.d2, n |-> q.n, datos |-> c]
    OBVIOUS
  <2>14. Quiere(p)' = IF q.op = "leer" THEN Nada ELSE x
    BY <2>9, <2>13
  <2>15. QED
    BY <1>4, <2>6, <2>10, <2>11, <2>12, <2>13, <2>14, EsLee
<1>11. QED
  BY <1>1, <1>9, <1>10 DEF Lectura

\* A read with a base of another time returns some bytes.
LEMMA PasoLeeAjeno ==
    ASSUME Inv, Inv', NEW p \in Pid, Lee(p), ~EnHora(estado[p], pedido[p])
    PROVE  Privada!Next
<1> USE OpDePeticion
<1>1. PICK r, e, bytes : r = pedido[p] /\ e = estado[p] /\ bytes = leer_de_sticks(r.dir, r.tam)
  OBVIOUS
<1>2. /\ OtrosIgual(p) /\ DOMAIN pedido = Pid /\ DOMAIN leido = Pid /\ r.op \in Lectura
      /\ leido' = [leido EXCEPT ![p] = bytes]
      /\ UNCHANGED <<estado, tabla, espacio_memoria, segmentos_en_swap, archivo_swap>>
  BY <1>1, Otros DEF EscribeBien, Escribe, Lectura, Paso, Memoria, Lee, swap, Inv, TiposOK, TipoPedido
<1>3. r \in Pedido /\ (~r.al_dia \/ r.op = "stdout")
  BY <1>1, <1>2, PendienteVive
<1>4. Contenido(p)' = Contenido(p)
  BY <1>2, ContenidoQuieto
<1>5. bytes \in [1 .. r.tam -> Valor]
  <2>1. PICK dir, n : dir = r.dir /\ n = r.tam
    OBVIOUS
  <2>2. dir \in Nat /\ n \in Nat /\ Tramo(dir, n) \subseteq Direccion
    BY <1>1, <1>2, <1>3, <2>1 DEF Pedido, Inv, TiposOK, PedidoEnMemoria, Rangos
  <2>3. \A k \in 1 .. n : dir + k - 1 \in Direccion
    BY <2>2 DEF Tramo
  <2>4. \A k \in 1 .. n : Byte(dir + k - 1) \in Valor
    BY <2>3, ByteTipo DEF Inv, TiposOK
  <2>5. QED
    BY <1>1, <2>1, <2>4 DEF leer_de_sticks
<1>6. Quiere(p) = QuiereEn(tabla, p, e, r) /\ Quiere(p)' = QuiereEn(tabla, p, e, pedido'[p])
  BY <1>1, <1>2, QuiereAhora, QuiereDespues
<1>7. CASE r.op \in {"leer", "stdout"}
  <2>1. Quiere(p) = [op |-> "leer_ajeno", n |-> r.tam]
    BY <1>1, <1>6, <1>7, QuiereAjeno
  <2>2. pedido'[p] \in {Ninguno, EnEspera}
    BY <1>1, <1>2, <1>7 DEF Lee, Pide
  <2>3. Quiere(p)' = Nada
    BY <1>6, <2>2, QuiereNada
  <2>4. PICK q : q = Quiere(p)
    OBVIOUS
  <2>5. q.op = "leer_ajeno" /\ q.n = r.tam
    BY <2>1, <2>4
  <2>6. QED
    BY <1>2, <1>4, <1>5, <2>3, <2>4, <2>5, EsLeeAjeno
<1>8. CASE r.op = "copiar"
  <2>1. Quiere(p) = [op |-> "copiar_ajeno", n |-> r.tam]
    BY <1>1, <1>6, <1>8, QuiereAjeno
  <2>2. PICK w : w = Peticion("escribir", r.destino, r.tam, 0, bytes, r.al_dia)
    OBVIOUS
  <2>3. pedido'[p] = w
    BY <1>1, <1>2, <1>8, <2>2 DEF Lee, Pide
  <2>4. w.op = "escribir" /\ w.tam = r.tam /\ ~EnHora(e, w)
    BY <1>1, <2>2 DEF Peticion, EnHora
  <2>5. Quiere(p)' = [op |-> "escribir_ajeno", n |-> r.tam]
    BY <1>6, <2>3, <2>4, QuiereAjeno
  <2>6. PICK q : q = Quiere(p)
    OBVIOUS
  <2>7. q.op = "copiar_ajeno" /\ q.n = r.tam
    BY <2>1, <2>6
  <2>8. Quiere(p)' = IF q.op = "leer_ajeno" THEN Nada ELSE [op |-> "escribir_ajeno", n |-> q.n]
    BY <2>5, <2>7
  <2>9. QED
    BY <1>2, <1>4, <1>5, <2>6, <2>7, <2>8, EsLeeAjeno
<1>9. QED
  BY <1>2, <1>7, <1>8 DEF Lectura

\* The bytes written are those of the range that the program named, and no others.
LEMMA PasoEscribe ==
    ASSUME Inv, Inv', NEW p \in Pid, Escribe(p), pedido[p].al_dia
    PROVE  Privada!Next
<1> USE OpDePeticion
<1>1. PICK r : r = pedido[p]
  OBVIOUS
<1>2. /\ OtrosIgual(p) /\ DOMAIN pedido = Pid /\ DOMAIN estado = Pid /\ r.op = "escribir"
      /\ escribir_en_sticks(r.dir, r.datos)
      /\ pedido'[p] = Ninguno /\ estado'[p] \in {estado[p], "ACTIVO"}
      /\ UNCHANGED <<leido, tabla, segmentos_en_swap, archivo_swap>>
  <2>1. EscribeBien(p) /\ Paso(p)
    BY DEF EscribeBien, Paso, Memoria
  <2>2. OtrosIgual(p)
    BY <2>1, Otros
  <2>3. DOMAIN pedido = Pid /\ DOMAIN estado = Pid
    BY DEF Inv, TiposOK, TablasOK, TipoPedido, TipoProceso
  <2>4. QED
    BY <1>1, <2>2, <2>3 DEF Escribe, Pide, swap
<1>3. estado[p] # "FIN" /\ estado'[p] # "FIN" /\ EnHora(estado[p], r) /\ Bien(p, r) /\ r \in Pedido
  BY <1>1, <1>2, PendienteVive
<1>4. PICK dir, n, datos : dir = r.dir /\ n = r.tam /\ datos = r.datos
  OBVIOUS
<1>5. dir \in Nat /\ n \in Nat \ {0} /\ EnUno(p, dir, n) /\ DOMAIN datos = 1 .. n
  BY <1>2, <1>3, <1>4 DEF Bien, Pedido
<1>6. PICK nro, d, b, m :
          /\ nro = NombraEn(tabla, p, dir).nro /\ d = NombraEn(tabla, p, dir).d
          /\ b = tabla[<<p, nro>>].base /\ m = tabla[<<p, nro>>].tamanio
  OBVIOUS
<1>7. /\ nro \in Nro /\ EnUso(p, nro) /\ b \in Nat /\ m \in Nat
      /\ Tramo(dir, n) \subseteq Rango(tabla, <<p, nro>>)
      /\ d = dir - b /\ d \in Nat /\ d + n <= m
  BY <1>3, <1>5, <1>6, NombraEs DEF Inv
<1>8. Dentro(p, nro, d, n) /\ Contenido(p)[nro] = [k \in 0 .. m - 1 |-> Byte(b + k)]
  <2>1. TiposOK /\ Registros /\ n \in Nat /\ d + n <= tabla[<<p, nro>>].tamanio
    BY <1>5, <1>6, <1>7 DEF Inv
  <2>2. Dentro(p, nro, d, n) /\ Contenido(p)[nro] = Bytes(p, nro)
    BY <1>3, <1>7, <2>1, EsDentro
  <2>3. QED
    BY <1>6, <2>2 DEF Bytes
<1>9. Visto(p) /\ Visto(p)' /\ TipoTablas
  BY VistoAhora, VistoDespues DEF Inv, TiposOK, TablasOK
<1>10. Nros(p)' = Nros(p) /\ nro \in Nros(p)
  BY <1>2, <1>7 DEF Nros, EnUso, Lista
<1>11. \A k \in DOMAIN tabla : k # <<p, nro>> => \A a \in Rango(tabla, k) : Byte(a)' = Byte(a)
  BY <1>1, <1>4, <1>7, EscribeDentro DEF Inv, Registros
<1>12. ASSUME NEW i \in Nros(p), i # nro PROVE Contenido(p)'[i] = Contenido(p)[i]
  <2>1. CASE i \in Nro /\ EnUso(p, i)
    <3>1. <<p, i>> # <<p, nro>> /\ <<p, i>> \in DOMAIN tabla /\ EnUso(p, i)'
      BY <1>2, <1>12, <2>1 DEF EnUso
    <3>2. \A a \in Rango(tabla, <<p, i>>) : Byte(a)' = Byte(a)
      BY <1>11, <3>1
    <3>3. Bytes(p, i)' = Bytes(p, i)
      BY <1>2, <1>9, <2>1, <3>2, MismoSegmento
    <3>4. QED
      BY <1>3, <1>9, <2>1, <3>1, <3>3 DEF Visto
  <2>2. CASE \E j \in DOMAIN Lista(p) : i = Lista(p)[j].nro
    <3>1. PICK j \in DOMAIN Lista(p) : i = Lista(p)[j].nro
      BY <2>2
    <3>2. Lista(p)' = Lista(p) /\ Guardado(Lista(p)[j])' = Guardado(Lista(p)[j])
      BY <1>2 DEF Lista, Guardado, DeSwap
    <3>3. Contenido(p)'[Lista(p)'[j].nro] = Guardado(Lista(p)[j])'
      BY <1>3, <1>9, <3>2 DEF Visto
    <3>4. QED
      BY <1>3, <1>9, <3>1, <3>2, <3>3 DEF Visto
  <2>3. QED
    BY <1>12, <2>1, <2>2 DEF Nros
<1>13. Contenido(p)'[nro] = [k \in 0 .. m - 1 |->
           IF k \in d .. d + n - 1 THEN datos[k - d + 1] ELSE Contenido(p)[nro][k]]
  <2>1. EnUso(p, nro)' /\ tabla'[<<p, nro>>].base = b /\ tabla'[<<p, nro>>].tamanio = m
    BY <1>2, <1>6, <1>7 DEF EnUso
  <2>2. Contenido(p)'[nro] = Bytes(p, nro)'
    BY <1>3, <1>7, <1>9, <2>1 DEF Visto
  <2>3. Bytes(p, nro)' = [k \in 0 .. m - 1 |-> Byte(b + k)']
    BY <2>1 DEF Bytes
  <2>4. ASSUME NEW k \in 0 .. m - 1
        PROVE  Byte(b + k)' = IF k \in d .. d + n - 1 THEN datos[k - d + 1] ELSE Contenido(p)[nro][k]
    <3>1. PICK a : a = b + k
      OBVIOUS
    <3>2. a \in Direccion
      <4>1. a \in Rango(tabla, <<p, nro>>)
        BY <1>6, <1>7, <3>1 DEF Rango
      <4>2. QED
        BY <1>7, <4>1, RangosAparte DEF Inv, TiposOK, EnUso
    <3>3. Contenido(p)[nro][k] = Byte(a)
      BY <1>8, <3>1
    <3>4. Byte(a)' = IF a - dir + 1 \in DOMAIN datos THEN datos[a - dir + 1] ELSE Byte(a)
      BY <1>2, <1>4, <1>5, <3>2, EscribirEs DEF Inv, TiposOK
    <3>5. a - dir + 1 = k - d + 1 /\ (k \in d .. d + n - 1 <=> k - d + 1 \in 1 .. n)
      BY <1>5, <1>7, <3>1
    <3>6. Byte(b + k)' = Byte(a)'
      BY <3>1
    <3>7. QED
      BY <1>5, <3>3, <3>4, <3>5, <3>6
  <2>5. QED
    BY <2>2, <2>3, <2>4
<1>14. Quiere(p)' = Nada
  BY <1>2, QuiereDespues, QuiereNada
<1>15. PICK q : q = Quiere(p)
  OBVIOUS
<1>16. q.op = "escribir" /\ q.nro = nro /\ q.d = d /\ q.n = n /\ q.datos = datos
  BY <1>1, <1>2, <1>3, <1>4, <1>6, <1>15, QuiereAhora, QuiereEscribe
<1>17. DOMAIN Contenido(p)[nro] = 0 .. m - 1
  BY <1>8
<1>18. /\ Contenido(p) = [i \in Nros(p) |-> Contenido(p)[i]]
       /\ Contenido(p)' = [i \in Nros(p) |-> Contenido(p)'[i]]
  BY <1>3, <1>9, <1>10 DEF Visto
<1>19. Contenido(p)' = [Contenido(p) EXCEPT ![nro] =
           [k \in DOMAIN Contenido(p)[nro] |->
               IF k \in d .. d + n - 1 THEN datos[k - d + 1] ELSE Contenido(p)[nro][k]]]
  BY <1>10, <1>12, <1>13, <1>17, <1>18
<1>20. Dentro(p, q.nro, q.d, q.n)
  BY <1>8, <1>16
<1>21. Contenido(p)' = [Contenido(p) EXCEPT ![q.nro] =
           [k \in DOMAIN Contenido(p)[q.nro] |->
               IF k \in q.d .. q.d + q.n - 1 THEN q.datos[k - q.d + 1] ELSE Contenido(p)[q.nro][k]]]
  BY <1>16, <1>19
<1>22. q.op = "escribir"
  BY <1>16
<1>23. QED
  BY <1>2, <1>14, <1>15, <1>20, <1>21, <1>22, EsEscribe

LEMMA BytesAhora == TipoBytes => \A a \in Direccion : Byte(a) \in Valor
BY ByteTipo

LEMMA BytesDespues == TipoBytes' => \A a \in Direccion : Byte(a)' \in Valor
<1>1. (TipoBytes => \A a \in Direccion : Byte(a) \in Valor)'
  BY BytesAhora, PTL
<1>2. QED
  BY <1>1

\* A write with a base of another time changes bytes, and no segment.
LEMMA PasoEscribeAjeno ==
    ASSUME Inv, Inv', NEW p \in Pid, Escribe(p), ~pedido[p].al_dia
    PROVE  Privada!Next
<1> USE OpDePeticion
<1>1. PICK r : r = pedido[p]
  OBVIOUS
<1>2. /\ DOMAIN pedido = Pid /\ DOMAIN estado = Pid /\ r.op = "escribir"
      /\ pedido' = [pedido EXCEPT ![p] = Ninguno] /\ estado'[p] \in {estado[p], "ACTIVO"}
      /\ \A q \in Pid : q # p => estado'[q] = estado[q]
      /\ UNCHANGED <<leido, tabla, segmentos_en_swap, archivo_swap>>
  BY <1>1 DEF Escribe, Pide, swap, Inv, TiposOK, TablasOK, TipoPedido, TipoProceso
<1>3. estado[p] # "FIN" /\ estado'[p] # "FIN"
  BY <1>1, <1>2, PendienteVive
<1>4. Quiere(p)' = Nada
  <2>1. PICK w : w = pedido'[p]
    OBVIOUS
  <2>2. w.op = "ninguno"
    BY <1>2, <2>1
  <2>3. Quiere(p)' = QuiereEn(tabla', p, estado'[p], w)
    BY <2>1, QuiereDespues
  <2>4. QED
    BY <2>2, <2>3, QuiereNada
<1>5. Quiere(p).op = "escribir_ajeno"
  <2>1. ~EnHora(estado[p], r)
    BY <1>1 DEF EnHora
  <2>2. Quiere(p) = [op |-> "escribir_ajeno", n |-> r.tam]
    BY <1>1, <1>2, <2>1, QuiereAhora, QuiereAjeno
  <2>3. QED
    BY <2>2
<1>6. ASSUME NEW q \in Pid, q # p PROVE Quiere(q)' = Quiere(q)
  BY <1>2, <1>6, QuiereAhora, QuiereDespues
<1>7. ASSUME NEW q \in Pid
      PROVE  /\ Contenido(q)' = [nro \in DOMAIN Contenido(q) |-> Contenido(q)'[nro]]
             /\ \A nro \in DOMAIN Contenido(q) : Contenido(q)'[nro] \in [DOMAIN Contenido(q)[nro] -> Valor]
  <2>1. Visto(q) /\ Visto(q)' /\ TipoTablas /\ TablasOK
    BY VistoAhora, VistoDespues DEF Inv, TiposOK, TablasOK
  <2>2. estado'[q] = "FIN" <=> estado[q] = "FIN"
    BY <1>2, <1>3
  <2>3. CASE estado[q] = "FIN"
    <3>1. PICK c, d : c = Contenido(q) /\ d = Contenido(q)'
      OBVIOUS
    <3>2. c = <<>> /\ d = <<>>
      BY <2>1, <2>2, <2>3, <3>1 DEF Visto
    <3>3. d = [nro \in DOMAIN c |-> d[nro]] /\ \A nro \in DOMAIN c : d[nro] \in [DOMAIN c[nro] -> Valor]
      BY <3>2
    <3>4. QED
      BY <3>1, <3>3
  <2>4. CASE estado[q] # "FIN"
    <3>1. Nros(q)' = Nros(q)
      BY <1>2 DEF Nros, EnUso, Lista
    <3>2. /\ Contenido(q) = [nro \in Nros(q) |-> Contenido(q)[nro]]
          /\ Contenido(q)' = [nro \in Nros(q)' |-> Contenido(q)'[nro]]
      BY <2>1, <2>2, <2>4 DEF Visto
    <3>3. ASSUME NEW nro \in Nro, EnUso(q, nro)
          PROVE  Contenido(q)'[nro] \in [DOMAIN Contenido(q)[nro] -> Valor]
      <4>1. PICK b, m : b = tabla[<<q, nro>>].base /\ m = tabla[<<q, nro>>].tamanio
        OBVIOUS
      <4>2. b \in Nat /\ m \in Nat
        BY <2>1, <3>3, <4>1, Numeros DEF TipoTablas, Parcial, EnUso, Segmento
      <4>3. Contenido(q)[nro] = [k \in 0 .. m - 1 |-> Byte(b + k)]
        BY <2>1, <2>4, <3>3, <4>1 DEF Visto, Bytes
      <4>4. Contenido(q)'[nro] = [k \in 0 .. m - 1 |-> Byte(b + k)']
        <5>1. EnUso(q, nro)' /\ tabla'[<<q, nro>>].base = b /\ tabla'[<<q, nro>>].tamanio = m
          BY <1>2, <3>3, <4>1 DEF EnUso
        <5>2. Contenido(q)'[nro] = Bytes(q, nro)'
          BY <2>1, <2>2, <2>4, <5>1 DEF Visto
        <5>3. QED
          BY <5>1, <5>2 DEF Bytes
      <4>5. ASSUME NEW k \in 0 .. m - 1 PROVE Byte(b + k)' \in Valor
        <5>1. PICK a : a = b + k
          OBVIOUS
        <5>2. a \in Rango(tabla, <<q, nro>>)
          BY <4>1, <4>2, <5>1 DEF Rango
        <5>3. a \in Direccion
          BY <2>1, <3>3, <5>2, RangosAparte DEF EnUso
        <5>5. Byte(a)' \in Valor
          BY <5>3, BytesDespues DEF Inv, TiposOK
        <5>6. QED
          BY <5>1, <5>5
      <4>6. QED
        BY <4>3, <4>4, <4>5
    <3>4. ASSUME NEW i \in DOMAIN Lista(q)
          PROVE  Contenido(q)'[Lista(q)[i].nro] \in [DOMAIN Contenido(q)[Lista(q)[i].nro] -> Valor]
      <4>1. PICK e : e = Lista(q)[i]
        OBVIOUS
      <4>2. Contenido(q)[e.nro] = Guardado(e)
        BY <2>1, <2>4, <4>1 DEF Visto
      <4>3. Lista(q)' = Lista(q) /\ Guardado(Lista(q)[i])' = Guardado(e)
        BY <1>2, <4>1 DEF Lista, Guardado, DeSwap
      <4>4. Contenido(q)'[e.nro] = Guardado(e)
        <5>1. Contenido(q)'[Lista(q)'[i].nro] = Guardado(Lista(q)[i])'
          BY <2>1, <2>2, <2>4, <4>3 DEF Visto
        <5>2. QED
          BY <4>1, <4>3, <5>1
      <4>5. \A k \in 0 .. e.tamanio - 1 : DeSwap(e, k) \in Valor
        BY <4>1, DeSwapTipo DEF Lista, Inv, TiposOK, TablasOK
      <4>6. Guardado(e) \in [DOMAIN Guardado(e) -> Valor]
        BY <4>5 DEF Guardado
      <4>7. QED
        BY <4>1, <4>2, <4>4, <4>6
    <3>5. QED
      BY <3>1, <3>2, <3>3, <3>4 DEF Nros
  <2>5. QED
    BY <2>3, <2>4
<1>8. UNCHANGED leido
  BY <1>2
<1>9. QED
  BY <1>4, <1>5, <1>6, <1>7, <1>8, EsEscribeAjeno

\* The end of an I/O and the changes of state of a suspension touch no segment; what
\* STDIN read, as the process asks for its write.
LEMMA PasoQuieto ==
    ASSUME Inv, Inv', NEW p \in Pid,
           \/ FinIO(p) \/ \E v \in Valor : FinStdin(p, v)
           \/ Suspende(p) \/ TerminaGuardar(p) \/ Desuspende(p) \/ TerminaVolver(p)
    PROVE  Privada!Next \/ UNCHANGED Privada!vars
<1> USE OpDePeticion
<1>1. /\ OpSegunEstado(estado[p], pedido[p].op) /\ pedido[p] \in Pedido /\ pedido'[p] \in Pedido
      /\ DOMAIN pedido = Pid /\ DOMAIN estado = Pid
  BY DEF Inv, EsperaSegunEstado, TiposOK, TablasOK, TipoPedido, TipoProceso
<1>2. Paso(p) /\ pedido[p].op # "escribir"
  BY <1>1 DEF Paso, Suspension, FinIO, FinStdin, Suspende, TerminaGuardar, Desuspende, TerminaVolver, OpSegunEstado
<1>3. /\ OtrosIgual(p)
      /\ UNCHANGED <<leido, tabla, espacio_memoria, segmentos_en_swap, archivo_swap>>
  <2>1. OtrosIgual(p)
    BY <1>2, OtrosSinEscribir
  <2>2. QED
    BY <2>1 DEF FinIO, FinStdin, Suspende, TerminaGuardar, Desuspende, TerminaVolver, swap
<1>4. estado[p] # "FIN" /\ estado'[p] # "FIN"
  BY <1>1 DEF FinIO, FinStdin, Suspende, TerminaGuardar, Desuspende, TerminaVolver, Pone, OpSegunEstado
<1>5. Contenido(p)' = Contenido(p)
  BY <1>3, <1>4, ContenidoQuieto
<1>6. ASSUME Quiere(p)' = Quiere(p) PROVE UNCHANGED Privada!vars
  BY <1>3, <1>5, <1>6, EsTartamudeo
<1>7. ASSUME pedido[p].op \in {"ninguno", "espera", "stdin"}, pedido'[p].op \in {"ninguno", "espera", "stdin"}
      PROVE  UNCHANGED Privada!vars
  <2>1. Quiere(p) = Nada /\ Quiere(p)' = Nada
    BY <1>7, QuiereAhora, QuiereDespues, QuiereNada
  <2>2. QED
    BY <1>6, <2>1
<1>8. CASE FinIO(p)
  BY <1>1, <1>7, <1>8 DEF FinIO, Pide
<1>9. ASSUME NEW v \in Valor, FinStdin(p, v) PROVE Privada!Next \/ UNCHANGED Privada!vars
  <2>1. CASE estado[p] # "BLOCK"
    BY <1>1, <1>7, <1>9, <2>1 DEF FinStdin, Pide
  <2>2. CASE estado[p] = "BLOCK"
    <3>1. PICK o, datos : o = pedido[p] /\ datos = [k \in 1 .. o.tam |-> v]
      OBVIOUS
    <3>2. PICK r : r = Peticion("escribir", o.dir, o.tam, 0, datos, o.al_dia)
      OBVIOUS
    <3>3. pedido'[p] = r /\ o.op = "stdin"
      BY <1>1, <1>9, <2>2, <3>1, <3>2 DEF FinStdin, Pide
    <3>4. /\ r.op = "escribir" /\ r.dir = o.dir /\ r.tam = o.tam /\ r.datos = datos /\ r.al_dia = o.al_dia
          /\ DOMAIN datos = 1 .. o.tam
      BY <3>1, <3>2 DEF Peticion
    <3>5. o.al_dia => Bien(p, o)
      BY <2>2, <3>1, <3>3 DEF Inv, Registros, Registro, Vigente, Pendiente
    <3>6. r.al_dia => Bien(p, r)
      BY <3>4, <3>5 DEF Bien
    <3>7. Quiere(p) = Nada
      BY <3>1, <3>3, QuiereAhora, QuiereNada
    <3>8. r \in Pedido /\ r.op \in Lectura \cup {"escribir"}
      BY <1>1, <3>3, <3>4
    <3>9. UNCHANGED leido /\ UNCHANGED tabla
      BY <1>3
    <3>10. QED
      BY <1>3, <1>4, <1>5, <3>3, <3>6, <3>7, <3>8, <3>9, PidePaso
  <2>3. QED
    BY <2>1, <2>2
<1>10. CASE Suspende(p) \/ TerminaGuardar(p) \/ Desuspende(p) \/ TerminaVolver(p)
  <2>1. UNCHANGED pedido
    BY <1>10 DEF Suspende, TerminaGuardar, Desuspende, TerminaVolver
  <2>2. CASE pedido[p].op \in {"ninguno", "espera", "stdin"}
    BY <1>7, <2>1, <2>2
  <2>3. CASE pedido[p].op \notin {"ninguno", "espera", "stdin"}
    <3>1. pedido[p].op = "stdout" /\ estado'[p] \in {"GUARDA", "SUSP"}
      BY <1>1, <1>10, <2>3 DEF Suspende, TerminaGuardar, Desuspende, TerminaVolver, Pone, OpSegunEstado
    <3>2. PICK r, e, x : r = pedido[p] /\ e = estado[p] /\ x = estado'[p]
      OBVIOUS
    <3>3. Quiere(p) = QuiereEn(tabla, p, e, r) /\ Quiere(p)' = QuiereEn(tabla, p, x, r)
      BY <1>3, <2>1, <3>2, QuiereAhora, QuiereDespues
    <3>4. Quiere(p)' = [op |-> "leer_ajeno", n |-> r.tam]
      BY <3>1, <3>2, <3>3, QuiereAjeno DEF EnHora
    <3>5. CASE ~EnHora(e, r)
      BY <1>6, <3>1, <3>2, <3>3, <3>4, <3>5, QuiereAjeno
    <3>6. CASE EnHora(e, r)
      <4>1. PICK q : q = Quiere(p)
        OBVIOUS
      <4>2. q.op = "leer" /\ q.n = r.tam
        BY <3>1, <3>2, <3>3, <3>6, <4>1, QuiereLee
      <4>3. Quiere(p)' = [op |-> "leer_ajeno", n |-> q.n]
        BY <3>4, <4>2
      <4>4. UNCHANGED leido
        BY <1>3
      <4>5. QED
        BY <1>3, <1>5, <4>1, <4>2, <4>3, <4>4, EsEnvejece
    <3>7. QED
      BY <3>5, <3>6
  <2>4. QED
    BY <2>2, <2>3
<1>11. QED
  BY <1>8, <1>9, <1>10

\* A process that waits for no access has none to ask for, whatever the table says.
LEMMA SinPedido ==
    ASSUME NEW p \in Pid, pedido[p].op \in {"ninguno", "espera", "stdin"}, UNCHANGED pedido
    PROVE  Quiere(p) = Nada /\ Quiere(p)' = Nada
BY QuiereAhora, QuiereDespues, QuiereNada

LEMMA PasoSale ==
    ASSUME Inv, Inv', NEW p \in Pid, Sale(p)
    PROVE  Privada!Next
<1>2. UNCHANGED <<pedido, leido>> /\ estado[p] = "SALE" /\ estado'[p] = "FIN"
  BY DEF Sale, Pone, Inv, TiposOK, TablasOK, TipoProceso
<1>3. pedido[p].op = "ninguno"
  BY <1>2 DEF Inv, EsperaSegunEstado, OpSegunEstado
<1>1. OtrosIgual(p)
  BY <1>3, OtrosSinEscribir DEF Paso, Memoria
<1>4. Quiere(p) = Nada /\ Quiere(p)' = Nada
  BY <1>2, <1>3, SinPedido
<1>5. Visto(p)'
  BY VistoDespues DEF Inv, TiposOK, TablasOK
<1>6. Contenido(p)' = <<>>
  BY <1>2, <1>5 DEF Visto
<1>7. QED
  BY <1>1, <1>2, <1>4, <1>6, EsTermina

\* The contents of a segment that stays in the table with its bytes.
LEMMA PiezaEnTabla ==
    ASSUME Inv, Inv', NEW p \in Pid, estado[p] # "FIN", estado'[p] # "FIN", NEW i \in Nro, EnUso(p, i), EnUso(p, i)',
           tabla'[<<p, i>>] = tabla[<<p, i>>], \A a \in Rango(tabla, <<p, i>>) : Byte(a)' = Byte(a)
    PROVE  Contenido(p)'[i] = Contenido(p)[i]
<1>1. Visto(p) /\ Visto(p)' /\ TipoTablas
  BY VistoAhora, VistoDespues DEF Inv, TiposOK, TablasOK
<1>2. Bytes(p, i)' = Bytes(p, i)
  BY <1>1, MismoSegmento
<1>3. Contenido(p)[i] = Bytes(p, i) /\ Contenido(p)'[i] = Bytes(p, i)'
  BY <1>1 DEF Visto
<1>4. QED
  BY <1>2, <1>3

\* The contents of a segment that stays in SWAP, perhaps at another place of the list.
LEMMA PiezaEnSwap ==
    ASSUME Inv, Inv', NEW p \in Pid, estado[p] # "FIN", estado'[p] # "FIN",
           NEW i \in DOMAIN Lista(p), NEW j \in DOMAIN Lista(p)', NEW e, e = Lista(p)[i], e = Lista(p)'[j],
           Guardado(e)' = Guardado(e)
    PROVE  Contenido(p)'[e.nro] = Contenido(p)[e.nro]
<1>1. Visto(p) /\ Visto(p)'
  BY VistoAhora, VistoDespues DEF Inv, TiposOK, TablasOK
<1>2. Contenido(p)[e.nro] = Guardado(e)
  BY <1>1 DEF Visto
<1>3. PICK L : L = Lista(p)'
  OBVIOUS
<1>4. \A x \in DOMAIN L : Contenido(p)'[L[x].nro] = [k \in 0 .. L[x].tamanio - 1 |-> DeSwap(L[x], k)']
  BY <1>1, <1>3 DEF Visto, Guardado
<1>5. Contenido(p)'[e.nro] = [k \in 0 .. e.tamanio - 1 |-> DeSwap(e, k)']
  BY <1>3, <1>4
<1>6. Guardado(e)' = [k \in 0 .. e.tamanio - 1 |-> DeSwap(e, k)']
  BY DEF Guardado
<1>7. QED
  BY <1>2, <1>5, <1>6

LEMMA SinLista ==
    ASSUME NEW p \in Pid, Lista(p) = <<>>, Lista(p)' = <<>>
    PROVE  Nros(p) = {i \in Nro : EnUso(p, i)} /\ Nros(p)' = {i \in Nro : EnUso(p, i)'}
<1>1. {Lista(p)[i].nro : i \in DOMAIN Lista(p)} = {}
  OBVIOUS
<1>2. PICK L : L = Lista(p)'
  OBVIOUS
<1>3. {L[i].nro : i \in DOMAIN L} = {}
  BY <1>2
<1>4. Nros(p)' = {i \in Nro : EnUso(p, i)'} \cup {L[i].nro : i \in DOMAIN L}
  BY <1>2 DEF Nros
<1>5. QED
  BY <1>1, <1>3, <1>4 DEF Nros

LEMMA PasoAlloc ==
    ASSUME Inv, Inv', NEW p \in Pid, NEW q \in Pedidos, NEW b \in Direccion, MemAlloc(p, q[1], q[2], b)
    PROVE  Privada!Next
<1> USE OpDePeticion
<1>2. PICK nro, t, v : nro = restan /\ t = q[2] /\ v = [id |-> q[1], base |-> b, tamanio |-> t]
  OBVIOUS
<1>3. nro \in Nro /\ t \in 1 .. TamMax /\ b \in Nat
  <2>1. nro \in Nro
    BY <1>2, NroNuevo DEF MemAlloc, Inv, TiposOK, TablasOK
  <2>2. QED
    BY <1>2, <2>1, TamanioAssumption DEF TamanioAssumption, Direccion
<1>4. /\ UNCHANGED <<estado, pedido, leido, espacio_memoria, segmentos_en_swap, archivo_swap>>
      /\ estado[p] = "ACTIVO" /\ pedido[p] = Ninguno /\ Hueco(b, t)
      /\ tabla' = Agrega(tabla, <<p, nro>>, v)
  BY <1>2 DEF MemAlloc, Instruye, swap
<1>1. OtrosIgual(p)
  BY <1>4, OtrosSinEscribir DEF Paso, Memoria
<1>nuevo. nro \in Nuevos
  BY <1>2, <1>3 DEF Nuevos, Nro
<1>5. Quiere(p) = Nada /\ Quiere(p)' = Nada
  BY <1>4, SinPedido
<1>6. Separados(p) /\ Separados(p)' /\ estado'[p] = "ACTIVO"
  BY <1>4 DEF Inv, Registros, Registro
<1>7. Lista(p) = <<>> /\ Lista(p)' = <<>>
  BY <1>4, <1>6 DEF Separados
<1>8. ~EnUso(p, nro) /\ EnUso(p, nro)' /\ tabla'[<<p, nro>>] = v
  <2>1. ~EnUso(p, nro)
    BY <1>3, <1>6, <1>nuevo DEF Separados
  <2>2. QED
    BY <1>4, <2>1 DEF EnUso, Agrega
<1>9. \A i \in Nro : i # nro => /\ EnUso(p, i)' <=> EnUso(p, i)
                                /\ EnUso(p, i) => tabla'[<<p, i>>] = tabla[<<p, i>>]
  <2>1. \A i \in Nro : i # nro => <<p, i>> # <<p, nro>>
    OBVIOUS
  <2>2. QED
    BY <1>4, <2>1, AgregaSitio
<1>10. Nros(p)' = Nros(p) \cup {nro} /\ nro \notin Nros(p)
  <2>1. Nros(p) = {i \in Nro : EnUso(p, i)} /\ Nros(p)' = {i \in Nro : EnUso(p, i)'}
    BY <1>7, SinLista
  <2>2. QED
    BY <1>3, <1>8, <1>9, <2>1
<1>11. Visto(p) /\ Visto(p)'
  BY VistoAhora, VistoDespues DEF Inv, TiposOK, TablasOK
<1>12. /\ Contenido(p) = [i \in Nros(p) |-> Contenido(p)[i]]
       /\ Contenido(p)' = [i \in Nros(p)' |-> Contenido(p)'[i]]
  BY <1>4, <1>6, <1>11 DEF Visto
<1>13. ASSUME NEW i \in Nros(p) PROVE Contenido(p)'[i] = Contenido(p)[i]
  <2>1. i \in Nro /\ EnUso(p, i) /\ i # nro
    BY <1>7, <1>10, <1>13 DEF Nros
  <2>2. QED
    BY <1>4, <1>6, <1>9, <2>1, MismoEspacio, PiezaEnTabla
<1>14. PICK c : c = Contenido(p)'[nro]
  OBVIOUS
<1>15. c \in [0 .. t - 1 -> Valor]
  <2>1. c = Bytes(p, nro)'
    BY <1>3, <1>6, <1>8, <1>11, <1>14 DEF Visto
  <2>2. Bytes(p, nro)' = [k \in 0 .. t - 1 |-> Byte(b + k)']
    BY <1>2, <1>8 DEF Bytes
  <2>3. ASSUME NEW k \in 0 .. t - 1 PROVE Byte(b + k)' \in Valor
    <3>1. b + k \in b .. b + t - 1
      BY <1>3
    <3>2. PICK a : a = b + k
      OBVIOUS
    <3>3. a \in Direccion
      BY <1>4, <3>1, <3>2 DEF Hueco, Libres
    <3>4. Byte(a) \in Valor /\ Byte(a)' = Byte(a)
      BY <1>4, <3>3, ByteTipo, MismoEspacio DEF Inv, TiposOK
    <3>5. QED
      BY <3>2, <3>4
  <2>4. QED
    BY <2>1, <2>2, <2>3
<1>16. DOMAIN Contenido(p) = Nros(p)
  BY <1>12
<1>17. Contenido(p)' = [i \in DOMAIN Contenido(p) \cup {nro} |-> IF i = nro THEN c ELSE Contenido(p)[i]]
  BY <1>10, <1>12, <1>13, <1>14, <1>16
<1>18. nro \notin DOMAIN Contenido(p) /\ Quiere(p)' = Quiere(p) /\ UNCHANGED leido
  BY <1>4, <1>5, <1>10, <1>16
<1>19. QED
  BY <1>1, <1>3, <1>15, <1>17, <1>18, EsCrea

LEMMA PierdeUno ==
    ASSUME Inv, Inv', NEW p \in Pid, OtrosIgual(p), estado[p] = "ACTIVO", pedido[p] = Ninguno,
           UNCHANGED <<estado, pedido, leido, espacio_memoria, segmentos_en_swap, archivo_swap>>,
           NEW nro \in Nro, EnUso(p, nro), tabla' = Quita(tabla, {<<p, nro>>})
    PROVE  Privada!Next
<1> USE OpDePeticion
<1>2. /\ UNCHANGED <<estado, pedido, leido, espacio_memoria, segmentos_en_swap, archivo_swap>>
      /\ estado[p] = "ACTIVO" /\ pedido[p] = Ninguno
      /\ tabla' = Quita(tabla, {<<p, nro>>})
  OBVIOUS
<1>3. Quiere(p) = Nada /\ Quiere(p)' = Nada
  BY <1>2, SinPedido
<1>4. Separados(p) /\ estado'[p] = "ACTIVO"
  BY <1>2 DEF Inv, Registros, Registro
<1>5. Lista(p) = <<>> /\ Lista(p)' = <<>>
  BY <1>2, <1>4 DEF Separados, Lista
<1>6. \A i \in Nro : /\ EnUso(p, i)' <=> EnUso(p, i) /\ i # nro
                     /\ EnUso(p, i) /\ i # nro => tabla'[<<p, i>>] = tabla[<<p, i>>]
  <2>1. \A i \in Nro : i # nro <=> <<p, i>> # <<p, nro>>
    OBVIOUS
  <2>2. QED
    BY <1>2, <2>1 DEF EnUso, Quita
<1>7. Nros(p)' = Nros(p) \ {nro}
  <2>1. Nros(p) = {i \in Nro : EnUso(p, i)} /\ Nros(p)' = {i \in Nro : EnUso(p, i)'}
    BY <1>5, SinLista
  <2>2. QED
    BY <1>6, <2>1
<1>8. Visto(p) /\ Visto(p)'
  BY VistoAhora, VistoDespues DEF Inv, TiposOK, TablasOK
<1>9. /\ Contenido(p) = [i \in Nros(p) |-> Contenido(p)[i]]
      /\ Contenido(p)' = [i \in Nros(p)' |-> Contenido(p)'[i]]
  BY <1>2, <1>4, <1>8 DEF Visto
<1>10. ASSUME NEW i \in Nros(p)' PROVE Contenido(p)'[i] = Contenido(p)[i]
  <2>1. i \in Nro /\ EnUso(p, i) /\ i # nro
    BY <1>5, <1>7, <1>10 DEF Nros
  <2>2. QED
    BY <1>2, <1>4, <1>6, <2>1, MismoEspacio, PiezaEnTabla
<1>11. DOMAIN Contenido(p) = Nros(p)
  BY <1>9
<1>12. Contenido(p)' = [i \in DOMAIN Contenido(p) \ {nro} |-> Contenido(p)[i]]
  BY <1>7, <1>9, <1>10, <1>11
<1>13. nro \in DOMAIN Contenido(p)
  BY <1>11 DEF Nros
<1>14. QED
  BY <1>2, <1>3, <1>12, <1>13, EsPierde

\* MEM_FREE takes one segment of its process from the table, or none.
LEMMA PasoFree ==
    ASSUME Inv, Inv', NEW p \in Pid, NEW id \in Id, MemFree(p, id)
    PROVE  Privada!Next \/ UNCHANGED Privada!vars
<1> USE OpDePeticion
<1>0. /\ UNCHANGED <<estado, pedido, leido, espacio_memoria, segmentos_en_swap, archivo_swap>>
      /\ estado[p] = "ACTIVO" /\ pedido[p] = Ninguno
  BY DEF MemFree, Instruye, swap
<1>1. OtrosIgual(p)
  BY <1>0, OtrosSinEscribir DEF Paso, Memoria
<1>entero. CASE UNCHANGED tabla
  <2>1. Contenido(p)' = Contenido(p)
    BY <1>0, <1>entero, ContenidoQuieto
  <2>2. Quiere(p)' = Quiere(p)
    BY <1>0, SinPedido
  <2>3. QED
    BY <1>0, <1>1, <2>1, <2>2, EsTartamudeo
<1>quita. CASE ~UNCHANGED tabla
  <2>1. PICK k \in DePid(p) : tabla' = Quita(tabla, {k})
    BY <1>quita DEF MemFree
  <2>2. k \in DOMAIN tabla /\ k \in Pid \X Nro /\ k[1] = p
    BY DEF DePid, Inv, TiposOK, TablasOK, TipoTablas, Parcial
  <2>3. PICK nro \in Nro : k = <<p, nro>>
    BY <2>2
  <2>4. EnUso(p, nro) /\ tabla' = Quita(tabla, {<<p, nro>>})
    BY <2>1, <2>2, <2>3 DEF EnUso
  <2>5. QED
    BY <1>0, <1>1, <2>4, PierdeUno
<1>fin. QED
  BY <1>entero, <1>quita

LEMMA ListaTipo == ASSUME Inv, NEW p \in Pid PROVE Lista(p) \in Seq(EntradaSwap)
BY DEF Inv, TiposOK, TablasOK, TipoTablas, Lista

\* A segment that goes to SWAP has there the bytes it had in the sticks.
LEMMA PasoGuarda ==
    ASSUME Inv, Inv', NEW p \in Pid, NEW nro \in Nro, GuardaSegmento(p, nro)
    PROVE  UNCHANGED Privada!vars
<1>2. /\ UNCHANGED <<estado, pedido, leido, espacio_memoria>> /\ estado[p] = "GUARDA"
      /\ EnUso(p, nro) /\ tabla' = Quita(tabla, {<<p, nro>>})
  BY DEF GuardaSegmento, EnUso
<1>3. pedido[p].op \in {"ninguno", "espera", "stdin", "stdout"}
  BY <1>2 DEF Inv, EsperaSegunEstado, OpSegunEstado
<1>1. OtrosIgual(p)
  BY <1>3, OtrosSinEscribir DEF Paso, Suspension
<1>4. Quiere(p)' = Quiere(p)
  <2>1. CASE pedido[p].op \in {"ninguno", "espera", "stdin"}
    BY <1>2, <2>1, SinPedido
  <2>2. CASE pedido[p].op = "stdout"
    <3>1. PICK r, e : r = pedido[p] /\ e = estado[p]
      OBVIOUS
    <3>2. ~EnHora(e, r) /\ r.op = "stdout"
      BY <1>2, <2>2, <3>1 DEF EnHora
    <3>3. Quiere(p) = QuiereEn(tabla, p, e, r) /\ Quiere(p)' = QuiereEn(tabla', p, e, r)
      BY <1>2, <3>1, QuiereAhora, QuiereDespues
    <3>4. QED
      BY <3>2, <3>3, QuiereAjeno
  <2>3. QED
    BY <1>3, <2>1, <2>2
<1>5. /\ \A b \in 0 .. proximo_bloque_swap - 1 : archivo_swap'[b] = archivo_swap[b]
      /\ \E e : e.nro = nro /\ Lista(p)' = Append(Lista(p), e) /\ Guardado(e)' = Bytes(p, nro)
  BY GuardaEs DEF Inv
<1>6. PICK L, M, e : L = Lista(p) /\ M = Lista(p)' /\ e.nro = nro /\ M = Append(L, e) /\ Guardado(e)' = Bytes(p, nro)
  BY <1>5
<1>7. L \in Seq(EntradaSwap)
  BY <1>6, ListaTipo
<1>8. /\ Len(L) \in Nat /\ DOMAIN L = 1 .. Len(L) /\ DOMAIN M = 1 .. Len(L) + 1
      /\ M[Len(L) + 1] = e /\ \A i \in 1 .. Len(L) : M[i] = L[i]
  BY <1>6, <1>7
<1>9. \A i \in Nro : /\ EnUso(p, i)' <=> EnUso(p, i) /\ i # nro
                     /\ EnUso(p, i) /\ i # nro => tabla'[<<p, i>>] = tabla[<<p, i>>]
  <2>1. \A i \in Nro : i # nro <=> <<p, i>> # <<p, nro>>
    OBVIOUS
  <2>2. QED
    BY <1>2, <2>1 DEF EnUso, Quita
<1>10. Nros(p)' = Nros(p)
  <2>1. \A x : (\E i \in DOMAIN M : M[i].nro = x) <=> x = nro \/ \E i \in DOMAIN L : L[i].nro = x
    BY <1>6, <1>8
  <2>ids. /\ \A x : x \in Nros(p) <=> (x \in Nro /\ EnUso(p, x)) \/ \E i \in DOMAIN L : L[i].nro = x
          /\ \A x : x \in Nros(p)' <=> (x \in Nro /\ EnUso(p, x)') \/ \E i \in DOMAIN M : M[i].nro = x
    <3>1. Nros(p)' = {x \in Nro : EnUso(p, x)'} \cup {M[i].nro : i \in DOMAIN M}
      BY <1>6 DEF Nros
    <3>2. Nros(p) = {x \in Nro : EnUso(p, x)} \cup {L[i].nro : i \in DOMAIN L}
      BY <1>6 DEF Nros
    <3>3. QED
      BY <3>1, <3>2
  <2>2. \A x : x \in Nros(p)' <=> x \in Nros(p)
    BY <1>2, <1>9, <2>1, <2>ids
  <2>3. PICK I, J : I = Nros(p) /\ J = Nros(p)'
    OBVIOUS
  <2>4. I = J
    BY <2>2, <2>3
  <2>5. QED
    BY <2>3, <2>4
<1>11. Visto(p) /\ Visto(p)' /\ estado[p] # "FIN" /\ estado'[p] # "FIN"
  BY <1>2, VistoAhora, VistoDespues DEF Inv, TiposOK, TablasOK
<1>12. /\ Contenido(p) = [i \in Nros(p) |-> Contenido(p)[i]]
       /\ Contenido(p)' = [i \in Nros(p)' |-> Contenido(p)'[i]]
  BY <1>11 DEF Visto
<1>13. Contenido(p)'[nro] = Contenido(p)[nro]
  <2>1. Contenido(p)[nro] = Bytes(p, nro)
    BY <1>2, <1>11 DEF Visto
  <2>2. \A x \in DOMAIN M : Contenido(p)'[M[x].nro] = [k \in 0 .. M[x].tamanio - 1 |-> DeSwap(M[x], k)']
    BY <1>6, <1>11 DEF Visto, Guardado
  <2>3. Contenido(p)'[e.nro] = [k \in 0 .. e.tamanio - 1 |-> DeSwap(e, k)']
    BY <1>8, <2>2
  <2>4. Guardado(e)' = [k \in 0 .. e.tamanio - 1 |-> DeSwap(e, k)']
    BY DEF Guardado
  <2>5. QED
    BY <1>6, <2>1, <2>3, <2>4
<1>14. ASSUME NEW i \in Nro, EnUso(p, i), i # nro PROVE Contenido(p)'[i] = Contenido(p)[i]
  BY <1>2, <1>9, <1>11, <1>14, MismoEspacio, PiezaEnTabla
<1>15. ASSUME NEW i \in DOMAIN L PROVE Contenido(p)'[L[i].nro] = Contenido(p)[L[i].nro]
  <2>1. PICK x : x = L[i]
    OBVIOUS
  <2>2. x \in EnSwap(p) /\ TipoTablas /\ BloquesPropios
    BY <1>6, <2>1 DEF EnSwap, Lista, Inv, TiposOK, TablasOK
  <2>3. Guardado(x)' = Guardado(x)
    BY <1>5, <2>2, GuardadoQueda
  <2>4. PICK j : j = i
    OBVIOUS
  <2>5. i \in DOMAIN Lista(p) /\ j \in DOMAIN Lista(p)' /\ x = Lista(p)[i] /\ x = Lista(p)'[j]
    BY <1>6, <1>8, <2>1, <2>4
  <2>6. QED
    BY <1>11, <2>1, <2>3, <2>5, PiezaEnSwap
<1>16. \A i \in Nros(p) : Contenido(p)'[i] = Contenido(p)[i]
  <2>1. Nros(p) = {x \in Nro : EnUso(p, x)} \cup {L[i].nro : i \in DOMAIN L}
    BY <1>6 DEF Nros
  <2>2. QED
    BY <1>13, <1>14, <1>15, <2>1
<1>17. Contenido(p)' = Contenido(p)
  BY <1>10, <1>12, <1>16
<1>18. QED
  BY <1>1, <1>2, <1>4, <1>17, EsTartamudeo

\* A segment that comes back has the bytes it had in SWAP; one with no hole is lost.
LEMMA PasoRestaura ==
    ASSUME Inv, Inv', NEW p \in Pid, RestauraSegmento(p)
    PROVE  Privada!Next \/ UNCHANGED Privada!vars
<1>2. /\ Lista(p) # <<>> /\ Lista(p)' = Tail(Lista(p)) /\ estado[p] = "VUELVE"
      /\ UNCHANGED <<estado, pedido, leido, archivo_swap>>
      /\ UNCHANGED <<tabla, espacio_memoria>> \/ \E b \in Direccion : Vuelta(p, b)
  BY QueRestaura DEF Inv
<1>3. pedido[p].op = "ninguno"
  BY <1>2 DEF Inv, EsperaSegunEstado, OpSegunEstado
<1>1. OtrosIgual(p)
  BY <1>3, OtrosSinEscribir DEF Paso, Suspension
<1>4. Quiere(p)' = Quiere(p)
  BY <1>2, <1>3, SinPedido
<1>5. PICK L, M, e, y : L = Lista(p) /\ M = Lista(p)' /\ e = Head(L) /\ M = Tail(L) /\ y = e.nro
  BY <1>2
<1>ids. /\ \A x : x \in Nros(p) <=> (x \in Nro /\ EnUso(p, x)) \/ \E i \in DOMAIN L : L[i].nro = x
        /\ \A x : x \in Nros(p)' <=> (x \in Nro /\ EnUso(p, x)') \/ \E i \in DOMAIN M : M[i].nro = x
  <2>1. Nros(p)' = {x \in Nro : EnUso(p, x)'} \cup {M[i].nro : i \in DOMAIN M}
    BY <1>5 DEF Nros
  <2>2. Nros(p) = {x \in Nro : EnUso(p, x)} \cup {L[i].nro : i \in DOMAIN L}
    BY <1>5 DEF Nros
  <2>3. QED
    BY <2>1, <2>2
<1>6. L \in Seq(EntradaSwap) /\ L # <<>>
  BY <1>2, <1>5, ListaTipo
<1>7. /\ Len(L) \in Nat \ {0} /\ DOMAIN L = 1 .. Len(L) /\ DOMAIN M = 1 .. Len(L) - 1
      /\ e = L[1] /\ \A i \in 1 .. Len(L) - 1 : M[i] = L[i + 1]
  BY <1>5, <1>6, EmptySeq, HeadTailProperties
<1>8. /\ \A i, j \in DOMAIN L : L[i].nro = L[j].nro => i = j
      /\ \A i \in DOMAIN L : ~EnUso(p, L[i].nro)
  BY <1>5 DEF Inv, Registros, Registro, Separados
<1>9. e \in EntradaSwap /\ y \in Nro /\ e.tamanio \in Nat
  <2>1. \A i \in DOMAIN L : L[i] \in EntradaSwap
    BY <1>6
  <2>2. e \in EntradaSwap
    BY <1>7, <2>1
  <2>3. QED
    BY <1>5, <2>2, Numeros DEF EntradaSwap
<1>10. \A x : (\E i \in DOMAIN L : L[i].nro = x) <=> x = y \/ \E i \in DOMAIN M : M[i].nro = x
  <2>1. ASSUME NEW i \in DOMAIN L, i # 1 PROVE i - 1 \in DOMAIN M /\ M[i - 1] = L[i]
    BY <1>7, <2>1
  <2>2. \A i \in DOMAIN M : i + 1 \in DOMAIN L /\ M[i] = L[i + 1]
    BY <1>7
  <2>3. 1 \in DOMAIN L /\ L[1].nro = y
    BY <1>5, <1>7
  <2>4. QED
    BY <2>1, <2>2, <2>3
<1>11. \A i \in DOMAIN M : M[i].nro # y
  BY <1>5, <1>7, <1>8
<1>12. Visto(p) /\ Visto(p)' /\ estado[p] # "FIN" /\ estado'[p] # "FIN"
  BY <1>2, VistoAhora, VistoDespues DEF Inv, TiposOK, TablasOK
<1>13. /\ Contenido(p) = [i \in Nros(p) |-> Contenido(p)[i]]
       /\ Contenido(p)' = [i \in Nros(p)' |-> Contenido(p)'[i]]
  BY <1>12 DEF Visto
<1>14. y \in Nros(p) /\ ~EnUso(p, y)
  BY <1>5, <1>7, <1>8, <1>10, <1>ids
<1>15. ASSUME NEW j \in DOMAIN M PROVE Contenido(p)'[M[j].nro] = Contenido(p)[M[j].nro]
  <2>1. PICK x, i : x = M[j] /\ i = j + 1
    OBVIOUS
  <2>2. Guardado(x)' = Guardado(x)
    BY <1>2, MismoArchivo
  <2>3. i \in DOMAIN Lista(p) /\ j \in DOMAIN Lista(p)' /\ x = Lista(p)[i] /\ x = Lista(p)'[j]
    BY <1>5, <1>7, <2>1
  <2>4. estado[p] # "FIN" /\ estado'[p] # "FIN"
    BY <1>12
  <2>5. Contenido(p)'[x.nro] = Contenido(p)[x.nro]
    BY <2>2, <2>3, <2>4, PiezaEnSwap
  <2>6. QED
    BY <2>1, <2>5
<1>16. CASE UNCHANGED <<tabla, espacio_memoria>>
  <2>1. \A i \in Nro : EnUso(p, i)' <=> EnUso(p, i)
    BY <1>16 DEF EnUso
  <2>2. Nros(p)' = Nros(p) \ {y}
    <3>1. \A x : x \in Nros(p)' <=> x \in Nros(p) /\ x # y
      BY <1>10, <1>11, <1>14, <2>1, <1>ids
    <3>2. PICK I, J : I = Nros(p) /\ J = Nros(p)'
      OBVIOUS
    <3>3. J = I \ {y}
      BY <3>1, <3>2
    <3>4. QED
      BY <3>2, <3>3
  <2>3. ASSUME NEW i \in Nro, EnUso(p, i) PROVE Contenido(p)'[i] = Contenido(p)[i]
    BY <1>12, <1>16, <2>1, <2>3, MismoEspacio, PiezaEnTabla
  <2>4. \A i \in Nros(p)' : Contenido(p)'[i] = Contenido(p)[i]
    BY <1>15, <2>1, <2>3, <1>ids
  <2>5. DOMAIN Contenido(p) = Nros(p)
    BY <1>13
  <2>6. Contenido(p)' = [i \in DOMAIN Contenido(p) \ {y} |-> Contenido(p)[i]]
    BY <1>13, <2>2, <2>4, <2>5
  <2>7. QED
    BY <1>1, <1>2, <1>4, <1>9, <1>14, <2>5, <2>6, EsPierde
<1>17. ASSUME NEW b \in Direccion, Vuelta(p, b) PROVE UNCHANGED Privada!vars
  <2>1. /\ \A k \in DOMAIN tabla : \A a \in Rango(tabla, k) : Byte(a)' = Byte(a)
        /\ \A k \in 0 .. e.tamanio - 1 : Byte(b + k)' = DeSwap(e, k)
    BY <1>2, <1>5, <1>17, VueltaFuera DEF Inv
  <2>2. PICK v : v = [id |-> e.id, base |-> b, tamanio |-> e.tamanio]
    OBVIOUS
  <2>3. tabla' = Agrega(tabla, <<p, y>>, v)
    BY <1>5, <1>17, <2>2 DEF Vuelta
  <2>4. EnUso(p, y)' /\ tabla'[<<p, y>>] = v
    BY <2>3 DEF EnUso, Agrega
  <2>5. \A i \in Nro : i # y => /\ EnUso(p, i)' <=> EnUso(p, i)
                                /\ EnUso(p, i) => tabla'[<<p, i>>] = tabla[<<p, i>>]
    <3>1. \A i \in Nro : i # y => <<p, i>> # <<p, y>>
      OBVIOUS
    <3>2. QED
      BY <2>3, <3>1, AgregaSitio
  <2>6. Nros(p)' = Nros(p)
    <3>1. \A x : x \in Nros(p)' <=> x \in Nros(p)
      BY <1>9, <1>10, <1>14, <2>4, <2>5, <1>ids
    <3>2. PICK I, J : I = Nros(p) /\ J = Nros(p)'
      OBVIOUS
    <3>3. J = I
      BY <3>1, <3>2
    <3>4. QED
      BY <3>2, <3>3
  <2>7. ASSUME NEW i \in Nro, EnUso(p, i) PROVE Contenido(p)'[i] = Contenido(p)[i]
    <3>1. i # y
      BY <1>14, <2>7
    <3>2. <<p, i>> \in DOMAIN tabla
      BY <2>7 DEF EnUso
    <3>3. QED
      BY <1>12, <2>1, <2>5, <2>7, <3>1, <3>2, PiezaEnTabla
  <2>8. Contenido(p)'[y] = Contenido(p)[y]
    <3>1. Contenido(p)[y] = [k \in 0 .. e.tamanio - 1 |-> DeSwap(e, k)]
      <4>1. \A i \in DOMAIN L : Contenido(p)[L[i].nro] = [k \in 0 .. L[i].tamanio - 1 |-> DeSwap(L[i], k)]
        BY <1>5, <1>12 DEF Visto, Guardado
      <4>2. 1 \in DOMAIN L
        BY <1>7
      <4>3. QED
        BY <1>5, <1>7, <4>1, <4>2
    <3>3. Contenido(p)'[y] = Bytes(p, y)'
      BY <1>9, <1>12, <2>4 DEF Visto
    <3>4. tabla'[<<p, y>>].base = b /\ tabla'[<<p, y>>].tamanio = e.tamanio
      BY <2>2, <2>4
    <3>5. Bytes(p, y)' = [k \in 0 .. e.tamanio - 1 |-> Byte(b + k)']
      BY <3>4 DEF Bytes
    <3>6. QED
      BY <2>1, <3>1, <3>3, <3>5
  <2>9. \A i \in Nros(p) : Contenido(p)'[i] = Contenido(p)[i]
    <3> SUFFICES ASSUME NEW i \in Nros(p) PROVE Contenido(p)'[i] = Contenido(p)[i]
      OBVIOUS
    <3>1. (i \in Nro /\ EnUso(p, i)) \/ \E j \in DOMAIN L : L[j].nro = i
      BY <1>ids
    <3>2. (i \in Nro /\ EnUso(p, i)) \/ i = y \/ \E j \in DOMAIN M : M[j].nro = i
      BY <1>10, <3>1
    <3>3. QED
      BY <1>15, <2>7, <2>8, <3>2
  <2>10. Contenido(p)' = Contenido(p)
    BY <1>13, <2>6, <2>9
  <2>11. QED
    BY <1>1, <1>2, <1>4, <2>10, EsTartamudeo
<1>18. QED
  BY <1>2, <1>16, <1>17

LEMMA PasoPrivada ==
    ASSUME Inv, Inv', NEW p \in Pid, Paso(p)
    PROVE  Privada!Next \/ UNCHANGED Privada!vars
<1>1. CASE Instruccion(p)
  BY <1>1, PasoInstruccion
<1>2. CASE Memoria(p)
  <2>1. CASE Lee(p)
    BY <2>1, PasoLee, PasoLeeAjeno
  <2>2. CASE Escribe(p)
    BY <2>2, PasoEscribe, PasoEscribeAjeno
  <2>3. CASE Sale(p)
    BY <2>3, PasoSale
  <2>4. CASE \E id \in Id : MemFree(p, id)
    BY <2>4, PasoFree
  <2>5. CASE \E r \in Pedidos, b \in Direccion : MemAlloc(p, r[1], r[2], b)
    BY <2>5, PasoAlloc
  <2>6. QED
    BY <1>2, <2>1, <2>2, <2>3, <2>4, <2>5 DEF Memoria
<1>3. CASE Suspension(p)
  <2>1. CASE \/ FinIO(p) \/ \E v \in Valor : FinStdin(p, v)
             \/ Suspende(p) \/ TerminaGuardar(p) \/ Desuspende(p) \/ TerminaVolver(p)
    BY <2>1, PasoQuieto
  <2>2. CASE \E nro \in Nro : GuardaSegmento(p, nro)
    BY <2>2, PasoGuarda
  <2>3. CASE RestauraSegmento(p)
    BY <2>3, PasoRestaura
  <2>4. QED
    BY <1>3, <2>1, <2>2, <2>3 DEF Suspension
<1>4. QED
  BY <1>1, <1>2, <1>3 DEF Paso

LEMMA InvInit == Init => Inv
<1> SUFFICES ASSUME Init PROVE Inv
  OBVIOUS
<1> USE OpDePeticion
<1>1. \A p \in Pid : pedido[p] = Ninguno /\ estado[p] = "ACTIVO" /\ Lista(p) = <<>> /\ \A nro \in Nro : ~EnUso(p, nro)
  BY DEF Init, Lista, EnUso
<1>2. EsperaSegunEstado
  BY <1>1 DEF EsperaSegunEstado, OpSegunEstado
<1>3. Registros
  BY <1>1 DEF Registros, Registro, Separados, Vigente, Pendiente, Lectura
<1>4. QED
  BY <1>2, <1>3, TiposInit DEF Inv

LEMMA InvNext ==
    ASSUME Inv, [Next]_vars
    PROVE  Inv'
<1>1. TiposOK'
  BY TipoTablasNext, SolaparseNext, BloquesNext, TipoProcesoNext, PcbNext, PedidoNext, BytesNext DEF Inv, TiposOK, TablasOK
<1>2. EsperaSegunEstado'
  BY EsperaNext DEF Inv, TiposOK, TablasOK
<1>3. CASE UNCHANGED vars \/ Fin
  <2>1. UNCHANGED vars
    BY <1>3 DEF Fin
  <2>2. \A p \in Pid : Aparte(p)
    BY <2>1 DEF vars, swap, Aparte, MismoSitio, Lista, EnUso, Nuevos
  <2>3. Registros'
    BY <2>2, AparteRegistro DEF Inv, Registros, TiposOK, TablasOK
  <2>4. QED
    BY <1>1, <1>2, <2>3 DEF Inv
<1>4. ASSUME NEW p \in Pid, Paso(p) PROVE Inv'
  BY <1>1, <1>2, <1>4, RegistrosNext DEF Inv
<1>5. QED
  BY <1>3, <1>4 DEF Next, Paso

LEMMA PrivadaInit == Init => Privada!Init
<1> SUFFICES ASSUME Init PROVE Privada!Init
  OBVIOUS
<1>1. Inv
  BY InvInit
<1>2. ASSUME NEW p \in Pid PROVE Contenido(p) = <<>> /\ Quiere(p) = Nada
  <2>1. Visto(p)
    BY <1>1, VistoAhora DEF Inv, TiposOK, TablasOK
  <2>2. /\ pedido[p] = Ninguno /\ estado[p] = "ACTIVO" /\ Lista(p) = <<>> /\ \A nro \in Nro : ~EnUso(p, nro)
    BY DEF Init, Lista, EnUso
  <2>3. Nros(p) = {}
    BY <2>2 DEF Nros
  <2>4. Contenido(p) = <<>>
    BY <2>1, <2>2, <2>3 DEF Visto
  <2>5. QED
    BY <2>2, <2>4, OpDePeticion, QuiereAhora, QuiereNada
<1>3. leido = [p \in Pid |-> <<>>]
  BY DEF Init
<1>4. QED
  BY <1>2, <1>3 DEF Privada!Init, Privada!Nada, Nada

LEMMA PrivadaNext ==
    ASSUME Inv, Inv', [Next]_vars
    PROVE  [Privada!Next]_(Privada!vars)
<1>1. CASE UNCHANGED vars \/ Fin
  <2>1. UNCHANGED vars
    BY <1>1 DEF Fin
  <2>2. UNCHANGED <<tabla, espacio_memoria, segmentos_en_swap, archivo_swap, estado, pcb, pedido, leido>>
    BY <2>1 DEF vars, swap
  <2>3. \A p \in Pid : Contenido(p)' = Contenido(p)
    BY <2>2, ContenidoQuieto
  <2>4. \A p \in Pid : Quiere(p)' = Quiere(p)
    BY <2>2, QuiereAhora, QuiereDespues
  <2>5. QED
    BY <2>2, <2>3, <2>4 DEF Privada!vars
<1>2. ASSUME NEW p \in Pid, Paso(p) PROVE [Privada!Next]_(Privada!vars)
  BY <1>2, PasoPrivada
<1>3. QED
  BY <1>1, <1>2 DEF Next, Paso

\* Each program sees a memory of its own: what it reads is what it wrote, whatever the
\* others do, wherever the sticks end and however often it goes to SWAP and back.  Only
\* what kernel_memory serves with a base of another time reads, or changes, other bytes.
THEOREM PrivadaCorrecta == Spec => CumpleMemoriaPrivada
<1>1. Inv /\ [Next]_vars => Inv'
  BY InvNext
<1>2. Inv /\ Inv' /\ [Next]_vars => [Privada!Next]_(Privada!vars)
  BY PrivadaNext
<1>3. QED
  BY InvInit, PrivadaInit, <1>1, <1>2, PTL DEF Spec, CumpleMemoriaPrivada, Privada!Spec

\* A request that the MMU translated with the bases of the table is served inside the
\* segments of its process, if no timer passes before the text of a STDOUT is read.
THEOREM VigenteCorrecto ==
    ASSUME ~SuspensionCorta
    PROVE  Spec => []AccesoVigente
<1>1. Inv => AccesoVigente
  <2> SUFFICES ASSUME Inv, NEW p \in Pid, pedido[p].al_dia PROVE AServir(p) \subseteq Propio(p)
    BY DEF AccesoVigente
  <2>1. ASSUME NEW dir, NEW n, EnUno(p, dir, n) PROVE Tramo(dir, n) \subseteq Propio(p)
    <3>1. PICK nro \in Nro : EnUso(p, nro) /\ Tramo(dir, n) \subseteq Rango(tabla, <<p, nro>>)
      BY <2>1 DEF EnUno
    <3>2. PICK k \in DePid(p) : k = <<p, nro>>
      BY <3>1 DEF DePid, EnUso
    <3>3. Ocupa(k[1], k[2]) = Rango(tabla, <<p, nro>>)
      BY <3>2 DEF Ocupa, Rango
    <3>4. QED
      BY <3>1, <3>3 DEF Propio
  <2>2. CASE Pendiente(p)
    <3>1. Bien(p, pedido[p])
      BY <2>2 DEF Inv, Registros, Registro, Vigente
    <3>2. QED
      BY <2>1, <3>1 DEF Bien, AServir
  <2>3. CASE ~Pendiente(p)
    <3>1. OpSegunEstado(estado[p], pedido[p].op) /\ estado[p] \in Estado
      BY DEF Inv, EsperaSegunEstado, TiposOK, TablasOK, TipoProceso
    <3>2. pedido[p].op \notin Lectura \cup {"escribir"} /\ ~(pedido[p].op = "stdin" /\ estado[p] = "BLOCK")
      BY <2>3, <3>1 DEF Pendiente, OpSegunEstado, Lectura, Estado
    <3>3. AServir(p) = {}
      BY <3>2 DEF AServir, Lectura
    <3>4. QED
      BY <3>3
  <2>4. QED
    BY <2>2, <2>3
<1>2. Inv /\ [Next]_vars => Inv'
  BY InvNext
<1>3. QED
  BY InvInit, <1>1, <1>2, PTL DEF Spec

=============================================================================

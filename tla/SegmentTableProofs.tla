------------------------- MODULE SegmentTableProofs -------------------------
(***************************************************************************)
(* The table of segments divides the memory of the sticks, whatever the    *)
(* requests did to it, for any processes, sizes, sticks and either         *)
(* strategy, when the sticks connect before the requests.  The invariant   *)
(* (IInv) says what the list is (TablaOK), that the sticks have left one   *)
(* hole before the first request (Arranque), and that a process in SWAP    *)
(* has nothing in the table (SwapOK).                                      *)
(***************************************************************************)
EXTENDS ListaProofs

Dentro == {s \in Stick : pc_stick[s] = "dentro"}
TodosDentro == \A s \in Stick : pc_stick[s] = "dentro"

Formas ==
    /\ estrategia \in {"BEST", "WORST"}
    /\ memoria_total \in Nat
    /\ pc_stick \in [Stick -> {"fuera", "en_sticks", "dentro"}]
    /\ base_global \in [Stick -> 0 .. memoria_total]
    /\ respuesta \in Nat \X BOOLEAN

\* At most one stick is registered and not yet in the table.
SticksOK ==
    /\ IsFiniteSet(Unidades(Tamanio, Dentro))
    /\ \A s \in Stick : pc_stick[s] = "en_sticks" =>
            base_global[s] = EnTabla /\ memoria_total = EnTabla + Tamanio[s]
    /\ \A r, s \in Stick : pc_stick[r] = "en_sticks" /\ pc_stick[s] = "en_sticks" => r = s
    /\ ~SticksTomado => memoria_total = EnTabla

TablaOK == Sano(tabla, EnTabla) /\ De(tabla, DOMAIN tabla) = 0 .. EnTabla - 1

Arranque ==
    ~TodosDentro =>
        /\ (tabla = <<>> /\ EnTabla = 0) \/ tabla = <<Hueco(0, EnTabla)>>
        /\ pedido = Nadie /\ DOMAIN segmentos_en_swap = {}

\* Between the compaction and the second search there is one hole.
PedidoOK ==
    pedido # Nadie =>
        /\ pedido \in [paso : {"compactar", "moviendo", "reasignar"}, pid : Pid, id : Id, tam : Tam]
        /\ ~EnSwap(pedido.pid)
        /\ pedido.paso = "reasignar" => \E k \in DOMAIN tabla : Libres(tabla) = {k}

SwapOK ==
    /\ DOMAIN segmentos_en_swap \subseteq Pid
    /\ \A p \in DOMAIN segmentos_en_swap :
            DePid(tabla, p) = {} /\ segmentos_en_swap[p] \in Seq(DeVuelta(p, EnTabla))

IInv == Formas /\ SticksOK /\ TablaOK /\ Arranque /\ PedidoOK /\ SwapOK

-----------------------------------------------------------------------------
(* The sticks.                                                              *)

\* One stick more adds its size.
LEMMA UnStickMas ==
    ASSUME NEW D \in SUBSET Stick, IsFiniteSet(Unidades(Tamanio, D)), NEW s \in Stick, s \notin D
    PROVE  /\ IsFiniteSet(Unidades(Tamanio, D \cup {s}))
           /\ Suma(Tamanio, D) \in Nat
           /\ Suma(Tamanio, D \cup {s}) = Suma(Tamanio, D) + Tamanio[s]
<1> DEFINE J == {s} \X (1 .. Tamanio[s])
           U == Unidades(Tamanio, D)
           V == Unidades(Tamanio, D \cup {s})
<1>1. Tamanio[s] \in Nat
  BY TamAssumption DEF TamAssumption
<1>2. IsFiniteSet(J) /\ Cardinality(J) = Tamanio[s]
  <2>1. IsFiniteSet({s}) /\ Cardinality({s}) = 1
    BY FS_Singleton
  <2>2. IsFiniteSet(1 .. Tamanio[s]) /\ Cardinality(1 .. Tamanio[s]) = Tamanio[s]
    BY <1>1, Hasta
  <2>3. IsFiniteSet(J) /\ Cardinality(J) = Cardinality({s}) * Cardinality(1 .. Tamanio[s])
    BY <2>1, <2>2, FS_Product
  <2>4. 1 * Tamanio[s] = Tamanio[s]
    BY <1>1
  <2>5. QED
    BY <2>1, <2>2, <2>3, <2>4
<1>3. U \cap J = {}
  <2>1. ASSUME NEW u \in J, u \in U PROVE FALSE
    BY <2>1, EnUnidades
  <2>2. QED
    BY <2>1
<1>4. V = U \cup J
  <2>1. ASSUME NEW u PROVE u \in V <=> u \in U \/ u \in J
    <3>1. u \in V <=> \E k \in D \cup {s} : u \in {k} \X (1 .. Tamanio[k])
      BY EnUnidades
    <3>2. u \in U <=> \E k \in D : u \in {k} \X (1 .. Tamanio[k])
      BY EnUnidades
    <3> HIDE DEF U, V
    <3>3. QED
      BY <3>1, <3>2
  <2>2. QED
    BY <2>1
<1> HIDE DEF U, V, J
<1>5. Cardinality(U) \in Nat /\ IsFiniteSet(U)
  BY FS_CardinalityType DEF U
<1>6. IsFiniteSet(V) /\ Cardinality(V) = Cardinality(U) + Cardinality(J) - Cardinality(U \cap J)
  BY <1>2, <1>4, <1>5, FS_Union
<1>7. Cardinality(U \cap J) = 0
  BY <1>3, FS_EmptySet
<1>8. Suma(Tamanio, D) = Cardinality(U) /\ Suma(Tamanio, D \cup {s}) = Cardinality(V)
  BY DEF Suma, Unidades, U, V
<1>9. QED
  BY <1>1, <1>2, <1>5, <1>6, <1>7, <1>8 DEF V

LEMMA EnTablaEs == EnTabla = Suma(Tamanio, Dentro)
BY DEF EnTabla, Dentro

LEMMA EnTablaNat == SticksOK => EnTabla \in Nat
<1>1. SticksOK => EnTabla = Cardinality(Unidades(Tamanio, Dentro)) /\ IsFiniteSet(Unidades(Tamanio, Dentro))
  BY EnTablaEs DEF SticksOK, Suma, Unidades
<1>2. QED
  BY <1>1, FS_CardinalityType

LEMMA InicioEs == Init => IInv
<1> SUFFICES ASSUME Init PROVE IInv
  OBVIOUS
<1> USE DEF Init
<1>1. Dentro = {}
  BY DEF Dentro
<1>2. Unidades(Tamanio, Dentro) = {} /\ EnTabla = Cardinality(Unidades(Tamanio, Dentro))
  BY <1>1, EnTablaEs DEF Unidades, Suma
<1>3. IsFiniteSet(Unidades(Tamanio, Dentro)) /\ EnTabla = 0
  BY <1>2, FS_EmptySet
<1>4. tabla = <<>>
  BY DEF tabla
<1>5. DOMAIN segmentos_en_swap = {}
  OBVIOUS
<1>6. Formas
  <2>1. base_global \in [Stick -> 0 .. memoria_total]
    <3>1. 0 \in 0 .. memoria_total
      OBVIOUS
    <3>2. QED
      BY <3>1
  <2>2. respuesta \in Nat \X BOOLEAN
    OBVIOUS
  <2>3. pc_stick \in [Stick -> {"fuera", "en_sticks", "dentro"}]
    OBVIOUS
  <2>4. QED
    BY <2>1, <2>2, <2>3 DEF Formas
<1>7. SticksOK
  BY <1>3 DEF SticksOK
<1>8. TablaOK
  BY <1>3, <1>4, ListaVacia DEF TablaOK
<1>9. Arranque
  BY <1>3, <1>4, <1>5 DEF Arranque
<1>10. PedidoOK
  BY DEF PedidoOK
<1>11. SwapOK
  BY <1>5 DEF SwapOK
<1>12. QED
  BY <1>6, <1>7, <1>8, <1>9, <1>10, <1>11 DEF IInv

LEMMA LlegaStickConserva ==
    ASSUME IInv, NEW s \in Stick, LlegaStick(s)
    PROVE  IInv'
<1>1. Formas /\ SticksOK /\ TablaOK /\ Arranque /\ PedidoOK /\ SwapOK
  BY DEF IInv
<1>2. /\ UNCHANGED <<estrategia, tabla, pedido, segmentos_en_swap, respuesta>>
      /\ pc_stick[s] = "fuera" /\ ~SticksTomado
      /\ base_global' = [base_global EXCEPT ![s] = memoria_total]
      /\ memoria_total' = memoria_total + Tamanio[s]
      /\ pc_stick' = [pc_stick EXCEPT ![s] = "en_sticks"]
  BY DEF LlegaStick
<1>3. memoria_total \in Nat /\ Tamanio[s] \in Nat /\ EnTabla = memoria_total
  BY <1>1, <1>2, TamAssumption DEF TamAssumption, Formas, SticksOK
<1>4. pc_stick \in [Stick -> {"fuera", "en_sticks", "dentro"}] /\ base_global \in [Stick -> 0 .. memoria_total]
  BY <1>1 DEF Formas
<1>5. Dentro' = Dentro
  <2>1. ASSUME NEW r \in Stick PROVE pc_stick'[r] = "dentro" <=> pc_stick[r] = "dentro"
    BY <1>2, <1>4
  <2>2. QED
    BY <2>1 DEF Dentro
<1>6. EnTabla' = EnTabla
  BY <1>5 DEF EnTabla, Dentro
<1>7. Formas'
  <2>1. memoria_total' \in Nat /\ memoria_total \in 0 .. memoria_total'
    BY <1>2, <1>3
  <2>2. \A r \in Stick : base_global[r] \in 0 .. memoria_total'
    BY <1>2, <1>3, <1>4
  <2>3. base_global' \in [Stick -> 0 .. memoria_total']
    BY <1>2, <1>4, <2>1, <2>2
  <2>4. pc_stick' \in [Stick -> {"fuera", "en_sticks", "dentro"}]
    BY <1>2, <1>4
  <2>5. QED
    BY <1>1, <1>2, <2>1, <2>3, <2>4 DEF Formas
<1>8. SticksOK'
  <2>1. \A r \in Stick : pc_stick'[r] = "en_sticks" <=> r = s
    BY <1>2, <1>4 DEF SticksTomado
  <2>2. base_global'[s] = EnTabla' /\ memoria_total' = EnTabla' + Tamanio[s]
    BY <1>2, <1>3, <1>4, <1>6
  <2>3. SticksTomado'
    BY <2>1 DEF SticksTomado
  <2>4. IsFiniteSet(Unidades(Tamanio, Dentro'))
    BY <1>1, <1>5 DEF SticksOK
  <2>5. QED
    BY <2>1, <2>2, <2>3, <2>4 DEF SticksOK
<1>9. TablaOK'
  BY <1>1, <1>2, <1>6 DEF TablaOK
<1>10. Arranque'
  <2>1. ~TodosDentro
    BY <1>2 DEF TodosDentro
  <2>2. QED
    BY <1>1, <1>2, <1>6, <2>1 DEF Arranque
<1>11. PedidoOK'
  BY <1>1, <1>2 DEF PedidoOK, EnSwap
<1>12. SwapOK'
  BY <1>1, <1>2, <1>6 DEF SwapOK
<1>13. QED
  BY <1>7, <1>8, <1>9, <1>10, <1>11, <1>12 DEF IInv

\* The table was empty or one hole, and is one hole with the units of the stick too.
LEMMA ActualizaHuecoEs ==
    ASSUME IInv, NEW s \in Stick, ActualizaHueco(s)
    PROVE  /\ EnTabla \in Nat /\ EnTabla' = EnTabla + Tamanio[s] /\ Tamanio[s] \in Nat \ {0}
           /\ (tabla = <<>> /\ EnTabla = 0) \/ tabla = <<Hueco(0, EnTabla)>>
           /\ tabla' = <<Hueco(0, EnTabla')>>
           /\ memoria_total = EnTabla' /\ IsFiniteSet(Unidades(Tamanio, Dentro'))
           /\ pedido = Nadie /\ DOMAIN segmentos_en_swap = {}
<1>1. Formas /\ SticksOK /\ Arranque
  BY DEF IInv
<1>2. /\ pc_stick[s] = "en_sticks" /\ pc_stick' = [pc_stick EXCEPT ![s] = "dentro"]
      /\ tabla' = IF tabla # <<>> /\ Libre(tabla[Len(tabla)])
                  THEN [tabla EXCEPT ![Len(tabla)].tam = @ + Tamanio[s]]
                  ELSE Append(tabla, Hueco(base_global[s], Tamanio[s]))
  BY DEF ActualizaHueco, tabla
<1>3. EnTabla \in Nat /\ Tamanio[s] \in Nat \ {0} /\ base_global[s] = EnTabla /\ memoria_total = EnTabla + Tamanio[s]
  BY <1>1, <1>2, EnTablaNat, TamAssumption DEF TamAssumption, SticksOK
<1>4. ~TodosDentro
  BY <1>2 DEF TodosDentro
<1>5. /\ (tabla = <<>> /\ EnTabla = 0) \/ tabla = <<Hueco(0, EnTabla)>>
      /\ pedido = Nadie /\ DOMAIN segmentos_en_swap = {}
  BY <1>1, <1>4 DEF Arranque
<1>6. Dentro' = Dentro \cup {s} /\ s \notin Dentro
  BY <1>1, <1>2 DEF Dentro, Formas
<1>7. EnTabla' = EnTabla + Tamanio[s] /\ IsFiniteSet(Unidades(Tamanio, Dentro'))
  <2>1. Dentro \in SUBSET Stick /\ IsFiniteSet(Unidades(Tamanio, Dentro))
    BY <1>1 DEF SticksOK, Dentro
  <2>2. EnTabla' = Suma(Tamanio, Dentro')
    BY DEF EnTabla, Dentro
  <2>3. QED
    BY <1>6, <2>1, <2>2, EnTablaEs, UnStickMas
<1>8. tabla' = <<Hueco(0, EnTabla')>>
  <2>1. CASE tabla = <<>> /\ EnTabla = 0
    <3>1. tabla' = Append(<<>>, Hueco(0, Tamanio[s])) /\ EnTabla' = Tamanio[s]
      BY <1>2, <1>3, <1>7, <2>1
    <3>2. QED
      BY <3>1
  <2>2. CASE tabla = <<Hueco(0, EnTabla)>>
    <3> DEFINE h == Hueco(0, EnTabla)
    <3>1. h.pid = Nadie /\ h.tam = EnTabla /\ [h EXCEPT !.tam = @ + Tamanio[s]] = Hueco(0, EnTabla')
      BY <1>7 DEF Hueco
    <3> HIDE DEF h
    <3>2. tabla = <<h>>
      BY <2>2 DEF h
    <3>3. tabla # <<>> /\ Len(tabla) = 1 /\ tabla[1] = h
      BY <3>2
    <3>4. tabla' = [tabla EXCEPT ![1].tam = @ + Tamanio[s]]
      BY <1>2, <3>1, <3>3 DEF Libre
    <3>5. tabla' = <<[h EXCEPT !.tam = @ + Tamanio[s]]>>
      BY <3>2, <3>4
    <3>6. QED
      BY <3>1, <3>5
  <2>3. QED
    BY <1>5, <2>1, <2>2
<1>9. QED
  BY <1>3, <1>5, <1>7, <1>8

LEMMA ActualizaHuecoConserva ==
    ASSUME IInv, NEW s \in Stick, ActualizaHueco(s)
    PROVE  IInv'
<1>1. Formas /\ SticksOK /\ TablaOK /\ Arranque /\ PedidoOK /\ SwapOK
  BY DEF IInv
<1>2. /\ UNCHANGED <<estrategia, memoria_total, base_global, pedido, segmentos_en_swap, respuesta>>
      /\ pc_stick[s] = "en_sticks" /\ pc_stick' = [pc_stick EXCEPT ![s] = "dentro"]
  BY DEF ActualizaHueco
<1>3. /\ EnTabla \in Nat /\ EnTabla' = EnTabla + Tamanio[s] /\ Tamanio[s] \in Nat \ {0}
      /\ tabla' = <<Hueco(0, EnTabla')>>
      /\ memoria_total = EnTabla' /\ IsFiniteSet(Unidades(Tamanio, Dentro'))
      /\ pedido = Nadie /\ DOMAIN segmentos_en_swap = {}
  BY ActualizaHuecoEs
<1>4. Formas'
  BY <1>1, <1>2 DEF Formas
<1>5. SticksOK'
  <2>1. \A r \in Stick : pc_stick'[r] # "en_sticks"
    BY <1>1, <1>2 DEF Formas, SticksOK
  <2>2. QED
    BY <1>2, <1>3, <2>1 DEF SticksOK
<1>6. TablaOK'
  <2>1. EnTabla' \in Nat
    BY <1>3
  <2>2. QED
    BY <1>3, <2>1, UnHueco DEF TablaOK
<1>7. Arranque'
  BY <1>2, <1>3 DEF Arranque
<1>8. PedidoOK'
  BY <1>2, <1>3 DEF PedidoOK
<1>9. SwapOK'
  BY <1>2, <1>3 DEF SwapOK
<1>10. QED
  BY <1>4, <1>5, <1>6, <1>7, <1>8, <1>9 DEF IInv

-----------------------------------------------------------------------------
(* The requests.  A request moves addresses between a process and the holes. *)

Pasa(p) ==
    /\ Sano(tabla', memoria_total)
    /\ Suyas(tabla', p) \cup Suyas(tabla', Nadie) = Suyas(tabla, p) \cup Suyas(tabla, Nadie)
    /\ \A q : q # p /\ q # Nadie => Suyas(tabla', q) = Suyas(tabla, q)

\* Process p takes the addresses I of the holes, or leaves them.
Toma(p, I) ==
    /\ Pasa(p) /\ I \subseteq Suyas(tabla, Nadie)
    /\ Suyas(tabla', p) = Suyas(tabla, p) \cup I
    /\ Suyas(tabla', Nadie) = Suyas(tabla, Nadie) \ I
Deja(p, I) ==
    /\ Pasa(p) /\ I \subseteq Suyas(tabla, p)
    /\ Suyas(tabla', p) = Suyas(tabla, p) \ I
    /\ Suyas(tabla', Nadie) = Suyas(tabla, Nadie) \cup I

\* What holds whenever a request is served: every stick is in the table.
EnOrdenYa ==
    /\ TodosDentro /\ memoria_total = EnTabla /\ memoria_total \in Nat
    /\ Sano(tabla, memoria_total) /\ De(tabla, DOMAIN tabla) = 0 .. memoria_total - 1

LEMMA EnServicio ==
    ASSUME IInv, ~EnCaliente, Atiende \/ pedido # Nadie
    PROVE  EnOrdenYa
<1>1. Formas /\ SticksOK /\ TablaOK /\ Arranque
  BY DEF IInv
<1>2. TodosDentro
  BY <1>1 DEF Arranque, Atiende, TodosDentro
<1>3. memoria_total = EnTabla /\ memoria_total \in Nat
  BY <1>1, <1>2 DEF SticksOK, SticksTomado, TodosDentro, Formas
<1>4. QED
  BY <1>1, <1>2, <1>3 DEF TablaOK, EnOrdenYa

LEMMA QuedaBien ==
    ASSUME IInv, EnOrdenYa, UNCHANGED <<estrategia, sticks>>, respuesta' \in Nat \X BOOLEAN,
           Sano(tabla', memoria_total), De(tabla', DOMAIN tabla') = 0 .. memoria_total - 1,
           PedidoOK', SwapOK'
    PROVE  IInv'
<1>1. Formas /\ SticksOK /\ TodosDentro /\ memoria_total = EnTabla
  BY DEF IInv, EnOrdenYa
<1>2. UNCHANGED <<estrategia, memoria_total, pc_stick, base_global>>
  BY DEF sticks
<1>3. EnTabla' = EnTabla /\ Dentro' = Dentro /\ TodosDentro' /\ (SticksTomado' <=> SticksTomado)
  BY <1>1, <1>2 DEF EnTabla, Dentro, TodosDentro, SticksTomado
<1>4. Formas'
  BY <1>1, <1>2 DEF Formas
<1>5. SticksOK'
  BY <1>1, <1>2, <1>3 DEF SticksOK
<1>6. TablaOK'
  BY <1>1, <1>3 DEF TablaOK
<1>7. Arranque'
  BY <1>3 DEF Arranque
<1>8. QED
  BY <1>4, <1>5, <1>6, <1>7 DEF IInv

\* The other processes keep their units.
LEMMA PasaOtros ==
    ASSUME EnOrdenYa, NEW p \in Pid, Pasa(p), NEW q \in Pid, q # p
    PROVE  /\ DePid(tabla', q) = {} <=> DePid(tabla, q) = {}
           /\ SumaTam(tabla', DePid(tabla', q)) = SumaTam(tabla, DePid(tabla, q))
<1>1. memoria_total \in Nat /\ Sano(tabla, memoria_total) /\ Sano(tabla', memoria_total)
  BY DEF EnOrdenYa, Pasa
<1>2. Suyas(tabla', q) = Suyas(tabla, q)
  BY HuecoAssumption DEF HuecoAssumption, Pasa
<1>3. (Suyas(tabla, q) = {} <=> DePid(tabla, q) = {}) /\ (Suyas(tabla', q) = {} <=> DePid(tabla', q) = {})
  BY <1>1, SuyasVacias
<1>4. /\ SumaTam(tabla, DePid(tabla, q)) = Cardinality(Suyas(tabla, q))
      /\ SumaTam(tabla', DePid(tabla', q)) = Cardinality(Suyas(tabla', q))
  BY <1>1, SuyasCuenta
<1>5. QED
  BY <1>2, <1>3, <1>4

LEMMA PasaDirecciones ==
    ASSUME EnOrdenYa, NEW p \in Pid, Pasa(p)
    PROVE  Sano(tabla', memoria_total) /\ De(tabla', DOMAIN tabla') = 0 .. memoria_total - 1
<1>1. memoria_total \in Nat /\ Sano(tabla, memoria_total) /\ De(tabla, DOMAIN tabla) = 0 .. memoria_total - 1
  BY DEF EnOrdenYa
<1>2. /\ Sano(tabla', memoria_total)
      /\ Suyas(tabla', p) \cup Suyas(tabla', Nadie) = Suyas(tabla, p) \cup Suyas(tabla, Nadie)
      /\ \A q : q # p /\ q # Nadie => Suyas(tabla', q) = Suyas(tabla, q)
  BY DEF Pasa
<1>3. De(tabla', DOMAIN tabla') = De(tabla, DOMAIN tabla)
  BY <1>1, <1>2, MismasDirecciones
<1>4. QED
  BY <1>1, <1>2, <1>3

\* The processes in SWAP are still without segments when another one is served.
LEMMA PasaSwap ==
    ASSUME IInv, EnOrdenYa, NEW p \in Pid, Pasa(p), ~EnSwap(p),
           UNCHANGED <<segmentos_en_swap, sticks>>
    PROVE  SwapOK'
<1>1. SwapOK
  BY DEF IInv
<1>2. EnTabla' = EnTabla
  BY DEF sticks, EnTabla
<1>3. ASSUME NEW q \in DOMAIN segmentos_en_swap
      PROVE  DePid(tabla', q) = {} /\ segmentos_en_swap[q] \in Seq(DeVuelta(q, EnTabla))
  <2>1. q \in Pid /\ q # p /\ DePid(tabla, q) = {} /\ segmentos_en_swap[q] \in Seq(DeVuelta(q, EnTabla))
    BY <1>1 DEF SwapOK, EnSwap
  <2>2. QED
    BY <2>1, PasaOtros
<1>4. QED
  BY <1>1, <1>2, <1>3 DEF SwapOK

LEMMA CuentaAntes ==
    ASSUME EnOrdenYa, NEW p
    PROVE  /\ IsFiniteSet(Suyas(tabla, p)) /\ Cardinality(Suyas(tabla, p)) \in Nat
           /\ SumaTam(tabla, DePid(tabla, p)) = Cardinality(Suyas(tabla, p))
           /\ SumaTam(tabla, Libres(tabla)) = Cardinality(Suyas(tabla, Nadie))
           /\ SumaTam(tabla, Libres(tabla)) \in Nat
<1>1. memoria_total \in Nat /\ Sano(tabla, memoria_total)
  BY DEF EnOrdenYa
<1>2. QED
  BY <1>1, SuyasCuenta, LibresSuyas

LEMMA CuentaDespues ==
    ASSUME EnOrdenYa, NEW p, Pasa(p)
    PROVE  /\ IsFiniteSet(Suyas(tabla', p)) /\ Cardinality(Suyas(tabla', p)) \in Nat
           /\ SumaTam(tabla', DePid(tabla', p)) = Cardinality(Suyas(tabla', p))
           /\ SumaTam(tabla', Libres(tabla')) = Cardinality(Suyas(tabla', Nadie))
           /\ SumaTam(tabla', Libres(tabla')) \in Nat
<1>1. memoria_total \in Nat /\ Sano(tabla', memoria_total)
  BY DEF EnOrdenYa, Pasa
<1>2. QED
  BY <1>1, SuyasCuenta, LibresSuyas

\* Taking the addresses I takes as many units, and leaving them gives as many back.
LEMMA TomaCuenta ==
    ASSUME EnOrdenYa, NEW p \in Pid, NEW I, Toma(p, I)
    PROVE  /\ IsFiniteSet(I) /\ Cardinality(I) \in Nat
           /\ Cardinality(I) <= SumaTam(tabla, Libres(tabla))
           /\ SumaTam(tabla', DePid(tabla', p)) = SumaTam(tabla, DePid(tabla, p)) + Cardinality(I)
           /\ SumaTam(tabla', Libres(tabla')) = SumaTam(tabla, Libres(tabla)) - Cardinality(I)
<1> DEFINE A == Suyas(tabla, p)
           F == Suyas(tabla, Nadie)
<1>1. /\ IsFiniteSet(A) /\ IsFiniteSet(F) /\ Cardinality(A) \in Nat /\ Cardinality(F) \in Nat
      /\ SumaTam(tabla, DePid(tabla, p)) = Cardinality(A)
      /\ SumaTam(tabla, Libres(tabla)) = Cardinality(F)
  BY CuentaAntes
<1>2. /\ SumaTam(tabla', DePid(tabla', p)) = Cardinality(A \cup I)
      /\ SumaTam(tabla', Libres(tabla')) = Cardinality(F \ I)
  BY CuentaDespues DEF Toma
<1>3. I \subseteq F /\ A \cap F = {}
  BY SuyasAparte, HuecoAssumption DEF HuecoAssumption, Toma, EnOrdenYa, Sano
<1> HIDE DEF A, F
<1>4. IsFiniteSet(I) /\ Cardinality(I) \in Nat /\ Cardinality(I) <= Cardinality(F)
  BY <1>1, <1>3, FS_Subset, FS_CardinalityType
<1>5. A \cap I = {} /\ F \cap I = I
  BY <1>3
<1>6. Cardinality(A \cup I) = Cardinality(A) + Cardinality(I)
  <2>1. Cardinality(A \cup I) = Cardinality(A) + Cardinality(I) - Cardinality(A \cap I)
    BY <1>1, <1>4, FS_Union
  <2>2. Cardinality(A \cap I) = 0
    BY <1>5, FS_EmptySet
  <2>3. QED
    BY <1>1, <1>4, <2>1, <2>2
<1>7. Cardinality(F \ I) = Cardinality(F) - Cardinality(I)
  <2>1. Cardinality(F \ I) = Cardinality(F) - Cardinality(F \cap I)
    BY <1>1, FS_Difference
  <2>2. QED
    BY <1>5, <2>1
<1>8. QED
  BY <1>1, <1>2, <1>4, <1>6, <1>7

LEMMA DejaCuenta ==
    ASSUME EnOrdenYa, NEW p \in Pid, NEW I, Deja(p, I)
    PROVE  /\ IsFiniteSet(I) /\ Cardinality(I) \in Nat
           /\ Cardinality(I) <= SumaTam(tabla, DePid(tabla, p))
           /\ SumaTam(tabla', DePid(tabla', p)) = SumaTam(tabla, DePid(tabla, p)) - Cardinality(I)
           /\ SumaTam(tabla', Libres(tabla')) = SumaTam(tabla, Libres(tabla)) + Cardinality(I)
<1> DEFINE A == Suyas(tabla, p)
           F == Suyas(tabla, Nadie)
<1>1. /\ IsFiniteSet(A) /\ IsFiniteSet(F) /\ Cardinality(A) \in Nat /\ Cardinality(F) \in Nat
      /\ SumaTam(tabla, DePid(tabla, p)) = Cardinality(A)
      /\ SumaTam(tabla, Libres(tabla)) = Cardinality(F)
  BY CuentaAntes
<1>2. /\ SumaTam(tabla', DePid(tabla', p)) = Cardinality(A \ I)
      /\ SumaTam(tabla', Libres(tabla')) = Cardinality(F \cup I)
  BY CuentaDespues DEF Deja
<1>3. I \subseteq A /\ A \cap F = {}
  BY SuyasAparte, HuecoAssumption DEF HuecoAssumption, Deja, EnOrdenYa, Sano
<1> HIDE DEF A, F
<1>4. IsFiniteSet(I) /\ Cardinality(I) \in Nat /\ Cardinality(I) <= Cardinality(A)
  BY <1>1, <1>3, FS_Subset, FS_CardinalityType
<1>5. F \cap I = {} /\ A \cap I = I
  BY <1>3
<1>6. Cardinality(F \cup I) = Cardinality(F) + Cardinality(I)
  <2>1. Cardinality(F \cup I) = Cardinality(F) + Cardinality(I) - Cardinality(F \cap I)
    BY <1>1, <1>4, FS_Union
  <2>2. Cardinality(F \cap I) = 0
    BY <1>5, FS_EmptySet
  <2>3. QED
    BY <1>1, <1>4, <2>1, <2>2
<1>7. Cardinality(A \ I) = Cardinality(A) - Cardinality(I)
  <2>1. Cardinality(A \ I) = Cardinality(A) - Cardinality(A \cap I)
    BY <1>1, FS_Difference
  <2>2. QED
    BY <1>5, <2>1
<1>8. QED
  BY <1>1, <1>2, <1>4, <1>6, <1>7

-----------------------------------------------------------------------------
(* What each request does.                                                  *)

LEMMA AsignaToma ==
    ASSUME EnOrdenYa, NEW p \in Pid, NEW id \in Id, NEW n \in Nat \ {0},
           BuscaHueco(tabla, n) # 0, tabla' = Asigna(tabla, BuscaHueco(tabla, n), p, id, n)
    PROVE  \E I : Toma(p, I) /\ Cardinality(I) = n
<1> DEFINE k == BuscaHueco(tabla, n)
           M == memoria_total
           I == tabla[k].base .. tabla[k].base + n - 1
<1>1. M \in Nat /\ Sano(tabla, M) /\ tabla \in Seq(Tramo(M))
  BY DEF EnOrdenYa, Sano
<1>2. k \in DOMAIN tabla /\ Libre(tabla[k]) /\ n <= tabla[k].tam
  BY <1>1, BuscaHuecoEs
<1> HIDE DEF k, M
<1>3. /\ Sano(Asigna(tabla, k, p, id, n), M)
      /\ IsFiniteSet(I) /\ Cardinality(I) = n /\ I \subseteq Suyas(tabla, Nadie)
      /\ Suyas(Asigna(tabla, k, p, id, n), p) = Suyas(tabla, p) \cup I
      /\ Suyas(Asigna(tabla, k, p, id, n), Nadie) = Suyas(tabla, Nadie) \ I
      /\ \A q : q # p /\ q # Nadie => Suyas(Asigna(tabla, k, p, id, n), q) = Suyas(tabla, q)
  BY <1>1, <1>2, AsignaEs
<1>4. tabla' = Asigna(tabla, k, p, id, n)
  BY DEF k
<1> HIDE DEF I
<1>5. /\ Sano(tabla', M) /\ I \subseteq Suyas(tabla, Nadie) /\ Cardinality(I) = n
      /\ Suyas(tabla', p) = Suyas(tabla, p) \cup I
      /\ Suyas(tabla', Nadie) = Suyas(tabla, Nadie) \ I
      /\ \A q : q # p /\ q # Nadie => Suyas(tabla', q) = Suyas(tabla, q)
  BY <1>3, <1>4
<1>6. Suyas(tabla', p) \cup Suyas(tabla', Nadie) = Suyas(tabla, p) \cup Suyas(tabla, Nadie)
  BY <1>5
<1>7. Pasa(p)
  BY <1>5, <1>6 DEF Pasa, M
<1>8. Toma(p, I)
  BY <1>5, <1>7 DEF Toma
<1>9. QED
  BY <1>5, <1>8

LEMMA MemAllocEs ==
    ASSUME IInv, ~EnCaliente, NEW p \in Pid, NEW id \in Id, NEW n \in Tam, MemAlloc(p, id, n)
    PROVE  /\ EnOrdenYa /\ n \in Nat \ {0} /\ ~EnSwap(p) /\ UNCHANGED <<estrategia, sticks, segmentos_en_swap>>
           /\ \/ /\ \E I : Toma(p, I) /\ Cardinality(I) = n
                 /\ respuesta' = <<n, TRUE>> /\ pedido' = Nadie
              \/ /\ UNCHANGED <<tabla, respuesta>>
                 /\ pedido' = [paso |-> "compactar", pid |-> p, id |-> id, tam |-> n]
<1>1. EnOrdenYa
  BY EnServicio DEF MemAlloc
<1>2. n \in Nat \ {0}
  BY TamAssumption DEF TamAssumption
<1>3. ASSUME BuscaHueco(tabla, n) # 0
      PROVE  (\E I : Toma(p, I) /\ Cardinality(I) = n) /\ respuesta' = <<n, TRUE>> /\ pedido' = Nadie
  <2>1. tabla' = Asigna(tabla, BuscaHueco(tabla, n), p, id, n) /\ respuesta' = <<n, TRUE>> /\ pedido' = Nadie
    BY <1>3 DEF MemAlloc, Atiende, tabla
  <2>2. QED
    BY <1>1, <1>2, <1>3, <2>1, AsignaToma
<1>4. ASSUME BuscaHueco(tabla, n) = 0
      PROVE  /\ UNCHANGED <<tabla, respuesta>>
             /\ pedido' = [paso |-> "compactar", pid |-> p, id |-> id, tam |-> n]
  BY <1>4 DEF MemAlloc
<1>5. ~EnSwap(p) /\ UNCHANGED <<estrategia, sticks, segmentos_en_swap>>
  BY DEF MemAlloc
<1>6. QED
  BY <1>1, <1>2, <1>3, <1>4, <1>5

\* The release of segments of a process.
LEMMA SueltaDeja ==
    ASSUME EnOrdenYa, NEW p \in Pid, NEW K \in SUBSET DePid(tabla, p),
           NEW t1, t1 = [k \in DOMAIN tabla |->
                            IF k \in K THEN Hueco(tabla[k].base, tabla[k].tam) ELSE tabla[k]],
           Sano(tabla', memoria_total), \A q : Suyas(tabla', q) = Suyas(t1, q)
    PROVE  Deja(p, De(tabla, K))
<1> DEFINE M == memoria_total
           I == De(tabla, K)
<1>1. M \in Nat /\ Sano(tabla, M)
  BY DEF EnOrdenYa
<1>2. /\ I \subseteq Suyas(tabla, p)
      /\ Suyas(t1, p) = Suyas(tabla, p) \ I
      /\ Suyas(t1, Nadie) = Suyas(tabla, Nadie) \cup I
      /\ \A q : q # p /\ q # Nadie => Suyas(t1, q) = Suyas(tabla, q)
  BY <1>1, SueltaVarios
<1>3. \A q : Suyas(tabla', q) = Suyas(t1, q)
  OBVIOUS
<1> HIDE DEF I
<1>4. Suyas(tabla', p) \cup Suyas(tabla', Nadie) = Suyas(tabla, p) \cup Suyas(tabla, Nadie)
  BY <1>2, <1>3
<1>5. Pasa(p)
  BY <1>2, <1>3, <1>4 DEF Pasa
<1>6. Deja(p, I)
  BY <1>2, <1>3, <1>5 DEF Deja
<1>7. QED
  BY <1>6 DEF I

LEMMA MemFreeEs ==
    ASSUME IInv, ~EnCaliente, NEW p \in Pid, NEW id \in Id, MemFree(p, id)
    PROVE  /\ EnOrdenYa /\ \E I : Deja(p, I)
           /\ ~EnSwap(p) /\ pedido = Nadie
           /\ UNCHANGED <<estrategia, sticks, pedido, segmentos_en_swap, respuesta>>
<1> DEFINE M == memoria_total
           suyos == {k \in DOMAIN tabla : tabla[k].pid = p /\ tabla[k].id = id}
           c == CHOOSE k \in suyos : \A j \in suyos : k <= j
           K == IF suyos = {} THEN {} ELSE {c}
           t1 == [k \in DOMAIN tabla |-> IF k \in K THEN Hueco(tabla[k].base, tabla[k].tam) ELSE tabla[k]]
           suelta == IF suyos = {} THEN tabla ELSE Suelta(tabla, c)
<1>1. EnOrdenYa /\ ~EnSwap(p) /\ pedido = Nadie /\ UNCHANGED <<estrategia, sticks, pedido, segmentos_en_swap, respuesta>>
  BY EnServicio DEF MemFree, Atiende
<1>2. tabla' = Fusiona(Ordena(suelta))
  BY DEF MemFree, tabla
<1>3. M \in Nat /\ Sano(tabla, M) /\ tabla \in Seq(Tramo(M))
  BY <1>1 DEF EnOrdenYa, Sano
<1>4. K \in SUBSET DePid(tabla, p) /\ suelta = t1
  <2>1. CASE suyos = {}
    <3>1. K = {} /\ suelta = tabla
      BY <2>1
    <3>2. tabla = [k \in DOMAIN tabla |-> tabla[k]]
      BY <1>3, SeqDef
    <3>3. t1 = [k \in DOMAIN tabla |-> tabla[k]]
      BY <3>1
    <3>4. QED
      BY <3>1, <3>2, <3>3
  <2>2. CASE suyos # {}
    <3>1. suyos \subseteq Nat
      BY <1>3, LenProperties
    <3>2. \E k \in suyos : \A j \in suyos : k <= j
      BY <2>2, <3>1, MenorNat
    <3>3. c \in suyos
      BY <3>2
    <3>4. K = {c} /\ suelta = [tabla EXCEPT ![c] = Hueco(tabla[c].base, tabla[c].tam)]
      BY <2>2 DEF Suelta
    <3> HIDE DEF c, K, suelta, t1
    <3>5. t1 = [k \in DOMAIN tabla |-> IF k = c THEN Hueco(tabla[c].base, tabla[c].tam) ELSE tabla[k]]
      BY <3>4 DEF t1
    <3>6. suelta = t1
      BY <3>4, <3>5
    <3>7. K \in SUBSET DePid(tabla, p)
      BY <3>3, <3>4 DEF DePid
    <3>8. QED
      BY <3>6, <3>7
  <2>3. QED
    BY <2>1, <2>2
<1> HIDE DEF M, K, suelta
<1>5. Sano(t1, M)
  <2>1. M \in Nat /\ Sano(tabla, M) /\ K \in SUBSET DePid(tabla, p)
    BY <1>3, <1>4
  <2>2. QED
    BY <2>1, SueltaVarios
<1> HIDE DEF t1
<1>6. Sano(Ordena(t1), M) /\ \A q : Suyas(Ordena(t1), q) = Suyas(t1, q)
  BY <1>3, <1>5, OrdenaEs
<1>7. Sano(Fusiona(Ordena(t1)), M) /\ \A q : Suyas(Fusiona(Ordena(t1)), q) = Suyas(Ordena(t1), q)
  BY <1>3, <1>6, FusionaEs
<1>8. Sano(tabla', M) /\ \A q : Suyas(tabla', q) = Suyas(t1, q)
  BY <1>2, <1>4, <1>6, <1>7
<1>9. Deja(p, De(tabla, K))
  BY <1>1, <1>4, <1>8, SueltaDeja DEF M, t1
<1>10. QED
  BY <1>1, <1>9

\* EXIT and SWAP_ESCRITURA: the process is left with nothing.
LEMMA SueltaPidEs ==
    ASSUME EnOrdenYa, NEW p \in Pid, tabla' = SueltaPid(tabla, p)
    PROVE  Deja(p, Suyas(tabla, p)) /\ DePid(tabla', p) = {}
<1> DEFINE M == memoria_total
           K == DePid(tabla, p)
           t1 == [k \in DOMAIN tabla |-> IF k \in K THEN Hueco(tabla[k].base, tabla[k].tam) ELSE tabla[k]]
<1>1. M \in Nat /\ Sano(tabla, M)
  BY DEF EnOrdenYa
<1>2. tabla' = t1
  BY DEF SueltaPid, DePid
<1>3. K \in SUBSET DePid(tabla, p)
  OBVIOUS
<1> HIDE DEF M, K
<1>4. Sano(t1, M)
  BY <1>1, <1>3, SueltaVarios
<1>5. Deja(p, De(tabla, K))
  BY <1>2, <1>3, <1>4, SueltaDeja DEF M
<1>6. De(tabla, K) = Suyas(tabla, p)
  BY DEF Suyas, K
<1>7. DePid(tabla', p) = {}
  <2>1. p # Nadie
    BY HuecoAssumption DEF HuecoAssumption
  <2>2. DOMAIN tabla' = DOMAIN tabla
    BY <1>2
  <2>3. ASSUME NEW k \in DOMAIN tabla PROVE tabla'[k].pid # p
    <3>1. CASE k \in K
      BY <1>2, <2>1, <3>1 DEF Hueco
    <3>2. CASE k \notin K
      BY <1>2, <3>2 DEF K, DePid
    <3>3. QED
      BY <3>1, <3>2
  <2>4. QED
    BY <2>2, <2>3 DEF DePid
<1>8. QED
  BY <1>5, <1>6, <1>7

LEMMA LiberaTodosEs ==
    ASSUME IInv, ~EnCaliente, NEW p \in Pid, LiberaTodos(p)
    PROVE  /\ EnOrdenYa /\ \E I : Deja(p, I)
           /\ ~EnSwap(p) /\ pedido = Nadie
           /\ UNCHANGED <<estrategia, sticks, pedido, segmentos_en_swap, respuesta>>
<1>1. /\ EnOrdenYa /\ ~EnSwap(p) /\ pedido = Nadie
      /\ UNCHANGED <<estrategia, sticks, pedido, segmentos_en_swap, respuesta>>
  BY EnServicio DEF LiberaTodos, Atiende
<1>2. tabla' = SueltaPid(tabla, p)
  BY DEF LiberaTodos, tabla
<1>3. QED
  BY <1>1, <1>2, SueltaPidEs

LEMMA SwapEscrituraEs ==
    ASSUME IInv, ~EnCaliente, NEW p \in Pid, SwapEscritura(p)
    PROVE  LET s == Sublista(tabla, DePid(tabla, p))
           IN  /\ EnOrdenYa /\ Deja(p, Suyas(tabla, p)) /\ DePid(tabla', p) = {}
               /\ ~EnSwap(p) /\ pedido = Nadie
               /\ segmentos_en_swap' = [q \in DOMAIN segmentos_en_swap \cup {p} |->
                                            IF q = p THEN s ELSE segmentos_en_swap[q]]
               /\ s \in Seq(DeVuelta(p, memoria_total))
               /\ SumaTam(s, DOMAIN s) = SumaTam(tabla, DePid(tabla, p))
               /\ UNCHANGED <<estrategia, sticks, pedido, respuesta>>
<1>1. /\ EnOrdenYa /\ ~EnSwap(p) /\ pedido = Nadie
      /\ UNCHANGED <<estrategia, sticks, pedido, respuesta>>
  BY EnServicio DEF SwapEscritura, Atiende
<1>2. tabla' = SueltaPid(tabla, p)
  BY DEF SwapEscritura, tabla
<1>3. Deja(p, Suyas(tabla, p)) /\ DePid(tabla', p) = {}
  BY <1>1, <1>2, SueltaPidEs
<1>4. memoria_total \in Nat /\ Sano(tabla, memoria_total)
  BY <1>1 DEF EnOrdenYa
<1>5. /\ Sublista(tabla, DePid(tabla, p)) \in Seq(DeVuelta(p, memoria_total))
      /\ SumaTam(Sublista(tabla, DePid(tabla, p)), DOMAIN Sublista(tabla, DePid(tabla, p))) = SumaTam(tabla, DePid(tabla, p))
  BY <1>4, SublistaEs
<1>6. segmentos_en_swap' = [q \in DOMAIN segmentos_en_swap \cup {p} |->
            IF q = p THEN Sublista(tabla, DePid(tabla, p)) ELSE segmentos_en_swap[q]]
  BY DEF SwapEscritura
<1>7. QED
  BY <1>1, <1>3, <1>5, <1>6

LEMMA DeVueltaSuma ==
    ASSUME NEW M \in Nat, NEW p \in Pid, NEW s \in Seq(DeVuelta(p, M))
    PROVE  SumaTam(s, DOMAIN s) \in Nat
<1>1. DeVuelta(p, M) \subseteq Tramo(M)
  BY DEF DeVuelta, Tramo
<1>2. s \in Seq(Tramo(M))
  BY <1>1, SeqDef
<1>3. DOMAIN s \in SUBSET DOMAIN s
  OBVIOUS
<1>4. QED
  BY <1>2, <1>3, UnidadesFinitas

\* It comes back exactly when its units are free, and takes that many of them or fewer.
LEMMA SwapLecturaEs ==
    ASSUME IInv, ~EnCaliente, NEW p \in Pid, SwapLectura(p)
    PROVE  LET suyos == segmentos_en_swap[p]
               total == SumaTam(suyos, DOMAIN suyos)
               libre == SumaTam(tabla, Libres(tabla))
           IN  /\ EnOrdenYa /\ EnSwap(p) /\ pedido = Nadie /\ DePid(tabla, p) = {}
               /\ total \in Nat /\ libre \in Nat
               /\ respuesta' = <<total, total <= libre>>
               /\ \/ /\ total <= libre
                     /\ \E I : Toma(p, I) /\ Cardinality(I) <= total
                     /\ segmentos_en_swap' = [q \in DOMAIN segmentos_en_swap \ {p} |-> segmentos_en_swap[q]]
                  \/ ~(total <= libre) /\ UNCHANGED <<tabla, segmentos_en_swap>>
               /\ UNCHANGED <<estrategia, sticks, pedido>>
<1> DEFINE M == memoria_total
           suyos == segmentos_en_swap[p]
           total == SumaTam(suyos, DOMAIN suyos)
           libre == SumaTam(tabla, Libres(tabla))
           I == Suyas(tabla', p)
<1>1. EnOrdenYa /\ EnSwap(p) /\ pedido = Nadie /\ UNCHANGED <<estrategia, sticks, pedido>>
  BY EnServicio DEF SwapLectura, Atiende
<1>2. respuesta' = <<total, total <= libre>>
  BY DEF SwapLectura
<1>3. M \in Nat /\ Sano(tabla, M) /\ M = EnTabla
  BY <1>1 DEF EnOrdenYa
<1>4. DePid(tabla, p) = {} /\ suyos \in Seq(DeVuelta(p, M))
  BY <1>1, <1>3 DEF IInv, SwapOK, EnSwap
<1>5. total \in Nat /\ libre \in Nat
  BY <1>1, <1>3, <1>4, DeVueltaSuma, CuentaAntes
<1>6. ASSUME ~(total <= libre) PROVE UNCHANGED <<tabla, segmentos_en_swap>>
  BY <1>6 DEF SwapLectura
<1>7. ASSUME total <= libre
      PROVE  /\ segmentos_en_swap' = [q \in DOMAIN segmentos_en_swap \ {p} |-> segmentos_en_swap[q]]
             /\ tabla' = Restauradas(tabla, suyos)
  BY <1>7 DEF SwapLectura, tabla
<1> HIDE DEF M, suyos, total, libre
<1>8. ASSUME total <= libre PROVE Toma(p, I) /\ Cardinality(I) <= total
  <2>1. tabla' = Restauradas(tabla, suyos)
    BY <1>7, <1>8
  <2>2. /\ Sano(tabla', M)
        /\ \A q : q # p /\ q # Nadie => Suyas(tabla', q) = Suyas(tabla, q)
        /\ Suyas(tabla', p) \cup Suyas(tabla', Nadie) = Suyas(tabla, p) \cup Suyas(tabla, Nadie)
        /\ Cardinality(Suyas(tabla', p)) <= Cardinality(Suyas(tabla, p)) + total
    BY <1>3, <1>4, <2>1, RestauradasEs DEF total
  <2>3. Suyas(tabla, p) = {} /\ Cardinality(Suyas(tabla, p)) = 0
    BY <1>3, <1>4, SuyasVacias, FS_EmptySet
  <2>4. Suyas(tabla', p) \cap Suyas(tabla', Nadie) = {}
    BY <2>2, SuyasAparte, HuecoAssumption DEF HuecoAssumption, Sano
  <2>5. Pasa(p)
    BY <2>2 DEF Pasa, M
  <2>6. Toma(p, I)
    BY <2>2, <2>3, <2>4, <2>5 DEF Toma
  <2>7. Cardinality(I) <= total
    BY <1>5, <2>2, <2>3
  <2>8. QED
    BY <2>6, <2>7
<1>9. QED
  BY <1>1, <1>2, <1>4, <1>5, <1>6, <1>7, <1>8 DEF suyos, total, libre

LEMMA CompactaEs ==
    ASSUME IInv, ~EnCaliente, Compacta
    PROVE  /\ EnOrdenYa /\ pedido # Nadie /\ pedido' = [pedido EXCEPT !.paso = "reasignar"]
           /\ Sano(tabla', memoria_total) /\ De(tabla', DOMAIN tabla') = 0 .. memoria_total - 1
           /\ \A p \in Pid : SumaTam(tabla', DePid(tabla', p)) = SumaTam(tabla, DePid(tabla, p))
           /\ \A p \in Pid : DePid(tabla, p) = {} => DePid(tabla', p) = {}
           /\ SumaTam(tabla', Libres(tabla')) = SumaTam(tabla, Libres(tabla))
           /\ \E k \in DOMAIN tabla' : Libres(tabla') = {k}
           /\ UNCHANGED <<estrategia, sticks, segmentos_en_swap, respuesta>>
<1>1. /\ pedido # Nadie /\ pedido' = [pedido EXCEPT !.paso = "reasignar"]
      /\ tabla' = Compactada(tabla)
      /\ UNCHANGED <<estrategia, sticks, segmentos_en_swap, respuesta>>
  BY DEF Compacta, MemoriaTomada, tabla
<1>2. EnOrdenYa
  BY <1>1, EnServicio
<1>3. memoria_total \in Nat /\ Sano(tabla, memoria_total) /\ De(tabla, DOMAIN tabla) = 0 .. memoria_total - 1
  BY <1>2 DEF EnOrdenYa
<1> DEFINE t2 == Compactada(tabla)
<1>4. /\ Sano(t2, memoria_total)
      /\ De(t2, DOMAIN t2) = 0 .. memoria_total - 1
      /\ \A p \in Pid : SumaTam(t2, DePid(t2, p)) = SumaTam(tabla, DePid(tabla, p))
      /\ \A p \in Pid : DePid(tabla, p) = {} => DePid(t2, p) = {}
      /\ SumaTam(t2, Libres(t2)) = SumaTam(tabla, Libres(tabla))
      /\ Libres(t2) = {Len(t2)} /\ Len(t2) \in DOMAIN t2
  BY <1>3, CompactadaEs
<1> HIDE DEF t2
<1>5. tabla' = t2
  BY <1>1 DEF t2
<1>6. QED
  BY <1>1, <1>2, <1>4, <1>5

LEMMA ReasignaEs ==
    ASSUME IInv, ~EnCaliente, Reasigna
    PROVE  /\ EnOrdenYa /\ pedido # Nadie /\ pedido' = Nadie
           /\ pedido.pid \in Pid /\ ~EnSwap(pedido.pid) /\ pedido.tam \in Nat \ {0}
           /\ \/ /\ \E I : Toma(pedido.pid, I) /\ Cardinality(I) = pedido.tam
                 /\ respuesta' = <<pedido.tam, TRUE>>
              \/ /\ SumaTam(tabla, Libres(tabla)) < pedido.tam
                 /\ UNCHANGED tabla /\ respuesta' = <<pedido.tam, FALSE>>
           /\ UNCHANGED <<estrategia, sticks, segmentos_en_swap>>
<1> DEFINE p == pedido.pid
           id == pedido.id
           n == pedido.tam
           k == BuscaHueco(tabla, n)
<1>1. pedido # Nadie /\ pedido.paso = "reasignar" /\ pedido' = Nadie /\ UNCHANGED <<estrategia, sticks, segmentos_en_swap>>
  BY DEF Reasigna
<1>2. /\ tabla' = IF k = 0 THEN tabla ELSE Asigna(tabla, k, p, id, n)
      /\ respuesta' = <<n, k # 0>>
  BY DEF Reasigna, tabla
<1>3. EnOrdenYa
  BY <1>1, EnServicio
<1>4. /\ p \in Pid /\ id \in Id /\ n \in Tam /\ ~EnSwap(p)
      /\ \E j \in DOMAIN tabla : Libres(tabla) = {j}
  BY <1>1 DEF IInv, PedidoOK
<1>5. n \in Nat \ {0}
  BY <1>4, TamAssumption DEF TamAssumption
<1> HIDE DEF p, id, n
<1>6. CASE k # 0
  <2>1. tabla' = Asigna(tabla, k, p, id, n) /\ respuesta' = <<n, TRUE>>
    BY <1>2, <1>6
  <2>2. \E I : Toma(p, I) /\ Cardinality(I) = n
    BY <1>3, <1>4, <1>5, <1>6, <2>1, AsignaToma
  <2>3. QED
    BY <1>1, <1>3, <1>4, <1>5, <2>1, <2>2 DEF p, n
<1>7. CASE k = 0
  <2>1. tabla' = tabla /\ respuesta' = <<n, FALSE>>
    BY <1>2, <1>7
  <2>2. PICK j \in DOMAIN tabla : Libres(tabla) = {j}
    BY <1>4
  <2>3. memoria_total \in Nat /\ tabla \in Seq(Tramo(memoria_total))
    BY <1>3 DEF EnOrdenYa, Sano
  <2>4. SumaTam(tabla, Libres(tabla)) = tabla[j].tam
    BY <2>2, <2>3, SumaUno
  <2>5. Libre(tabla[j])
    BY <2>2 DEF Libres
  <2>6. n \in Nat
    BY <1>5
  <2>7. tabla[j].tam < n
    BY <1>7, <2>3, <2>5, <2>6, BuscaHuecoEs
  <2>8. QED
    BY <1>1, <1>3, <1>4, <1>5, <2>1, <2>4, <2>7 DEF p, n
<1>8. QED
  BY <1>6, <1>7

-----------------------------------------------------------------------------
(* The requests keep the invariant.                                         *)

LEMMA PasaConserva ==
    ASSUME IInv, EnOrdenYa, NEW p \in Pid, Pasa(p), UNCHANGED <<estrategia, sticks>>,
           respuesta' \in Nat \X BOOLEAN, PedidoOK', SwapOK'
    PROVE  IInv'
BY PasaDirecciones, QuedaBien

\* The table is as it was.
LEMMA IgualConserva ==
    ASSUME IInv, EnOrdenYa, UNCHANGED <<estrategia, sticks, tabla, segmentos_en_swap>>,
           respuesta' \in Nat \X BOOLEAN, PedidoOK'
    PROVE  IInv'
<1>1. Sano(tabla', memoria_total) /\ De(tabla', DOMAIN tabla') = 0 .. memoria_total - 1
  BY DEF EnOrdenYa
<1>2. SwapOK'
  <2>1. EnTabla' = EnTabla
    BY DEF sticks, EnTabla
  <2>2. QED
    BY <2>1 DEF IInv, SwapOK
<1>3. QED
  BY <1>1, <1>2, QuedaBien

LEMMA MemAllocConserva ==
    ASSUME IInv, ~EnCaliente, NEW p \in Pid, NEW id \in Id, NEW n \in Tam, MemAlloc(p, id, n)
    PROVE  IInv'
<1>1. EnOrdenYa /\ n \in Nat \ {0} /\ ~EnSwap(p) /\ UNCHANGED <<estrategia, sticks, segmentos_en_swap>>
  BY MemAllocEs
<1>2. ASSUME NEW I, Toma(p, I), respuesta' = <<n, TRUE>>, pedido' = Nadie PROVE IInv'
  <2>1. Pasa(p)
    BY <1>2 DEF Toma
  <2>2. PedidoOK'
    BY <1>2 DEF PedidoOK
  <2>3. SwapOK'
    BY <1>1, <2>1, PasaSwap
  <2>4. respuesta' \in Nat \X BOOLEAN
    BY <1>1, <1>2
  <2>5. QED
    BY <1>1, <2>1, <2>2, <2>3, <2>4, PasaConserva
<1>3. ASSUME UNCHANGED <<tabla, respuesta>>, pedido' = [paso |-> "compactar", pid |-> p, id |-> id, tam |-> n]
      PROVE  IInv'
  <2>1. PedidoOK'
    <3>1. ~EnSwap(p)'
      BY <1>1 DEF EnSwap
    <3>2. QED
      BY <1>3, <3>1 DEF PedidoOK, EnSwap
  <2>2. respuesta' \in Nat \X BOOLEAN
    BY <1>3 DEF IInv, Formas
  <2>3. QED
    BY <1>1, <1>3, <2>1, <2>2, IgualConserva
<1>4. QED
  BY <1>2, <1>3, MemAllocEs

LEMMA EmpiezaConserva ==
    ASSUME IInv, ~EnCaliente, EmpiezaCompactacion
    PROVE  IInv'
<1>1. /\ pedido # Nadie /\ pedido' = [pedido EXCEPT !.paso = "moviendo"]
      /\ UNCHANGED <<estrategia, tabla, sticks, segmentos_en_swap, respuesta>>
  BY DEF EmpiezaCompactacion
<1>2. EnOrdenYa
  BY <1>1, EnServicio
<1>3. PedidoOK'
  BY <1>1 DEF IInv, PedidoOK, EnSwap
<1>4. respuesta' \in Nat \X BOOLEAN
  BY <1>1 DEF IInv, Formas
<1>5. QED
  BY <1>1, <1>2, <1>3, <1>4, IgualConserva

LEMMA CompactaConserva ==
    ASSUME IInv, ~EnCaliente, Compacta
    PROVE  IInv'
<1>1. /\ EnOrdenYa /\ pedido # Nadie /\ pedido' = [pedido EXCEPT !.paso = "reasignar"]
      /\ Sano(tabla', memoria_total) /\ De(tabla', DOMAIN tabla') = 0 .. memoria_total - 1
      /\ \A p \in Pid : DePid(tabla, p) = {} => DePid(tabla', p) = {}
      /\ \E k \in DOMAIN tabla' : Libres(tabla') = {k}
      /\ UNCHANGED <<estrategia, sticks, segmentos_en_swap, respuesta>>
  BY CompactaEs
<1>2. PedidoOK'
  BY <1>1 DEF IInv, PedidoOK, EnSwap
<1>3. SwapOK'
  <2>1. EnTabla' = EnTabla
    BY <1>1 DEF sticks, EnTabla
  <2>2. SwapOK
    BY DEF IInv
  <2>3. QED
    BY <1>1, <2>1, <2>2 DEF SwapOK
<1>4. respuesta' \in Nat \X BOOLEAN
  BY <1>1 DEF IInv, Formas
<1>5. QED
  BY <1>1, <1>2, <1>3, <1>4, QuedaBien

LEMMA ReasignaConserva ==
    ASSUME IInv, ~EnCaliente, Reasigna
    PROVE  IInv'
<1>1. /\ EnOrdenYa /\ pedido' = Nadie /\ pedido.pid \in Pid /\ ~EnSwap(pedido.pid) /\ pedido.tam \in Nat
      /\ UNCHANGED <<estrategia, sticks, segmentos_en_swap>>
  BY ReasignaEs
<1>2. PedidoOK'
  BY <1>1 DEF PedidoOK
<1>3. ASSUME NEW I, Toma(pedido.pid, I), respuesta' = <<pedido.tam, TRUE>> PROVE IInv'
  <2>1. Pasa(pedido.pid)
    BY <1>3 DEF Toma
  <2>2. SwapOK'
    BY <1>1, <2>1, PasaSwap
  <2>3. respuesta' \in Nat \X BOOLEAN
    BY <1>1, <1>3
  <2>4. QED
    BY <1>1, <1>2, <2>1, <2>2, <2>3, PasaConserva
<1>4. ASSUME UNCHANGED tabla, respuesta' = <<pedido.tam, FALSE>> PROVE IInv'
  <2>1. respuesta' \in Nat \X BOOLEAN
    BY <1>1, <1>4
  <2>2. QED
    BY <1>1, <1>2, <1>4, <2>1, IgualConserva
<1>5. QED
  BY <1>3, <1>4, ReasignaEs

\* MEM_FREE and EXIT.
LEMMA DejaConserva ==
    ASSUME IInv, EnOrdenYa, NEW p \in Pid, NEW I, Deja(p, I), ~EnSwap(p), pedido = Nadie,
           UNCHANGED <<estrategia, sticks, pedido, segmentos_en_swap, respuesta>>
    PROVE  IInv'
<1>1. Pasa(p)
  BY DEF Deja
<1>2. PedidoOK'
  BY DEF PedidoOK
<1>3. SwapOK'
  BY <1>1, PasaSwap
<1>4. respuesta' \in Nat \X BOOLEAN
  BY DEF IInv, Formas
<1>5. QED
  BY <1>1, <1>2, <1>3, <1>4, PasaConserva

LEMMA SwapEscrituraConserva ==
    ASSUME IInv, ~EnCaliente, NEW p \in Pid, SwapEscritura(p)
    PROVE  IInv'
<1> DEFINE s == Sublista(tabla, DePid(tabla, p))
<1>1. /\ EnOrdenYa /\ Deja(p, Suyas(tabla, p)) /\ DePid(tabla', p) = {}
      /\ ~EnSwap(p) /\ pedido = Nadie
      /\ segmentos_en_swap' = [q \in DOMAIN segmentos_en_swap \cup {p} |->
                                   IF q = p THEN s ELSE segmentos_en_swap[q]]
      /\ s \in Seq(DeVuelta(p, memoria_total))
      /\ UNCHANGED <<estrategia, sticks, pedido, respuesta>>
  BY SwapEscrituraEs
<1> HIDE DEF s
<1>2. Pasa(p) /\ EnTabla = memoria_total /\ EnTabla' = EnTabla /\ SwapOK
  BY <1>1 DEF Deja, EnOrdenYa, EnTabla, sticks, IInv
<1>3. SwapOK'
  <2>1. DOMAIN segmentos_en_swap' = DOMAIN segmentos_en_swap \cup {p}
    BY <1>1
  <2>2. ASSUME NEW q \in DOMAIN segmentos_en_swap'
        PROVE  q \in Pid /\ DePid(tabla', q) = {} /\ segmentos_en_swap'[q] \in Seq(DeVuelta(q, EnTabla))
    <3>1. CASE q = p
      BY <1>1, <1>2, <3>1
    <3>2. CASE q # p
      <4>1. q \in DOMAIN segmentos_en_swap /\ segmentos_en_swap'[q] = segmentos_en_swap[q]
        BY <1>1, <2>1, <3>2
      <4>2. q \in Pid /\ DePid(tabla, q) = {} /\ segmentos_en_swap[q] \in Seq(DeVuelta(q, EnTabla))
        BY <1>2, <4>1 DEF SwapOK
      <4>3. DePid(tabla', q) = {}
        BY <1>1, <1>2, <3>2, <4>2, PasaOtros
      <4>4. QED
        BY <4>1, <4>2, <4>3
    <3>3. QED
      BY <3>1, <3>2
  <2>3. QED
    BY <1>2, <2>2 DEF SwapOK
<1>4. PedidoOK'
  BY <1>1 DEF PedidoOK
<1>5. respuesta' \in Nat \X BOOLEAN
  BY <1>1 DEF IInv, Formas
<1>6. QED
  BY <1>1, <1>2, <1>3, <1>4, <1>5, PasaConserva

LEMMA SwapLecturaConserva ==
    ASSUME IInv, ~EnCaliente, NEW p \in Pid, SwapLectura(p)
    PROVE  IInv'
<1> DEFINE total == SumaTam(segmentos_en_swap[p], DOMAIN segmentos_en_swap[p])
           libre == SumaTam(tabla, Libres(tabla))
<1>1. /\ EnOrdenYa /\ pedido = Nadie /\ total \in Nat /\ libre \in Nat
      /\ respuesta' = <<total, total <= libre>>
      /\ UNCHANGED <<estrategia, sticks, pedido>>
  BY SwapLecturaEs
<1>2. \/ /\ \E I : Toma(p, I)
         /\ segmentos_en_swap' = [q \in DOMAIN segmentos_en_swap \ {p} |-> segmentos_en_swap[q]]
      \/ UNCHANGED <<tabla, segmentos_en_swap>>
  BY SwapLecturaEs
<1> HIDE DEF total, libre
<1>3. respuesta' \in Nat \X BOOLEAN
  <2>1. (total <= libre) \in BOOLEAN
    BY <1>1
  <2>2. QED
    BY <1>1, <2>1
<1>4. PedidoOK'
  BY <1>1 DEF PedidoOK
<1>5. ASSUME NEW I, Toma(p, I),
             segmentos_en_swap' = [q \in DOMAIN segmentos_en_swap \ {p} |-> segmentos_en_swap[q]]
      PROVE  IInv'
  <2>1. Pasa(p) /\ EnTabla' = EnTabla /\ SwapOK
    BY <1>1, <1>5 DEF Toma, EnTabla, sticks, IInv
  <2>2. SwapOK'
    <3>1. ASSUME NEW q \in DOMAIN segmentos_en_swap'
          PROVE  q \in Pid /\ DePid(tabla', q) = {} /\ segmentos_en_swap'[q] \in Seq(DeVuelta(q, EnTabla))
      <4>1. q \in DOMAIN segmentos_en_swap /\ q # p /\ segmentos_en_swap'[q] = segmentos_en_swap[q]
        BY <1>5
      <4>2. q \in Pid /\ DePid(tabla, q) = {} /\ segmentos_en_swap[q] \in Seq(DeVuelta(q, EnTabla))
        BY <2>1, <4>1 DEF SwapOK
      <4>3. DePid(tabla', q) = {}
        BY <1>1, <2>1, <4>1, <4>2, PasaOtros
      <4>4. QED
        BY <4>1, <4>2, <4>3
    <3>2. QED
      BY <2>1, <3>1 DEF SwapOK
  <2>3. QED
    BY <1>1, <1>3, <1>4, <2>1, <2>2, PasaConserva
<1>6. ASSUME UNCHANGED <<tabla, segmentos_en_swap>> PROVE IInv'
  BY <1>1, <1>3, <1>4, <1>6, IgualConserva
<1>7. QED
  BY <1>2, <1>5, <1>6

LEMMA PasoConserva == IInv /\ ~EnCaliente /\ [Next]_vars => IInv'
<1> SUFFICES ASSUME IInv, ~EnCaliente, [Next]_vars PROVE IInv'
  OBVIOUS
<1>1. ASSUME NEW s \in Stick, LlegaStick(s) PROVE IInv'
  BY <1>1, LlegaStickConserva
<1>2. ASSUME NEW s \in Stick, ActualizaHueco(s) PROVE IInv'
  BY <1>2, ActualizaHuecoConserva
<1>3. ASSUME NEW p \in Pid, NEW id \in Id, NEW n \in Tam, MemAlloc(p, id, n) PROVE IInv'
  BY <1>3, MemAllocConserva
<1>4. ASSUME NEW p \in Pid, NEW id \in Id, MemFree(p, id) PROVE IInv'
  <2>1. /\ EnOrdenYa /\ \E I : Deja(p, I)
        /\ ~EnSwap(p) /\ pedido = Nadie
        /\ UNCHANGED <<estrategia, sticks, pedido, segmentos_en_swap, respuesta>>
    BY <1>4, MemFreeEs
  <2>2. QED
    BY <2>1, DejaConserva
<1>5. ASSUME NEW p \in Pid, LiberaTodos(p) PROVE IInv'
  <2>1. /\ EnOrdenYa /\ \E I : Deja(p, I)
        /\ ~EnSwap(p) /\ pedido = Nadie
        /\ UNCHANGED <<estrategia, sticks, pedido, segmentos_en_swap, respuesta>>
    BY <1>5, LiberaTodosEs
  <2>2. QED
    BY <2>1, DejaConserva
<1>6. ASSUME NEW p \in Pid, SwapEscritura(p) PROVE IInv'
  BY <1>6, SwapEscrituraConserva
<1>7. ASSUME NEW p \in Pid, SwapLectura(p) PROVE IInv'
  BY <1>7, SwapLecturaConserva
<1>8. ASSUME Compactacion PROVE IInv'
  BY <1>8, EmpiezaConserva, CompactaConserva, ReasignaConserva DEF Compactacion
<1>9. ASSUME UNCHANGED vars PROVE IInv'
  <2>1. UNCHANGED <<estrategia, tabla_segmentos_global, memoria_total, pc_stick, base_global, pedido, segmentos_en_swap, respuesta>>
    BY <1>9 DEF vars, tabla, sticks
  <2>2. EnTabla' = EnTabla /\ Dentro' = Dentro
    BY <2>1 DEF EnTabla, Dentro
  <2>3. QED
    BY <2>1, <2>2 DEF IInv, Formas, SticksOK, SticksTomado, TablaOK, Arranque, TodosDentro, PedidoOK, EnSwap, SwapOK, tabla
<1>10. QED
  BY <1>1, <1>2, <1>3, <1>4, <1>5, <1>6, <1>7, <1>8, <1>9 DEF Next

-----------------------------------------------------------------------------
(* The invariants of the runs.                                              *)

LEMMA SeqMayor ==
    ASSUME NEW S, NEW T, S \subseteq T, NEW s \in Seq(S)
    PROVE  s \in Seq(T)
BY SeqDef

\* What TypeOK says follows from the invariant.
LEMMA InvTipo == IInv => TypeOK
<1> SUFFICES ASSUME IInv PROVE TypeOK
  OBVIOUS
<1>1. Formas /\ SticksOK /\ TablaOK /\ Arranque /\ PedidoOK /\ SwapOK
  BY DEF IInv
<1>2. EnTabla \in Nat /\ memoria_total \in Nat
  BY <1>1, EnTablaNat DEF Formas
<1>3. EnTabla <= memoria_total
  <2>1. CASE SticksTomado
    <3>1. PICK s \in Stick : pc_stick[s] = "en_sticks"
      BY <2>1 DEF SticksTomado
    <3>2. memoria_total = EnTabla + Tamanio[s] /\ Tamanio[s] \in Nat
      BY <1>1, <3>1, TamAssumption DEF TamAssumption, SticksOK
    <3>3. QED
      BY <1>2, <3>2
  <2>2. CASE ~SticksTomado
    BY <1>1, <1>2, <2>2 DEF SticksOK
  <2>3. QED
    BY <2>1, <2>2
<1>4. tabla \in Seq(Segmento)
  <2>1. 0 .. EnTabla \subseteq 0 .. memoria_total
    BY <1>2, <1>3
  <2>2. Tramo(EnTabla) \subseteq Segmento
    BY <2>1 DEF Tramo, Segmento
  <2>3. tabla \in Seq(Tramo(EnTabla))
    BY <1>1 DEF TablaOK, Sano
  <2>4. QED
    BY <2>2, <2>3, SeqMayor
<1>5. ASSUME NEW p \in DOMAIN segmentos_en_swap PROVE segmentos_en_swap[p] \in Seq(DeProceso(p))
  <2>1. segmentos_en_swap[p] \in Seq(DeVuelta(p, EnTabla))
    BY <1>1 DEF SwapOK
  <2>2. 0 .. EnTabla \subseteq 0 .. memoria_total /\ 1 .. EnTabla \subseteq 1 .. memoria_total
    BY <1>2, <1>3
  <2>3. DeVuelta(p, EnTabla) \subseteq DeProceso(p)
    BY <2>2 DEF DeVuelta, DeProceso
  <2>4. QED
    BY <2>1, <2>3, SeqMayor
<1>6. QED
  BY <1>1, <1>4, <1>5 DEF TypeOK, Formas, PedidoOK, SwapOK

LEMMA InvParticion == IInv => Particion
BY DEF IInv, TablaOK, Sano, Disjuntos, De, Particion

LEMMA Invariante == ~EnCaliente => (Spec => []IInv)
<1>1. Init => IInv
  BY InicioEs
<1>2. IInv /\ ~EnCaliente /\ [Next]_vars => IInv'
  BY PasoConserva
<1>3. SUFFICES ASSUME ~EnCaliente PROVE Spec => []IInv
  OBVIOUS
<1>4. IInv /\ [Next]_vars => IInv'
  BY <1>2, <1>3
<1>5. QED
  BY <1>1, <1>4, PTL DEF Spec

\* The list, the requests and what SWAP keeps have their types, with bases and sizes
\* within the memory of the sticks, when the sticks connect before the requests.
THEOREM TypeCorrect == ASSUME ~EnCaliente PROVE Spec => []TypeOK
BY Invariante, InvTipo, PTL

\* The table divides the memory of the sticks: every address belongs to one segment
\* or hole and to no two, for every list that asignar_memoria, liberar_memoria and
\* compactar_memoria can leave, with either strategy.
THEOREM ParticionCorrecta == ASSUME ~EnCaliente PROVE Spec => []Particion
BY Invariante, InvParticion, PTL

-----------------------------------------------------------------------------
(* Seen by the number of units: SegmentTable implements MemoriaContada.     *)

Unid(p) == IF EnSwap(p) THEN SumaTam(segmentos_en_swap[p], DOMAIN segmentos_en_swap[p])
                        ELSE SumaTam(tabla, DePid(tabla, p))
Mem == [p \in Pid |-> Unid(p)]
Quedan == SumaTam(tabla, Libres(tabla))

\* What SWAP keeps of the others does not change.
OtrosEnSwap(p) ==
    \A q \in Pid : q # p =>
        /\ q \in DOMAIN segmentos_en_swap' <=> q \in DOMAIN segmentos_en_swap
        /\ q \in DOMAIN segmentos_en_swap => segmentos_en_swap'[q] = segmentos_en_swap[q]

LEMMA MemCambia ==
    ASSUME EnOrdenYa, NEW p \in Pid, Pasa(p), OtrosEnSwap(p)
    PROVE  Mem' = [Mem EXCEPT ![p] = Unid(p)']
<1>1. ASSUME NEW q \in Pid, q # p PROVE Unid(q)' = Unid(q)
  <2>1. SumaTam(tabla', DePid(tabla', q)) = SumaTam(tabla, DePid(tabla, q))
    BY <1>1, PasaOtros
  <2>2. /\ q \in DOMAIN segmentos_en_swap' <=> q \in DOMAIN segmentos_en_swap
        /\ q \in DOMAIN segmentos_en_swap => segmentos_en_swap'[q] = segmentos_en_swap[q]
    BY <1>1 DEF OtrosEnSwap
  <2>3. QED
    BY <2>1, <2>2 DEF Unid, EnSwap
<1>2. Mem' = [q \in Pid |-> Unid(q)']
  BY DEF Mem
<1> DEFINE v == Unid(p)'
<1> HIDE DEF v
<1>3. [Mem EXCEPT ![p] = v] = [q \in Pid |-> IF q = p THEN v ELSE Unid(q)]
  BY DEF Mem
<1>4. Mem' = [q \in Pid |-> IF q = p THEN v ELSE Unid(q)]
  BY <1>1, <1>2 DEF v
<1>5. QED
  BY <1>3, <1>4 DEF v

LEMMA TomaEsPide ==
    ASSUME EnOrdenYa, NEW p \in Pid, NEW I, Toma(p, I), NEW n \in Nat, Cardinality(I) = n,
           ~EnSwap(p), UNCHANGED segmentos_en_swap, respuesta' = <<n, TRUE>>
    PROVE  Cuenta!Pide(p)
<1>1. n <= Quedan /\ Quedan' = Quedan - n /\ Quedan \in Nat
  BY TomaCuenta, CuentaAntes DEF Quedan
<1>2. Unid(p) = SumaTam(tabla, DePid(tabla, p)) /\ Unid(p)' = Unid(p) + n
  BY TomaCuenta DEF Unid, EnSwap
<1>3. Mem' = [Mem EXCEPT ![p] = Unid(p)']
  BY MemCambia DEF Toma, OtrosEnSwap
<1>4. Mem' = [Mem EXCEPT ![p] = @ + n]
  BY <1>2, <1>3 DEF Mem
<1>5. respuesta' = <<n, n <= Quedan>> /\ respuesta'[1] = n
  BY <1>1
<1>6. UNCHANGED DOMAIN segmentos_en_swap /\ p \notin DOMAIN segmentos_en_swap
  BY DEF EnSwap
<1>7. QED
  BY <1>1, <1>4, <1>5, <1>6 DEF Cuenta!Pide, Mem, Unid, Quedan

\* Not enough units, compacted or not: nothing changes.
LEMMA FallaEsPide ==
    ASSUME EnOrdenYa, NEW p \in Pid, NEW n \in Nat, Quedan < n, ~EnSwap(p),
           UNCHANGED <<tabla, segmentos_en_swap>>, respuesta' = <<n, FALSE>>
    PROVE  Cuenta!Pide(p)
<1>1. Quedan \in Nat
  BY CuentaAntes DEF Quedan
<1>2. ~(n <= Quedan) /\ respuesta'[1] = n
  BY <1>1
<1>3. respuesta' = <<n, n <= Quedan>>
  <2>1. (n <= Quedan) = FALSE
    BY <1>2
  <2>2. QED
    BY <2>1
<1>4. Mem' = Mem /\ Quedan' = Quedan
  BY DEF Mem, Unid, EnSwap, Quedan
<1>5. UNCHANGED DOMAIN segmentos_en_swap /\ p \notin DOMAIN segmentos_en_swap
  BY DEF EnSwap
<1>6. QED
  BY <1>2, <1>3, <1>4, <1>5 DEF Cuenta!Pide, Mem, Unid, Quedan

\* The state MemoriaContada sees is as it was.
Quieto == Mem' = Mem /\ UNCHANGED DOMAIN segmentos_en_swap /\ Quedan' = Quedan /\ UNCHANGED respuesta

LEMMA QuietoEs == Quieto <=> UNCHANGED Cuenta!vars
BY DEF Quieto, Cuenta!vars, Mem, Unid, Quedan

\* A release of segments without units is a stutter.
LEMMA DejaEsDevuelve ==
    ASSUME EnOrdenYa, NEW p \in Pid, NEW I, Deja(p, I), ~EnSwap(p),
           UNCHANGED <<segmentos_en_swap, respuesta>>
    PROVE  Cuenta!Devuelve(p) \/ Quieto
<1> DEFINE k == Cardinality(I)
<1>1. k \in Nat /\ k <= SumaTam(tabla, DePid(tabla, p)) /\ Quedan' = Quedan + k /\ Quedan \in Nat
  BY DejaCuenta, CuentaAntes DEF Quedan
<1>2. /\ Unid(p) = SumaTam(tabla, DePid(tabla, p)) /\ Unid(p) \in Nat
      /\ Unid(p)' = Unid(p) - k
  BY DejaCuenta, CuentaAntes DEF Unid, EnSwap
<1>3. Mem' = [Mem EXCEPT ![p] = Unid(p)']
  BY MemCambia DEF Deja, OtrosEnSwap
<1> HIDE DEF k
<1>4. Mem' = [Mem EXCEPT ![p] = @ - k] /\ Mem[p] = Unid(p)
  BY <1>2, <1>3 DEF Mem
<1>5. UNCHANGED DOMAIN segmentos_en_swap /\ p \notin DOMAIN segmentos_en_swap
  BY DEF EnSwap
<1>6. CASE k = 0
  <2>1. Quedan' = Quedan /\ Unid(p)' = Unid(p)
    BY <1>1, <1>2, <1>6
  <2>2. [Mem EXCEPT ![p] = Unid(p)] = Mem
    BY DEF Mem
  <2>3. QED
    BY <1>3, <1>5, <2>1, <2>2 DEF Quieto
<1>7. CASE k # 0
  <2>1. k \in 1 .. Mem[p]
    BY <1>1, <1>2, <1>4, <1>7
  <2>2. QED
    BY <1>1, <1>4, <1>5, <2>1 DEF Cuenta!Devuelve, Mem, Unid, Quedan
<1>8. QED
  BY <1>6, <1>7

LEMMA EscrituraEsSuspende ==
    ASSUME IInv, ~EnCaliente, NEW p \in Pid, SwapEscritura(p)
    PROVE  Cuenta!Suspende(p)
<1> DEFINE s == Sublista(tabla, DePid(tabla, p))
           I == Suyas(tabla, p)
<1>1. /\ EnOrdenYa /\ Deja(p, I) /\ ~EnSwap(p)
      /\ segmentos_en_swap' = [q \in DOMAIN segmentos_en_swap \cup {p} |->
                                   IF q = p THEN s ELSE segmentos_en_swap[q]]
      /\ SumaTam(s, DOMAIN s) = SumaTam(tabla, DePid(tabla, p))
      /\ UNCHANGED respuesta
  BY SwapEscrituraEs
<1> HIDE DEF s
<1>2. Quedan' = Quedan + Cardinality(I) /\ Cardinality(I) = Unid(p)
  BY <1>1, DejaCuenta, CuentaAntes DEF Quedan, Unid, EnSwap
<1>3. DOMAIN segmentos_en_swap' = DOMAIN segmentos_en_swap \cup {p} /\ p \notin DOMAIN segmentos_en_swap
      /\ segmentos_en_swap'[p] = s
  BY <1>1 DEF EnSwap
<1>4. OtrosEnSwap(p)
  BY <1>1, <1>3 DEF OtrosEnSwap
<1>5. Unid(p)' = Unid(p)
  BY <1>1, <1>3 DEF Unid, EnSwap
<1>6. Mem' = [Mem EXCEPT ![p] = Unid(p)']
  BY <1>1, <1>4, MemCambia DEF Deja
<1>7. Mem' = Mem /\ Mem[p] = Unid(p)
  BY <1>5, <1>6 DEF Mem
<1>8. QED
  BY <1>1, <1>2, <1>3, <1>7 DEF Cuenta!Suspende, Mem, Unid, Quedan

LEMMA LecturaEsVuelve ==
    ASSUME IInv, ~EnCaliente, NEW p \in Pid, SwapLectura(p)
    PROVE  Cuenta!Vuelve(p)
<1> DEFINE total == SumaTam(segmentos_en_swap[p], DOMAIN segmentos_en_swap[p])
<1>1. /\ EnOrdenYa /\ EnSwap(p) /\ DePid(tabla, p) = {} /\ total \in Nat /\ Quedan \in Nat
      /\ respuesta' = <<total, total <= Quedan>>
      /\ \/ /\ total <= Quedan
            /\ \E I : Toma(p, I) /\ Cardinality(I) <= total
            /\ segmentos_en_swap' = [q \in DOMAIN segmentos_en_swap \ {p} |-> segmentos_en_swap[q]]
         \/ ~(total <= Quedan) /\ UNCHANGED <<tabla, segmentos_en_swap>>
  BY SwapLecturaEs DEF Quedan
<1> HIDE DEF total
<1>2. Mem[p] = total /\ p \in DOMAIN segmentos_en_swap
  BY <1>1 DEF Mem, Unid, EnSwap, total
<1>3. CASE ~(total <= Quedan) /\ UNCHANGED <<tabla, segmentos_en_swap>>
  <2>1. Mem' = Mem /\ Quedan' = Quedan /\ UNCHANGED DOMAIN segmentos_en_swap
    BY <1>3 DEF Mem, Unid, EnSwap, Quedan
  <2>2. QED
    BY <1>1, <1>2, <1>3, <2>1 DEF Cuenta!Vuelve, Mem, Unid, Quedan
<1>4. ASSUME NEW I, Toma(p, I), Cardinality(I) <= total, total <= Quedan,
             segmentos_en_swap' = [q \in DOMAIN segmentos_en_swap \ {p} |-> segmentos_en_swap[q]]
      PROVE  Cuenta!Vuelve(p)
  <2> DEFINE k == Cardinality(I)
  <2>1. k \in Nat /\ Quedan' = Quedan - k /\ SumaTam(tabla', DePid(tabla', p)) = SumaTam(tabla, DePid(tabla, p)) + k
    BY <1>1, <1>4, TomaCuenta DEF Quedan
  <2>2. SumaTam(tabla, DePid(tabla, p)) = 0
    BY <1>1, SumaNada
  <2>3. DOMAIN segmentos_en_swap' = DOMAIN segmentos_en_swap \ {p}
    BY <1>4
  <2>4. OtrosEnSwap(p)
    BY <1>4, <2>3 DEF OtrosEnSwap
  <2>5. Unid(p)' = k
    BY <2>1, <2>2, <2>3 DEF Unid, EnSwap
  <2>6. Mem' = [Mem EXCEPT ![p] = k]
    BY <1>1, <1>4, <2>4, <2>5, MemCambia DEF Toma
  <2>7. k \in 0 .. total
    BY <1>1, <1>4, <2>1
  <2> HIDE DEF k
  <2>8. \E j \in 0 .. Mem[p] : Mem' = [Mem EXCEPT ![p] = j] /\ Quedan' = Quedan - j
    BY <1>2, <2>1, <2>6, <2>7
  <2>9. Mem[p] <= Quedan /\ respuesta' = <<Mem[p], Mem[p] <= Quedan>>
    BY <1>1, <1>2, <1>4
  <2>10. QED
    BY <1>2, <2>3, <2>8, <2>9 DEF Cuenta!Vuelve, Mem, Unid, Quedan
<1>5. QED
  BY <1>1, <1>3, <1>4

LEMMA ActualizaEsCrece ==
    ASSUME IInv, NEW s \in Stick, ActualizaHueco(s)
    PROVE  Cuenta!Crece
<1>1. /\ EnTabla \in Nat /\ EnTabla' = EnTabla + Tamanio[s] /\ Tamanio[s] \in Nat \ {0}
      /\ (tabla = <<>> /\ EnTabla = 0) \/ tabla = <<Hueco(0, EnTabla)>>
      /\ tabla' = <<Hueco(0, EnTabla')>> /\ EnTabla' \in Nat
      /\ DOMAIN segmentos_en_swap = {} /\ UNCHANGED <<segmentos_en_swap, respuesta>>
  <2>1. /\ EnTabla \in Nat /\ EnTabla' = EnTabla + Tamanio[s] /\ Tamanio[s] \in Nat \ {0}
        /\ (tabla = <<>> /\ EnTabla = 0) \/ tabla = <<Hueco(0, EnTabla)>>
        /\ tabla' = <<Hueco(0, EnTabla')>>
        /\ DOMAIN segmentos_en_swap = {}
    BY ActualizaHuecoEs
  <2>2. UNCHANGED <<segmentos_en_swap, respuesta>>
    BY DEF ActualizaHueco
  <2>3. EnTabla' \in Nat
    BY <2>1
  <2>4. QED
    BY <2>1, <2>2, <2>3
<1>2. Quedan' = EnTabla' /\ \A p \in Pid : DePid(tabla', p) = {}
  BY <1>1, UnHueco DEF Quedan
<1>3. Quedan = EnTabla /\ \A p \in Pid : DePid(tabla, p) = {}
  <2>1. CASE tabla = <<>> /\ EnTabla = 0
    <3>1. Libres(tabla) = {} /\ \A p \in Pid : DePid(tabla, p) = {}
      BY <2>1 DEF Libres, DePid
    <3>2. QED
      BY <2>1, <3>1, SumaNada DEF Quedan
  <2>2. CASE tabla = <<Hueco(0, EnTabla)>>
    BY <1>1, <2>2, UnHueco DEF Quedan
  <2>3. QED
    BY <1>1, <2>1, <2>2
<1>4. \A p \in Pid : Unid(p) = 0 /\ Unid(p)' = 0
  BY <1>1, <1>2, <1>3, SumaNada DEF Unid, EnSwap
<1>5. Mem' = Mem
  BY <1>4 DEF Mem
<1>6. Quedan' > Quedan
  BY <1>1, <1>2, <1>3
<1>7. UNCHANGED DOMAIN segmentos_en_swap
  BY <1>1
<1>8. QED
  BY <1>1, <1>5, <1>6, <1>7 DEF Cuenta!Crece, Mem, Unid, Quedan

LEMMA CompactaEsQuieto ==
    ASSUME IInv, ~EnCaliente, Compacta
    PROVE  Quieto
<1>1. /\ \A p \in Pid : SumaTam(tabla', DePid(tabla', p)) = SumaTam(tabla, DePid(tabla, p))
      /\ SumaTam(tabla', Libres(tabla')) = SumaTam(tabla, Libres(tabla))
      /\ UNCHANGED <<estrategia, sticks, segmentos_en_swap, respuesta>>
  BY CompactaEs
<1>2. \A p \in Pid : Unid(p)' = Unid(p)
  BY <1>1 DEF Unid, EnSwap
<1>3. QED
  BY <1>1, <1>2 DEF Quieto, Mem, Quedan

LEMMA TablaQuieta ==
    ASSUME UNCHANGED <<tabla, segmentos_en_swap, respuesta>>
    PROVE  Quieto
BY DEF Quieto, Mem, Unid, EnSwap, Quedan

\* Every step of SegmentTable is a step of MemoriaContada or a stutter.
LEMMA PasoCuenta == IInv /\ ~EnCaliente /\ [Next]_vars => [Cuenta!Next]_Cuenta!vars
<1> SUFFICES ASSUME IInv, ~EnCaliente, [Next]_vars PROVE Cuenta!Next \/ Quieto
  BY QuietoEs
<1>1. ASSUME NEW s \in Stick, LlegaStick(s) PROVE Quieto
  BY <1>1, TablaQuieta DEF LlegaStick
<1>2. ASSUME NEW s \in Stick, ActualizaHueco(s) PROVE Cuenta!Next
  BY <1>2, ActualizaEsCrece DEF Cuenta!Next
<1>3. ASSUME NEW p \in Pid, NEW id \in Id, NEW n \in Tam, MemAlloc(p, id, n) PROVE Cuenta!Next \/ Quieto
  <2>1. EnOrdenYa /\ n \in Nat /\ ~EnSwap(p) /\ UNCHANGED segmentos_en_swap
    BY <1>3, MemAllocEs
  <2>2. ASSUME NEW I, Toma(p, I), Cardinality(I) = n, respuesta' = <<n, TRUE>> PROVE Cuenta!Pide(p)
    BY <2>1, <2>2, TomaEsPide
  <2>3. ASSUME UNCHANGED <<tabla, respuesta>> PROVE Quieto
    BY <2>1, <2>3, TablaQuieta
  <2>4. QED
    BY <1>3, <2>2, <2>3, MemAllocEs DEF Cuenta!Next
<1>4. ASSUME NEW p \in Pid, NEW id \in Id, MemFree(p, id) PROVE Cuenta!Next \/ Quieto
  <2>1. EnOrdenYa /\ (\E I : Deja(p, I)) /\ ~EnSwap(p) /\ UNCHANGED <<segmentos_en_swap, respuesta>>
    BY <1>4, MemFreeEs
  <2>2. QED
    BY <2>1, DejaEsDevuelve DEF Cuenta!Next
<1>5. ASSUME NEW p \in Pid, LiberaTodos(p) PROVE Cuenta!Next \/ Quieto
  <2>1. EnOrdenYa /\ (\E I : Deja(p, I)) /\ ~EnSwap(p) /\ UNCHANGED <<segmentos_en_swap, respuesta>>
    BY <1>5, LiberaTodosEs
  <2>2. QED
    BY <2>1, DejaEsDevuelve DEF Cuenta!Next
<1>6. ASSUME NEW p \in Pid, SwapEscritura(p) PROVE Cuenta!Next
  BY <1>6, EscrituraEsSuspende DEF Cuenta!Next
<1>7. ASSUME NEW p \in Pid, SwapLectura(p) PROVE Cuenta!Next
  BY <1>7, LecturaEsVuelve DEF Cuenta!Next
<1>8. ASSUME EmpiezaCompactacion PROVE Quieto
  BY <1>8, TablaQuieta DEF EmpiezaCompactacion
<1>9. ASSUME Compacta PROVE Quieto
  BY <1>9, CompactaEsQuieto
<1>10. ASSUME Reasigna PROVE Cuenta!Next
  <2>1. /\ EnOrdenYa /\ pedido.pid \in Pid /\ ~EnSwap(pedido.pid) /\ pedido.tam \in Nat
        /\ UNCHANGED segmentos_en_swap
    BY <1>10, ReasignaEs
  <2>2. ASSUME NEW I, Toma(pedido.pid, I), Cardinality(I) = pedido.tam, respuesta' = <<pedido.tam, TRUE>>
        PROVE  Cuenta!Pide(pedido.pid)
    BY <2>1, <2>2, TomaEsPide
  <2>3. ASSUME Quedan < pedido.tam, UNCHANGED tabla, respuesta' = <<pedido.tam, FALSE>>
        PROVE  Cuenta!Pide(pedido.pid)
    BY <2>1, <2>3, FallaEsPide
  <2>4. Cuenta!Pide(pedido.pid)
    BY <1>10, <2>2, <2>3, ReasignaEs DEF Quedan
  <2>5. QED
    BY <2>1, <2>4 DEF Cuenta!Next
<1>11. ASSUME UNCHANGED vars PROVE Quieto
  BY <1>11, TablaQuieta DEF vars
<1>12. QED
  BY <1>1, <1>2, <1>3, <1>4, <1>5, <1>6, <1>7, <1>8, <1>9, <1>10, <1>11 DEF Next, Compactacion

LEMMA InicioCuenta == Init => Cuenta!Init
<1> SUFFICES ASSUME Init PROVE Cuenta!Init
  OBVIOUS
<1>1. tabla = <<>> /\ segmentos_en_swap = <<>> /\ respuesta = <<0, TRUE>>
  BY DEF Init, tabla
<1>2. DOMAIN segmentos_en_swap = {} /\ Libres(tabla) = {} /\ \A p \in Pid : DePid(tabla, p) = {}
  BY <1>1 DEF Libres, DePid
<1>3. Quedan = 0 /\ \A p \in Pid : Unid(p) = 0
  BY <1>2, SumaNada DEF Quedan, Unid, EnSwap
<1>4. Mem = [p \in Pid |-> 0]
  BY <1>3 DEF Mem
<1>5. QED
  BY <1>1, <1>2, <1>3, <1>4 DEF Cuenta!Init, Mem, Unid, Quedan

\* kernel_memory grants units exactly when enough are free, gives back what is freed
\* or swapped out, and lets a process return exactly when what it had fits: wherever
\* the holes are, the compaction makes the difference nobody sees.
THEOREM CuentaCorrecta == ASSUME ~EnCaliente PROVE Spec => CumpleCuenta
<1>1. Init => Cuenta!Init
  BY InicioCuenta
<1>2. IInv /\ [Next]_vars => [Cuenta!Next]_Cuenta!vars
  BY PasoCuenta
<1>3. Spec => []IInv
  BY Invariante
<1>4. QED
  BY <1>1, <1>2, <1>3, PTL DEF Spec, CumpleCuenta, Cuenta!Spec

=============================================================================

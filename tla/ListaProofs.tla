---------------------------- MODULE ListaProofs ----------------------------
(***************************************************************************)
(* What the operators of SegmentTable do to a list of segments, for any    *)
(* processes, sizes and either strategy: the search of a hole, the split,  *)
(* the release, the sort and the merge, the return from SWAP and the       *)
(* compaction.  SegmentTableProofs draws the invariants from these.        *)
(*                                                                         *)
(* What a process has is followed as the set of its addresses: splitting,  *)
(* merging and sorting act on such sets in a simple way, and while the     *)
(* segments are disjoint the units of some of them are as many as their    *)
(* addresses (UnidadesSonDirecciones).                                     *)
(***************************************************************************)
EXTENDS SegmentTable, FiniteSetTheorems, SequenceTheorems, TLAPS

-----------------------------------------------------------------------------
(* Numbers: least elements, induction and recursion up to n, over sets.     *)

LEMMA MenorNat ==
    ASSUME NEW S, S \subseteq Nat, S # {}
    PROVE  \E x \in S : \A y \in S : x <= y
<1>1. PICK x \in S : \A y \in S : ~(<<y, x>> \in OpToRel(<, Nat))
  BY WFMin, NatLessThanWellFounded, Zenon
<1>2. ASSUME NEW y \in S PROVE x <= y
  <2>1. <<y, x>> \in Nat \X Nat
    OBVIOUS
  <2>2. ~(y < x)
    BY <1>1, <2>1 DEF OpToRel
  <2>3. QED
    BY <2>2
<1>3. QED
  BY <1>2

LEMMA Induccion ==
    ASSUME NEW n \in Nat, NEW G, 0 \in G, \A i \in 1 .. n : i - 1 \in G => i \in G
    PROVE  \A i \in 0 .. n : i \in G
<1> DEFINE Malos == {i \in 0 .. n : i \notin G}
<1> SUFFICES ASSUME Malos # {} PROVE FALSE
  OBVIOUS
<1>0. Malos \subseteq Nat
  OBVIOUS
<1>1. PICK i \in Malos : \A j \in Malos : i <= j
  <2> HIDE DEF Malos
  <2>1. QED
    BY <1>0, MenorNat
<1>2. i # 0 /\ i \in 1 .. n /\ i - 1 \in 0 .. n
  BY <1>1
<1>3. i - 1 \in G
  BY <1>1, <1>2
<1>4. QED
  BY <1>2, <1>3

\* A state b, and a step from the state after i - 1 to the one after i.
Recorre(f, n, X, b, paso) ==
    /\ f \in [0 .. n -> X]
    /\ f[0] = b
    /\ \A i \in 1 .. n : f[i] = paso[<<i, f[i - 1]>>]

LEMMA Recursion ==
    ASSUME NEW n \in Nat, NEW X, NEW b \in X, NEW paso \in [(1 .. n) \X X -> X]
    PROVE  \E f : Recorre(f, n, X, b, paso)
<1> DEFINE Hasta(i, f) == f[0] = b /\ \A j \in 1 .. i : f[j] = paso[<<j, f[j - 1]>>]
           Hay(i) == \E f \in [0 .. i -> X] : Hasta(i, f)
           G == {i \in 0 .. n : Hay(i)}
<1>1. Hay(0)
  <2> DEFINE g == [j \in 0 .. 0 |-> b]
  <2>1. g \in [0 .. 0 -> X] /\ Hasta(0, g)
    OBVIOUS
  <2> HIDE DEF g, Hasta
  <2>2. QED
    BY <2>1
<1>2. ASSUME NEW i \in 1 .. n, Hay(i - 1) PROVE Hay(i)
  <2>1. PICK f \in [0 .. i - 1 -> X] : Hasta(i - 1, f)
    <3> HIDE DEF Hasta
    <3>1. QED
      BY <1>2
  <2> DEFINE g == [j \in 0 .. i |-> IF j = i THEN paso[<<i, f[i - 1]>>] ELSE f[j]]
  <2>2. g \in [0 .. i -> X]
    <3>1. f[i - 1] \in X
      OBVIOUS
    <3>2. paso[<<i, f[i - 1]>>] \in X
      BY <3>1
    <3>3. ASSUME NEW j \in 0 .. i, j # i PROVE f[j] \in X
      BY <3>3
    <3>4. QED
      BY <3>2, <3>3
  <2>3. g[0] = b
    BY <2>1
  <2>4. ASSUME NEW j \in 1 .. i PROVE g[j] = paso[<<j, g[j - 1]>>]
    <3>1. g[j - 1] = f[j - 1]
      OBVIOUS
    <3>2. CASE j = i
      <4>1. g[i] = paso[<<i, f[i - 1]>>]
        OBVIOUS
      <4> HIDE DEF g
      <4>2. QED
        BY <3>1, <3>2, <4>1
    <3>3. CASE j # i
      <4>1. g[j] = f[j] /\ j \in 1 .. i - 1
        BY <3>3
      <4>2. f[j] = paso[<<j, f[j - 1]>>]
        BY <2>1, <4>1
      <4> HIDE DEF g
      <4>3. QED
        BY <3>1, <4>1, <4>2
    <3>4. QED
      BY <3>2, <3>3
  <2>5. Hasta(i, g)
    <3> HIDE DEF g
    <3>1. QED
      BY <2>3, <2>4
  <2> HIDE DEF g, Hasta
  <2>6. QED
    BY <2>2, <2>5
<1> HIDE DEF Hay
<1>3. 0 \in G /\ \A i \in 1 .. n : i - 1 \in G => i \in G
  BY <1>1, <1>2
<1>4. n \in G
  <2> HIDE DEF G
  <2>1. QED
    BY <1>3, Induccion
<1>5. QED
  BY <1>4 DEF Hay, Recorre

LEMMA Hasta ==
    ASSUME NEW n \in Nat
    PROVE  IsFiniteSet(1 .. n) /\ Cardinality(1 .. n) = n
BY FS_Interval

-----------------------------------------------------------------------------
(* Counting the units of some segments of a list.                           *)

Tramo(M) == [pid : Pid \cup {Nadie}, id : Id \cup {Nadie}, base : 0 .. M, tam : 0 .. M]
Unidades(tam, K) == UNION {{k} \X (1 .. tam[k]) : k \in K}
De(t, K) == UNION {Direcciones(t[k]) : k \in K}
Disjuntos(t) == \A j, k \in DOMAIN t : j # k => Direcciones(t[j]) \cap Direcciones(t[k]) = {}

LEMMA EnUnidades ==
    ASSUME NEW tam, NEW K, NEW u
    PROVE  u \in Unidades(tam, K) <=> \E k \in K : u \in {k} \X (1 .. tam[k])
BY DEF Unidades

LEMMA EnDe ==
    ASSUME NEW t, NEW K, NEW a
    PROVE  a \in De(t, K) <=> \E k \in K : a \in Direcciones(t[k])
BY DEF De

LEMMA SumaEs ==
    ASSUME NEW t, NEW K
    PROVE  SumaTam(t, K) = Cardinality(Unidades([k \in DOMAIN t |-> t[k].tam], K))
BY DEF SumaTam, Suma, Unidades

LEMMA TramoTipo ==
    ASSUME NEW M \in Nat, NEW t \in Seq(Tramo(M)), NEW k \in DOMAIN t
    PROVE  /\ k \in 1 .. Len(t) /\ Len(t) \in Nat /\ t[k] \in Tramo(M)
           /\ t[k].base \in 0 .. M /\ t[k].tam \in 0 .. M
           /\ t[k].pid \in Pid \cup {Nadie} /\ t[k].id \in Id \cup {Nadie}
<1>1. k \in 1 .. Len(t) /\ Len(t) \in Nat
  BY LenProperties
<1>2. t[k] \in Tramo(M)
  BY <1>1, ElementOfSeq
<1>3. QED
  BY <1>1, <1>2 DEF Tramo

LEMMA UnidadesFinitas ==
    ASSUME NEW M \in Nat, NEW t \in Seq(Tramo(M)), NEW K \in SUBSET DOMAIN t
    PROVE  IsFiniteSet(Unidades([k \in DOMAIN t |-> t[k].tam], K)) /\ SumaTam(t, K) \in Nat
<1> DEFINE tam == [k \in DOMAIN t |-> t[k].tam]
<1>1. Unidades(tam, K) \subseteq (1 .. Len(t)) \X (1 .. M)
  <2> SUFFICES ASSUME NEW u \in Unidades(tam, K) PROVE u \in (1 .. Len(t)) \X (1 .. M)
    OBVIOUS
  <2>1. PICK k \in K : u \in {k} \X (1 .. t[k].tam)
    BY EnUnidades
  <2>2. k \in 1 .. Len(t) /\ t[k].tam \in 0 .. M
    BY TramoTipo
  <2>3. QED
    BY <2>1, <2>2
<1>2. Len(t) \in Nat
  BY LenProperties
<1>3. IsFiniteSet((1 .. Len(t)) \X (1 .. M))
  <2>1. IsFiniteSet(1 .. Len(t)) /\ IsFiniteSet(1 .. M)
    BY <1>2, FS_Interval
  <2>2. QED
    BY <2>1, FS_Product
<1>4. IsFiniteSet(Unidades(tam, K))
  BY <1>1, <1>3, FS_Subset
<1>5. SumaTam(t, K) \in Nat
  BY <1>4, FS_CardinalityType, SumaEs
<1>6. QED
  BY <1>4, <1>5

LEMMA DireccionesDe ==
    ASSUME NEW M \in Nat, NEW t \in Seq(Tramo(M)), NEW k \in DOMAIN t, NEW a
    PROVE  a \in Direcciones(t[k]) <=> a \in Nat /\ t[k].base <= a /\ a < t[k].base + t[k].tam
<1>1. t[k].base \in Nat /\ t[k].tam \in Nat
  BY TramoTipo
<1>2. QED
  BY <1>1 DEF Direcciones

LEMMA DireccionesFinitas ==
    ASSUME NEW M \in Nat, NEW t \in Seq(Tramo(M)), NEW K \in SUBSET DOMAIN t
    PROVE  IsFiniteSet(De(t, K)) /\ De(t, K) \subseteq Nat
<1>1. ASSUME NEW a \in De(t, K) PROVE a \in 0 .. 2 * M
  <2>1. PICK k \in K : a \in Direcciones(t[k])
    BY EnDe
  <2>2. a \in Nat /\ a < t[k].base + t[k].tam /\ t[k].base \in 0 .. M /\ t[k].tam \in 0 .. M
    BY <2>1, DireccionesDe, TramoTipo
  <2>3. QED
    BY <2>2
<1>2. IsFiniteSet(0 .. 2 * M)
  BY FS_Interval
<1>3. QED
  BY <1>1, <1>2, FS_Subset

LEMMA UnidadesSonDirecciones ==
    ASSUME NEW M \in Nat, NEW t \in Seq(Tramo(M)), Disjuntos(t), NEW K \in SUBSET DOMAIN t
    PROVE  SumaTam(t, K) = Cardinality(De(t, K))
<1> DEFINE tam == [k \in DOMAIN t |-> t[k].tam]
           U == Unidades(tam, K)
           f == [u \in U |-> t[u[1]].base + u[2] - 1]
<1>1. ASSUME NEW u \in U
      PROVE  /\ u = <<u[1], u[2]>> /\ u[1] \in K /\ u[2] \in Nat
             /\ t[u[1]].base \in Nat /\ f[u] = t[u[1]].base + u[2] - 1
             /\ f[u] \in Direcciones(t[u[1]])
  <2>1. PICK k \in K : u \in {k} \X (1 .. tam[k])
    BY EnUnidades
  <2>2. u = <<u[1], u[2]>> /\ u[1] = k /\ u[2] \in 1 .. t[k].tam /\ f[u] = t[k].base + u[2] - 1
    BY <2>1
  <2>3. t[k].base \in Nat /\ t[k].tam \in Nat
    BY TramoTipo
  <2>4. u[2] \in Nat /\ f[u] \in Direcciones(t[k])
    BY <2>2, <2>3 DEF Direcciones
  <2>5. QED
    BY <2>2, <2>3, <2>4
<1>2. \A u \in U : f[u] \in De(t, K)
  BY <1>1, EnDe
<1>3. ASSUME NEW u \in U, NEW v \in U, f[u] = f[v] PROVE u = v
  <2>1. u[1] = v[1]
    BY <1>1, <1>3 DEF Disjuntos
  <2>2. u[2] = v[2]
    <3> HIDE DEF f
    <3>1. QED
      BY <1>1, <1>3, <2>1
  <2>3. QED
    BY <1>1, <2>1, <2>2
<1>4. ASSUME NEW a \in De(t, K) PROVE \E u \in U : f[u] = a
  <2>1. PICK k \in K : a \in Direcciones(t[k])
    BY EnDe
  <2>2. a \in Nat /\ t[k].base \in Nat /\ t[k].tam \in Nat /\ t[k].base <= a /\ a < t[k].base + t[k].tam
    BY <2>1, DireccionesDe, TramoTipo
  <2> DEFINE u == <<k, a - t[k].base + 1>>
  <2>3. a - t[k].base + 1 \in 1 .. t[k].tam /\ t[k].base + (a - t[k].base + 1) - 1 = a
    BY <2>2
  <2>4. u \in U
    BY <2>3, EnUnidades
  <2>5. f[u] = t[k].base + (a - t[k].base + 1) - 1
    BY <2>4
  <2>6. QED
    BY <2>3, <2>4, <2>5
<1>5. f \in Injection(U, De(t, K)) /\ f \in Surjection(U, De(t, K))
  BY <1>2, <1>3, <1>4 DEF Injection, Surjection, IsInjective
<1>6. Cardinality(U) = Cardinality(De(t, K))
  BY <1>5, DireccionesFinitas, FS_Injection
<1>7. QED
  BY <1>6, SumaEs

LEMMA Pone ==
    ASSUME NEW n \in Nat, NEW S, NEW s, DOMAIN s = 1 .. n, \A i \in 1 .. n : s[i] \in S,
           s = [i \in 1 .. n |-> s[i]]
    PROVE  s \in Seq(S) /\ Len(s) = n
BY SeqDef, LenProperties

\* f names no position twice, and the positions that f gives the members of L.
SinRepetir(f, n) == \A i, j \in 1 .. n : f[i] = f[j] => i = j
Imagen(f, L) == {f[i] : i \in L}

\* The units of a selection of a list are those of the positions selected.
LEMMA SumaElige ==
    ASSUME NEW M \in Nat, NEW t \in Seq(Tramo(M)), NEW n \in Nat, NEW f \in [1 .. n -> DOMAIN t],
           SinRepetir(f, n), NEW L, L \subseteq 1 .. n
    PROVE  SumaTam(Elige(t, f), L) = SumaTam(t, Imagen(f, L))
<1> DEFINE s == Elige(t, f)
           K == {f[i] : i \in L}
           U == Unidades([k \in DOMAIN s |-> s[k].tam], L)
           V == Unidades([k \in DOMAIN t |-> t[k].tam], K)
           g == [u \in U |-> <<f[u[1]], u[2]>>]
<1>0. Imagen(f, L) = K /\ \A i, j \in 1 .. n : f[i] = f[j] => i = j
  BY DEF Imagen, SinRepetir
<1>1. DOMAIN s = 1 .. n /\ \A i \in 1 .. n : s[i] = t[f[i]]
  BY DEF Elige
<1>2. ASSUME NEW u PROVE u \in U <=> u = <<u[1], u[2]>> /\ u[1] \in L /\ u[2] \in 1 .. t[f[u[1]]].tam
  <2>1. u \in U <=> \E i \in L : u \in {i} \X (1 .. [k \in DOMAIN s |-> s[k].tam][i])
    BY EnUnidades
  <2> DEFINE tam == [k \in DOMAIN s |-> s[k].tam]
  <2>2. \A i \in L : tam[i] = t[f[i]].tam
    BY <1>1
  <2> HIDE DEF s, U, tam
  <2>3. u \in U <=> \E i \in L : u \in {i} \X (1 .. tam[i])
    BY <2>1 DEF tam
  <2>4. u \in U <=> \E i \in L : u \in {i} \X (1 .. t[f[i]].tam)
    BY <2>2, <2>3
  <2>5. QED
    BY <2>4
<1>3. ASSUME NEW u PROVE u \in V <=> u = <<u[1], u[2]>> /\ u[1] \in K /\ u[2] \in 1 .. t[u[1]].tam
  <2>1. u \in V <=> \E k \in K : u \in {k} \X (1 .. t[k].tam)
    BY EnUnidades
  <2> HIDE DEF V
  <2>2. QED
    BY <2>1
<1> HIDE DEF s, U, V
<1>4. g \in [U -> V]
  BY <1>2, <1>3
<1>5. ASSUME NEW u \in U, NEW v \in U, g[u] = g[v] PROVE u = v
  <2>1. f[u[1]] = f[v[1]] /\ u[2] = v[2]
    BY <1>5
  <2>2. QED
    BY <1>0, <1>2, <2>1
<1>6. ASSUME NEW v \in V PROVE \E u \in U : g[u] = v
  <2>1. PICK i \in L : v[1] = f[i]
    BY <1>3
  <2>2. <<i, v[2]>> \in U
    BY <1>2, <1>3, <2>1
  <2>3. QED
    BY <1>3, <2>1, <2>2
<1>7. g \in Injection(U, V) /\ g \in Surjection(U, V)
  BY <1>4, <1>5, <1>6 DEF Injection, Surjection, IsInjective
<1>8. K \subseteq DOMAIN t
  OBVIOUS
<1>9. Cardinality(U) = Cardinality(V)
  BY <1>7, <1>8, UnidadesFinitas, FS_Injection DEF V
<1>10. QED
  BY <1>0, <1>9, SumaEs DEF s, U, V

\* Two lists with the same sizes at some positions have the same units there.
LEMMA SumaIgual ==
    ASSUME NEW s, NEW t, NEW K, K \subseteq DOMAIN s, K \subseteq DOMAIN t, \A k \in K : s[k].tam = t[k].tam
    PROVE  SumaTam(s, K) = SumaTam(t, K)
<1> DEFINE st == [k \in DOMAIN s |-> s[k].tam]
           tt == [k \in DOMAIN t |-> t[k].tam]
<1>1. \A k \in K : st[k] = tt[k]
  OBVIOUS
<1> HIDE DEF st, tt
<1>2. Unidades(st, K) = Unidades(tt, K)
  <2>1. ASSUME NEW u PROVE u \in Unidades(st, K) <=> u \in Unidades(tt, K)
    BY <1>1, EnUnidades
  <2>2. QED
    BY <2>1
<1>3. QED
  BY <1>2, SumaEs DEF st, tt

\* A position more is at least its units more, and one alone has its own.
LEMMA SumaCrece ==
    ASSUME NEW M \in Nat, NEW t \in Seq(Tramo(M)), NEW L \in SUBSET DOMAIN t, NEW K \in SUBSET L,
           NEW j \in L, j \notin K
    PROVE  SumaTam(t, K) + t[j].tam <= SumaTam(t, L)
<1> DEFINE tam == [k \in DOMAIN t |-> t[k].tam]
           J == {j} \X (1 .. tam[j])
<1>1. IsFiniteSet(Unidades(tam, L)) /\ IsFiniteSet(Unidades(tam, K))
  BY UnidadesFinitas
<1>2. tam[j] = t[j].tam /\ t[j].tam \in Nat
  BY TramoTipo
<1>3. IsFiniteSet(J) /\ Cardinality(J) = t[j].tam
  <2>1. IsFiniteSet({j}) /\ Cardinality({j}) = 1
    BY FS_Singleton
  <2>2. IsFiniteSet(1 .. t[j].tam) /\ Cardinality(1 .. t[j].tam) = t[j].tam
    BY <1>2, Hasta
  <2>3. IsFiniteSet({j} \X (1 .. t[j].tam)) /\ Cardinality({j} \X (1 .. t[j].tam)) = Cardinality({j}) * Cardinality(1 .. t[j].tam)
    BY <2>1, <2>2, FS_Product
  <2>4. 1 * t[j].tam = t[j].tam
    BY <1>2
  <2>5. QED
    BY <1>2, <2>1, <2>2, <2>3, <2>4
<1> HIDE DEF tam
<1>4. J \cap Unidades(tam, K) = {}
  <2>1. ASSUME NEW u \in J, u \in Unidades(tam, K) PROVE FALSE
    BY <2>1, EnUnidades
  <2>2. QED
    BY <2>1
<1>5. Unidades(tam, K) \cup J \subseteq Unidades(tam, L)
  <2>1. ASSUME NEW u, u \in Unidades(tam, K) \/ u \in J PROVE u \in Unidades(tam, L)
    BY <2>1, EnUnidades
  <2>2. QED
    BY <2>1
<1>6. /\ IsFiniteSet(Unidades(tam, K) \cup J)
      /\ Cardinality(Unidades(tam, K) \cup J) = Cardinality(Unidades(tam, K)) + Cardinality(J)
                                                - Cardinality(Unidades(tam, K) \cap J)
  BY <1>1, <1>3, FS_Union
<1>7. Cardinality(Unidades(tam, K) \cap J) = 0
  BY <1>4, FS_EmptySet
<1>8. Cardinality(Unidades(tam, K) \cup J) <= Cardinality(Unidades(tam, L))
  BY <1>1, <1>5, FS_Subset
<1>9. SumaTam(t, K) = Cardinality(Unidades(tam, K)) /\ SumaTam(t, L) = Cardinality(Unidades(tam, L))
  BY SumaEs DEF tam
<1>10. SumaTam(t, K) \in Nat /\ SumaTam(t, L) \in Nat
  BY UnidadesFinitas
<1>11. QED
  BY <1>2, <1>3, <1>6, <1>7, <1>8, <1>9, <1>10

LEMMA SumaUno ==
    ASSUME NEW M \in Nat, NEW t \in Seq(Tramo(M)), NEW j \in DOMAIN t
    PROVE  SumaTam(t, {j}) = t[j].tam
<1> DEFINE tam == [k \in DOMAIN t |-> t[k].tam]
<1>1. tam[j] = t[j].tam /\ t[j].tam \in Nat
  BY TramoTipo
<1> HIDE DEF tam
<1>2. Unidades(tam, {j}) = {j} \X (1 .. t[j].tam)
  BY <1>1, EnUnidades
<1>3. IsFiniteSet({j}) /\ Cardinality({j}) = 1
  BY FS_Singleton
<1>4. IsFiniteSet(1 .. t[j].tam) /\ Cardinality(1 .. t[j].tam) = t[j].tam
  BY <1>1, Hasta
<1>5. Cardinality({j} \X (1 .. t[j].tam)) = Cardinality({j}) * Cardinality(1 .. t[j].tam)
  BY <1>3, <1>4, FS_Product
<1>6. 1 * t[j].tam = t[j].tam
  BY <1>1
<1>7. QED
  BY <1>2, <1>3, <1>4, <1>5, <1>6, SumaEs DEF tam

-----------------------------------------------------------------------------
(* Order.  A total order of finitely many positions lists each once: the    *)
(* number of those not after it grows with each.                            *)

OrdenTotal(K, R) ==
    /\ IsFiniteSet(K)
    /\ \A j, k \in K : <<j, k>> \in R \/ <<k, j>> \in R
    /\ \A j, k \in K : <<j, k>> \in R /\ <<k, j>> \in R => j = k
    /\ \A i, j, k \in K : <<i, j>> \in R /\ <<j, k>> \in R => <<i, k>> \in R

LEMMA EnOrdenEs ==
    ASSUME NEW K, NEW R, OrdenTotal(K, R)
    PROVE  /\ Cardinality(K) \in Nat
           /\ EnOrden(K, R) \in [1 .. Cardinality(K) -> K]
           /\ \A i, j \in 1 .. Cardinality(K) : EnOrden(K, R)[i] = EnOrden(K, R)[j] => i = j
           /\ \A k \in K : \E i \in 1 .. Cardinality(K) : EnOrden(K, R)[i] = k
<1> DEFINE n == Cardinality(K)
           Antes(k) == {j \in K : <<j, k>> \in R}
           r == [k \in K |-> Cardinality(Antes(k))]
           f == EnOrden(K, R)
<1>1. n \in Nat /\ \A k \in K : k \in Antes(k)
  BY FS_CardinalityType DEF OrdenTotal
<1>2. ASSUME NEW k \in K PROVE IsFiniteSet(Antes(k)) /\ r[k] = Cardinality(Antes(k)) /\ r[k] \in 1 .. n
  <2>1. IsFiniteSet(Antes(k)) /\ Cardinality(Antes(k)) <= n
    BY FS_Subset DEF OrdenTotal
  <2>2. Cardinality(Antes(k)) \in Nat
    BY <2>1, FS_CardinalityType
  <2>3. Cardinality(Antes(k)) # 0
    BY <1>1, <2>1, FS_EmptySet
  <2> HIDE DEF Antes, n
  <2>4. QED
    BY <1>1, <2>1, <2>2, <2>3
<1>3. ASSUME NEW j \in K, NEW k \in K, <<j, k>> \in R, r[j] = r[k] PROVE j = k
  <2>1. Antes(j) \subseteq Antes(k)
    BY <1>3 DEF OrdenTotal
  <2>2. Antes(j) = Antes(k)
    <3> HIDE DEF Antes
    <3>1. Cardinality(Antes(k)) = Cardinality(Antes(j)) /\ IsFiniteSet(Antes(k))
      BY <1>2, <1>3
    <3>2. QED
      BY <2>1, <3>1, FS_Subset
  <2>3. k \in Antes(j)
    BY <1>1, <2>2
  <2>4. QED
    BY <1>3, <2>3 DEF OrdenTotal
<1>4. \A j, k \in K : r[j] = r[k] => j = k
  <2> HIDE DEF r
  <2>1. QED
    BY <1>3 DEF OrdenTotal
<1>5. r \in Injection(K, 1 .. n)
  <2>1. r \in [K -> 1 .. n]
    BY <1>2
  <2> HIDE DEF r, n
  <2>2. QED
    BY <1>4, <2>1 DEF Injection, IsInjective
<1>6. IsFiniteSet(1 .. n) /\ Cardinality(1 .. n) = n
  BY <1>1, FS_Interval
<1>7. r \in Surjection(K, 1 .. n)
  BY <1>5, <1>6, FS_Injection
<1>8. ASSUME NEW i \in 1 .. n PROVE f[i] \in K /\ r[f[i]] = i
  <2>1. \E k \in K : r[k] = i
    <3> HIDE DEF r, n
    <3>1. QED
      BY <1>7 DEF Surjection
  <2>2. \E k \in K : Cardinality({j \in K : <<j, k>> \in R}) = i
    BY <2>1
  <2>3. f[i] = CHOOSE k \in K : Cardinality({j \in K : <<j, k>> \in R}) = i
    BY DEF EnOrden
  <2>4. f[i] \in K /\ Cardinality({j \in K : <<j, f[i]>> \in R}) = i
    <3> HIDE DEF f
    <3>1. QED
      BY <2>2, <2>3
  <2>5. QED
    BY <2>4
<1>9. f = [i \in 1 .. n |-> f[i]]
  <2> DEFINE e(i) == CHOOSE k \in K : Cardinality({j \in K : <<j, k>> \in R}) = i
  <2>1. f = [i \in 1 .. n |-> e(i)]
    BY DEF EnOrden
  <2> HIDE DEF e, f, n
  <2>2. QED
    BY <2>1
<1>10. ASSUME NEW k \in K PROVE \E i \in 1 .. n : f[i] = k
  <2> HIDE DEF r, f, n
  <2>1. r[k] \in 1 .. n
    BY <1>2
  <2>2. f[r[k]] = k
    BY <1>4, <1>8, <2>1
  <2>3. QED
    BY <2>1, <2>2
<1> HIDE DEF r, f, n
<1>11. f \in [1 .. n -> K]
  BY <1>8, <1>9
<1>12. \A i, j \in 1 .. n : f[i] = f[j] => i = j
  BY <1>8
<1>13. QED
  BY <1>1, <1>10, <1>11, <1>12 DEF n, f

LEMMA PorListaEs ==
    ASSUME NEW M \in Nat, NEW t \in Seq(Tramo(M)), NEW K \in SUBSET DOMAIN t
    PROVE  OrdenTotal(K, PorLista(K))
<1>1. DOMAIN t = 1 .. Len(t) /\ Len(t) \in Nat
  BY LenProperties
<1>2. IsFiniteSet(K) /\ K \subseteq Nat
  BY <1>1, Hasta, FS_Subset
<1>3. \A j, k \in K : <<j, k>> \in PorLista(K) <=> j <= k
  BY DEF PorLista
<1>4. QED
  BY <1>2, <1>3 DEF OrdenTotal

LEMMA PorBaseEs ==
    ASSUME NEW M \in Nat, NEW t \in Seq(Tramo(M))
    PROVE  OrdenTotal(DOMAIN t, PorBase(t))
<1>1. DOMAIN t = 1 .. Len(t) /\ Len(t) \in Nat
  BY LenProperties
<1>2. IsFiniteSet(DOMAIN t) /\ DOMAIN t \subseteq Nat
  BY <1>1, Hasta
<1>3. \A j, k \in DOMAIN t : <<j, k>> \in PorBase(t) <=> t[j].base < t[k].base \/ (t[j].base = t[k].base /\ j <= k)
  BY DEF PorBase
<1>4. \A k \in DOMAIN t : t[k].base \in Nat
  BY TramoTipo
<1> DEFINE Antes(j, k) == t[j].base < t[k].base \/ (t[j].base = t[k].base /\ j <= k)
<1>5. \A j, k \in DOMAIN t : Antes(j, k) \/ Antes(k, j)
  BY <1>2, <1>4
<1>6. \A j, k \in DOMAIN t : Antes(j, k) /\ Antes(k, j) => j = k
  BY <1>2, <1>4
<1>7. \A i, j, k \in DOMAIN t : Antes(i, j) /\ Antes(j, k) => Antes(i, k)
  BY <1>2, <1>4
<1>8. \A j, k \in DOMAIN t : <<j, k>> \in PorBase(t) <=> Antes(j, k)
  BY <1>3
<1> HIDE DEF Antes
<1>9. QED
  BY <1>2, <1>5, <1>6, <1>7, <1>8 DEF OrdenTotal

-----------------------------------------------------------------------------
(* A list with disjoint segments inside 0 .. M - 1, and who has each address. *)

Suyas(t, p) == De(t, DePid(t, p))

Sano(t, M) ==
    /\ t \in Seq(Tramo(M))
    /\ \A k \in DOMAIN t : t[k].base + t[k].tam <= M
    /\ \A k \in DOMAIN t : ~Libre(t[k]) => t[k].tam > 0 /\ t[k].id \in Id
    /\ Disjuntos(t)

LEMMA EnSuyas ==
    ASSUME NEW t, NEW p, NEW a
    PROVE  a \in Suyas(t, p) <=> \E k \in DOMAIN t : t[k].pid = p /\ a \in Direcciones(t[k])
BY EnDe DEF Suyas, DePid

LEMMA LibresSuyas ==
    ASSUME NEW t
    PROVE  Libres(t) = DePid(t, Nadie) /\ De(t, Libres(t)) = Suyas(t, Nadie)
BY DEF Libres, Libre, DePid, Suyas

LEMMA SuyasAparte ==
    ASSUME NEW t, Disjuntos(t), NEW p, NEW q, p # q
    PROVE  Suyas(t, p) \cap Suyas(t, q) = {}
<1> SUFFICES ASSUME NEW a, a \in Suyas(t, p), a \in Suyas(t, q) PROVE FALSE
  OBVIOUS
<1>1. PICK j \in DOMAIN t : t[j].pid = p /\ a \in Direcciones(t[j])
  BY EnSuyas
<1>2. PICK k \in DOMAIN t : t[k].pid = q /\ a \in Direcciones(t[k])
  BY EnSuyas
<1>3. QED
  BY <1>1, <1>2 DEF Disjuntos

LEMMA SuyasCuenta ==
    ASSUME NEW M \in Nat, NEW t, Sano(t, M), NEW p
    PROVE  /\ IsFiniteSet(Suyas(t, p)) /\ Cardinality(Suyas(t, p)) \in Nat
           /\ SumaTam(t, DePid(t, p)) = Cardinality(Suyas(t, p))
<1>1. DePid(t, p) \in SUBSET DOMAIN t
  BY DEF DePid
<1>2. t \in Seq(Tramo(M)) /\ Disjuntos(t)
  BY DEF Sano
<1>3. IsFiniteSet(Suyas(t, p))
  BY <1>1, <1>2, DireccionesFinitas DEF Suyas
<1>4. SumaTam(t, DePid(t, p)) = Cardinality(Suyas(t, p))
  BY <1>1, <1>2, UnidadesSonDirecciones DEF Suyas
<1>5. QED
  BY <1>3, <1>4, FS_CardinalityType

LEMMA TodasSonDeAlguien ==
    ASSUME NEW M \in Nat, NEW t \in Seq(Tramo(M)), NEW a
    PROVE  a \in De(t, DOMAIN t) <=> \E p \in Pid \cup {Nadie} : a \in Suyas(t, p)
BY EnDe, EnSuyas, TramoTipo

\* The search finds a hole that is large enough, if there is one.
LEMMA BuscaHuecoEs ==
    ASSUME NEW M \in Nat, NEW t \in Seq(Tramo(M)), NEW n \in Nat
    PROVE  \/ /\ BuscaHueco(t, n) = 0
              /\ \A i \in DOMAIN t : Libre(t[i]) => t[i].tam < n
           \/ /\ BuscaHueco(t, n) # 0
              /\ BuscaHueco(t, n) \in DOMAIN t
              /\ Libre(t[BuscaHueco(t, n)]) /\ n <= t[BuscaHueco(t, n)].tam
<1> DEFINE sirven == {i \in DOMAIN t : Libre(t[i]) /\ t[i].tam >= n}
           antes(i, j) == IF t[i].tam = t[j].tam THEN i <= j
                          ELSE (t[i].tam < t[j].tam) = (estrategia = "BEST")
           k == CHOOSE i \in sirven : \A j \in sirven : antes(i, j)
           c == [i \in DOMAIN t |-> IF estrategia = "BEST" THEN t[i].tam ELSE M - t[i].tam]
<1>1. \A i \in DOMAIN t : i \in Nat /\ i # 0 /\ t[i].tam \in 0 .. M
  BY TramoTipo
<1>2. CASE sirven = {}
  <2>1. BuscaHueco(t, n) = 0
    BY <1>2 DEF BuscaHueco
  <2>2. QED
    BY <1>1, <1>2, <2>1
<1>3. CASE sirven # {}
  <2> DEFINE C == {c[i] : i \in sirven}
  <2>1. C \subseteq Nat /\ C # {}
    BY <1>1, <1>3
  <2>2. PICK m \in C : \A y \in C : m <= y
    <3> HIDE DEF C
    <3>1. QED
      BY <2>1, MenorNat
  <2> DEFINE I == {i \in sirven : c[i] = m}
  <2>3. I \subseteq Nat /\ I # {}
    BY <1>1, <2>2
  <2>4. PICK i \in I : \A j \in I : i <= j
    <3> HIDE DEF I
    <3>1. QED
      BY <2>3, MenorNat
  <2>5. ASSUME NEW j \in sirven PROVE antes(i, j)
    <3>1. c[i] <= c[j] /\ (c[i] = c[j] => i <= j)
      BY <2>2, <2>4
    <3>2. t[i].tam \in 0 .. M /\ t[j].tam \in 0 .. M
      BY <1>1
    <3>3. CASE estrategia = "BEST"
      <4>1. c[i] = t[i].tam /\ c[j] = t[j].tam
        BY <3>3
      <4> HIDE DEF c
      <4>2. QED
        BY <3>1, <3>2, <3>3, <4>1
    <3>4. CASE estrategia # "BEST"
      <4>1. c[i] = M - t[i].tam /\ c[j] = M - t[j].tam
        BY <3>4
      <4> HIDE DEF c
      <4>2. (c[i] = c[j] <=> t[i].tam = t[j].tam) /\ (t[i].tam # t[j].tam => ~(t[i].tam < t[j].tam))
        BY <3>1, <3>2, <4>1
      <4>3. QED
        BY <3>1, <3>4, <4>2
    <3>5. QED
      BY <3>3, <3>4
  <2>6. \E x \in sirven : \A j \in sirven : antes(x, j)
    BY <2>5
  <2>7. k \in sirven
    <3> HIDE DEF antes, sirven
    <3>1. QED
      BY <2>6
  <2>8. BuscaHueco(t, n) = k
    BY <1>3 DEF BuscaHueco
  <2> HIDE DEF k
  <2>9. QED
    BY <1>1, <2>7, <2>8
<1>4. QED
  BY <1>2, <1>3

\* asignar_memoria: the first n addresses of the hole change hands.
LEMMA AsignaEs ==
    ASSUME NEW M \in Nat, NEW t, Sano(t, M), NEW k \in DOMAIN t, Libre(t[k]),
           NEW n \in Nat \ {0}, n <= t[k].tam, NEW p \in Pid, NEW id \in Id
    PROVE  LET t2 == Asigna(t, k, p, id, n)
               I == t[k].base .. t[k].base + n - 1
           IN  /\ Sano(t2, M)
               /\ IsFiniteSet(I) /\ Cardinality(I) = n /\ I \subseteq Suyas(t, Nadie)
               /\ Suyas(t2, p) = Suyas(t, p) \cup I
               /\ Suyas(t2, Nadie) = Suyas(t, Nadie) \ I
               /\ \A q : q # p /\ q # Nadie => Suyas(t2, q) = Suyas(t, q)
<1> DEFINE h == t[k]
           t2 == Asigna(t, k, p, id, n)
           I == h.base .. h.base + n - 1
           nuevo == [pid |-> p, id |-> id, base |-> h.base, tam |-> n]
           t1 == [t EXCEPT ![k] = nuevo]
           resto == Hueco(h.base + n, h.tam - n)
           N == Len(t)
<1>1. t \in Seq(Tramo(M)) /\ DOMAIN t = 1 .. N /\ N \in Nat /\ k \in 1 .. N
  BY LenProperties DEF Sano
<1>2. h \in Tramo(M) /\ h.base \in 0 .. M /\ h.tam \in 0 .. M /\ h.base + h.tam <= M /\ h.pid = Nadie
  BY <1>1, TramoTipo DEF Sano, Libre
<1>3. nuevo \in Tramo(M) /\ h.base + n <= M /\ (h.tam > n => resto \in Tramo(M))
  BY <1>2 DEF Tramo, Hueco
<1>4. p # Nadie
  BY HuecoAssumption DEF HuecoAssumption
<1>5. /\ t1 \in Seq(Tramo(M)) /\ Len(t1) = N
      /\ \A j \in 1 .. N : t1[j] = IF j = k THEN nuevo ELSE t[j]
  BY <1>1, <1>3, ExceptSeq
<1>6. t2 = IF h.tam > n THEN Append(t1, resto) ELSE t1
  BY DEF Asigna
<1>7. /\ t2 \in Seq(Tramo(M))
      /\ DOMAIN t2 = IF h.tam > n THEN 1 .. N + 1 ELSE 1 .. N
      /\ \A j \in 1 .. N : t2[j] = IF j = k THEN nuevo ELSE t[j]
      /\ h.tam > n => t2[N + 1] = resto
  <2> HIDE DEF t1, nuevo, resto, t2
  <2>1. CASE h.tam > n
    <3>1. t2 = Append(t1, resto) /\ resto \in Tramo(M)
      BY <1>3, <1>6, <2>1
    <3>2. /\ t2 \in Seq(Tramo(M)) /\ Len(t2) = N + 1 /\ \A j \in 1 .. N : t2[j] = t1[j]
          /\ t2[N + 1] = resto
      BY <1>5, <3>1, AppendProperties
    <3>3. DOMAIN t2 = 1 .. N + 1
      BY <3>2, LenProperties
    <3>4. QED
      BY <1>5, <2>1, <3>2, <3>3
  <2>2. CASE ~(h.tam > n)
    <3>1. t2 = t1
      BY <1>6, <2>2
    <3>2. DOMAIN t2 = 1 .. N
      BY <1>5, <3>1, LenProperties
    <3>3. QED
      BY <1>5, <2>2, <3>1, <3>2
  <2>3. QED
    BY <2>1, <2>2
<1> HIDE DEF t2
<1>8. /\ nuevo.pid = p /\ nuevo.id = id /\ nuevo.base = h.base /\ nuevo.tam = n
      /\ resto.pid = Nadie /\ resto.base = h.base + n /\ resto.tam = h.tam - n
      /\ Direcciones(nuevo) = I
  BY DEF Hueco, Direcciones
<1>9. Direcciones(resto) = Direcciones(h) \ I /\ I \subseteq Direcciones(h) /\ (h.tam = n => I = Direcciones(h))
  <2> HIDE DEF nuevo, resto
  <2>1. Direcciones(resto) = (h.base + n) .. (h.base + n) + (h.tam - n) - 1
    BY <1>8 DEF Direcciones
  <2>2. Direcciones(h) = h.base .. h.base + h.tam - 1
    BY DEF Direcciones
  <2>3. h.base \in Nat /\ h.tam \in Nat /\ n <= h.tam
    BY <1>2
  <2> HIDE DEF h
  <2>4. QED
    BY SMTT(30), <2>1, <2>2, <2>3
<1>10. ~(h.tam > n) => h.tam = n
  BY <1>2
<1> HIDE DEF nuevo, resto, I, t1
<1>11. ASSUME NEW j \in DOMAIN t2
       PROVE  /\ t2[j].base + t2[j].tam <= M
              /\ ~Libre(t2[j]) => t2[j].tam > 0 /\ t2[j].id \in Id
  <2>1. j \in 1 .. N \/ (h.tam > n /\ j = N + 1)
    BY <1>1, <1>7
  <2>2. CASE j = k
    BY <1>1, <1>3, <1>7, <1>8, <2>2
  <2>3. CASE j \in 1 .. N /\ j # k
    BY <1>1, <1>7, <2>3 DEF Sano
  <2>4. CASE h.tam > n /\ j = N + 1
    <3>1. t2[j] = resto
      BY <1>7, <2>4
    <3>2. resto.base + resto.tam <= M
      BY <1>2, <1>8
    <3>3. Libre(resto)
      BY <1>8 DEF Libre
    <3>4. QED
      BY <3>1, <3>2, <3>3
  <2>5. QED
    BY <2>1, <2>2, <2>3, <2>4
<1>12. Disjuntos(t2)
  <2> SUFFICES ASSUME NEW i \in DOMAIN t2, NEW j \in DOMAIN t2, i # j
               PROVE  Direcciones(t2[i]) \cap Direcciones(t2[j]) = {}
    BY DEF Disjuntos
  <2>1. \A x, y \in 1 .. N : x # y => Direcciones(t[x]) \cap Direcciones(t[y]) = {}
    BY <1>1 DEF Sano, Disjuntos
  <2>2. \A x \in 1 .. N : Direcciones(t2[x]) \subseteq Direcciones(t[x])
    BY <1>7, <1>8, <1>9
  <2>3. h.tam > n => \A x \in 1 .. N : Direcciones(t2[x]) \cap Direcciones(t2[N + 1]) = {}
    <3>1. SUFFICES ASSUME h.tam > n, NEW x \in 1 .. N PROVE Direcciones(t2[x]) \cap Direcciones(resto) = {}
      BY <1>7
    <3>2. CASE x = k
      BY <1>7, <1>8, <1>9, <3>1, <3>2
    <3>3. CASE x # k
      BY <1>1, <1>9, <2>1, <2>2, <3>3
    <3>4. QED
      BY <3>2, <3>3
  <2>4. \A x \in DOMAIN t2 : x \in 1 .. N \/ (h.tam > n /\ x = N + 1)
    BY <1>1, <1>7
  <2>5. QED
    BY <2>1, <2>2, <2>3, <2>4
<1>13. Sano(t2, M)
  BY <1>7, <1>11, <1>12 DEF Sano
<1>14. IsFiniteSet(I) /\ Cardinality(I) = n
  <2>1. h.base \in Int /\ h.base + n - 1 \in Int /\ h.base <= h.base + n - 1
        /\ (h.base + n - 1) - h.base + 1 = n
    BY <1>2
  <2>2. IsFiniteSet(I) /\ Cardinality(I) = IF h.base > h.base + n - 1 THEN 0 ELSE (h.base + n - 1) - h.base + 1
    BY <2>1, FS_Interval DEF I
  <2>3. QED
    BY <2>1, <2>2
<1>15. I \subseteq Suyas(t, Nadie)
  BY <1>2, <1>9, EnSuyas
<1>16. ASSUME NEW q, NEW a
       PROVE  a \in Suyas(t2, q) <=> \/ q = p /\ a \in I
                                     \/ q = Nadie /\ a \in Suyas(t, Nadie) /\ a \notin I
                                     \/ q # Nadie /\ a \in Suyas(t, q)
  <2>1. a \in Suyas(t, q) <=> \E j \in 1 .. N : t[j].pid = q /\ a \in Direcciones(t[j])
    BY <1>1, EnSuyas
  <2>2. a \in Suyas(t2, q) <=> \/ \E j \in 1 .. N : j # k /\ t[j].pid = q /\ a \in Direcciones(t[j])
                               \/ q = p /\ a \in I
                               \/ q = Nadie /\ h.tam > n /\ a \in Direcciones(resto)
    <3>1. \A j \in DOMAIN t2 : j \in 1 .. N \/ (h.tam > n /\ j = N + 1)
      BY <1>1, <1>7
    <3>2. \A j \in 1 .. N : j \in DOMAIN t2
      BY <1>1, <1>7
    <3>3. h.tam > n => N + 1 \in DOMAIN t2
      BY <1>1, <1>7
    <3>4. a \in Suyas(t2, q) <=> \E j \in DOMAIN t2 : t2[j].pid = q /\ a \in Direcciones(t2[j])
      BY EnSuyas
    <3>5. QED
      BY <1>1, <1>7, <1>8, <3>1, <3>2, <3>3, <3>4
  <2>3. a \in I => a \in Direcciones(h) /\ \A j \in 1 .. N : j # k => a \notin Direcciones(t[j])
    BY <1>1, <1>9 DEF Sano, Disjuntos
  <2>4. a \in Direcciones(h) /\ a \notin I => h.tam > n /\ a \in Direcciones(resto)
    BY <1>9, <1>10
  <2>5. a \in Direcciones(resto) => a \in Direcciones(h) /\ a \notin I
    BY <1>9
  <2>6. QED
    BY <1>1, <1>2, <1>4, <2>1, <2>2, <2>3, <2>4, <2>5
<1>17. /\ Suyas(t2, p) = Suyas(t, p) \cup I
       /\ Suyas(t2, Nadie) = Suyas(t, Nadie) \ I
       /\ \A q : q # p /\ q # Nadie => Suyas(t2, q) = Suyas(t, q)
  <2>1. Suyas(t2, p) = Suyas(t, p) \cup I
    BY <1>4, <1>16
  <2>2. Suyas(t2, Nadie) = Suyas(t, Nadie) \ I
    BY <1>4, <1>16
  <2>3. ASSUME NEW q, q # p, q # Nadie PROVE Suyas(t2, q) = Suyas(t, q)
    <3>1. ASSUME NEW a PROVE a \in Suyas(t2, q) <=> a \in Suyas(t, q)
      BY <1>16, <2>3
    <3>2. QED
      BY <3>1
  <2>4. QED
    BY <2>1, <2>2, <2>3
<1>18. QED
  BY <1>13, <1>14, <1>15, <1>17 DEF I, t2

\* The release of some segments K, all of process p: their addresses are free.
LEMMA SueltaVarios ==
    ASSUME NEW M \in Nat, NEW t, Sano(t, M), NEW p \in Pid, NEW K \in SUBSET DePid(t, p)
    PROVE  LET t2 == [k \in DOMAIN t |-> IF k \in K THEN Hueco(t[k].base, t[k].tam) ELSE t[k]]
           IN  /\ Sano(t2, M)
               /\ De(t, K) \subseteq Suyas(t, p)
               /\ Suyas(t2, p) = Suyas(t, p) \ De(t, K)
               /\ Suyas(t2, Nadie) = Suyas(t, Nadie) \cup De(t, K)
               /\ \A q : q # p /\ q # Nadie => Suyas(t2, q) = Suyas(t, q)
<1> DEFINE t2 == [k \in DOMAIN t |-> IF k \in K THEN Hueco(t[k].base, t[k].tam) ELSE t[k]]
           N == Len(t)
<1>1. t \in Seq(Tramo(M)) /\ DOMAIN t = 1 .. N /\ N \in Nat /\ K \subseteq 1 .. N
  BY LenProperties DEF Sano, DePid
<1>2. p # Nadie
  BY HuecoAssumption DEF HuecoAssumption
<1>3. ASSUME NEW k \in 1 .. N
      PROVE  /\ t2[k].base = t[k].base /\ t2[k].tam = t[k].tam
             /\ t2[k] \in Tramo(M)
             /\ k \in K => t2[k].pid = Nadie /\ t[k].pid = p
             /\ k \notin K => t2[k] = t[k]
  <2>1. t[k] \in Tramo(M) /\ t[k].base \in 0 .. M /\ t[k].tam \in 0 .. M
    BY <1>1, TramoTipo
  <2>2. CASE k \in K
    BY <1>1, <2>1, <2>2 DEF Hueco, Tramo, DePid
  <2>3. CASE k \notin K
    BY <1>1, <2>1, <2>3
  <2>4. QED
    BY <2>2, <2>3
<1>4. DOMAIN t2 = 1 .. N /\ t2 = [k \in 1 .. N |-> t2[k]]
  BY <1>1
<1> HIDE DEF t2
<1>5. t2 \in Seq(Tramo(M))
  BY <1>1, <1>3, <1>4, Pone
<1>6. \A k \in 1 .. N : Direcciones(t2[k]) = Direcciones(t[k])
  BY <1>3 DEF Direcciones
<1>7. Sano(t2, M)
  <2>1. ASSUME NEW k \in DOMAIN t2
        PROVE  t2[k].base + t2[k].tam <= M /\ (~Libre(t2[k]) => t2[k].tam > 0 /\ t2[k].id \in Id)
    BY <1>1, <1>3, <1>4 DEF Sano, Libre
  <2>2. Disjuntos(t2)
    BY <1>1, <1>4, <1>6 DEF Sano, Disjuntos
  <2>3. QED
    BY <1>5, <2>1, <2>2 DEF Sano
<1>8. ASSUME NEW q, NEW a
      PROVE  /\ a \in Suyas(t, q) <=> \E k \in 1 .. N : t[k].pid = q /\ a \in Direcciones(t[k])
             /\ a \in Suyas(t2, q) <=> \E k \in 1 .. N : t2[k].pid = q /\ a \in Direcciones(t[k])
  BY <1>1, <1>4, <1>6, EnSuyas
<1>9. ASSUME NEW a
      PROVE  a \in De(t, K) <=> \E k \in 1 .. N : k \in K /\ a \in Direcciones(t[k])
  BY <1>1, EnDe
<1>10. \A j, k \in 1 .. N : j # k => Direcciones(t[j]) \cap Direcciones(t[k]) = {}
  BY <1>1 DEF Sano, Disjuntos
<1>11. De(t, K) \subseteq Suyas(t, p)
  BY <1>3, <1>8, <1>9
<1>12. Suyas(t2, p) = Suyas(t, p) \ De(t, K)
  <2>1. ASSUME NEW a PROVE a \in Suyas(t2, p) <=> a \in Suyas(t, p) /\ a \notin De(t, K)
    <3>1. a \in Suyas(t2, p) <=> \E k \in 1 .. N : k \notin K /\ t[k].pid = p /\ a \in Direcciones(t[k])
      BY <1>2, <1>3, <1>8
    <3>2. a \in Suyas(t, p) <=> \E k \in 1 .. N : t[k].pid = p /\ a \in Direcciones(t[k])
      BY <1>8
    <3>3. \A j, k \in 1 .. N : a \in Direcciones(t[j]) /\ a \in Direcciones(t[k]) => j = k
      BY <1>10
    <3>4. QED
      BY <1>9, <3>1, <3>2, <3>3
  <2>2. QED
    BY <2>1
<1>13. Suyas(t2, Nadie) = Suyas(t, Nadie) \cup De(t, K)
  <2>1. ASSUME NEW a PROVE a \in Suyas(t2, Nadie) <=> a \in Suyas(t, Nadie) \/ a \in De(t, K)
    BY <1>2, <1>3, <1>8, <1>9
  <2>2. QED
    BY <2>1
<1>14. ASSUME NEW q, q # p, q # Nadie PROVE Suyas(t2, q) = Suyas(t, q)
  <2>1. ASSUME NEW a PROVE a \in Suyas(t2, q) <=> a \in Suyas(t, q)
    BY <1>3, <1>8, <1>14
  <2>2. QED
    BY <2>1
<1>15. QED
  BY <1>7, <1>11, <1>12, <1>13, <1>14 DEF t2

\* A selection of the list without repetitions is as sound as the list ...
LEMMA EligeSano ==
    ASSUME NEW M \in Nat, NEW t, Sano(t, M), NEW n \in Nat, NEW f \in [1 .. n -> DOMAIN t],
           \A i, j \in 1 .. n : f[i] = f[j] => i = j
    PROVE  Sano(Elige(t, f), M) /\ Len(Elige(t, f)) = n
<1> DEFINE s == Elige(t, f)
<1>1. t \in Seq(Tramo(M)) /\ \A k \in DOMAIN t : t[k] \in Tramo(M)
  BY TramoTipo DEF Sano
<1>2. DOMAIN s = 1 .. n /\ (\A i \in 1 .. n : s[i] = t[f[i]]) /\ s = [i \in 1 .. n |-> s[i]]
  BY DEF Elige
<1> HIDE DEF s
<1>3. s \in Seq(Tramo(M)) /\ Len(s) = n
  BY <1>1, <1>2, Pone
<1>4. Disjuntos(s)
  BY <1>2 DEF Sano, Disjuntos
<1>5. QED
  BY <1>2, <1>3, <1>4 DEF Sano, s

\* ... and when it takes every position everyone has the same addresses.
LEMMA EligeTodo ==
    ASSUME NEW t, NEW n \in Nat, NEW f \in [1 .. n -> DOMAIN t],
           \A k \in DOMAIN t : \E i \in 1 .. n : f[i] = k, NEW q
    PROVE  Suyas(Elige(t, f), q) = Suyas(t, q)
<1> DEFINE s == Elige(t, f)
<1>1. DOMAIN s = 1 .. n /\ \A i \in 1 .. n : s[i] = t[f[i]]
  BY DEF Elige
<1> HIDE DEF s
<1>2. ASSUME NEW a PROVE a \in Suyas(s, q) <=> a \in Suyas(t, q)
  <2>1. a \in Suyas(s, q) <=> \E i \in 1 .. n : t[f[i]].pid = q /\ a \in Direcciones(t[f[i]])
    BY <1>1, EnSuyas
  <2>2. a \in Suyas(t, q) <=> \E k \in DOMAIN t : t[k].pid = q /\ a \in Direcciones(t[k])
    BY EnSuyas
  <2>3. QED
    BY <2>1, <2>2
<1>3. QED
  BY <1>2 DEF s

LEMMA OrdenaEs ==
    ASSUME NEW M \in Nat, NEW t, Sano(t, M)
    PROVE  Sano(Ordena(t), M) /\ \A q : Suyas(Ordena(t), q) = Suyas(t, q)
<1> DEFINE f == EnOrden(DOMAIN t, PorBase(t))
           n == Cardinality(DOMAIN t)
<1>1. OrdenTotal(DOMAIN t, PorBase(t))
  BY PorBaseEs DEF Sano
<1>2. /\ n \in Nat /\ f \in [1 .. n -> DOMAIN t]
      /\ \A i, j \in 1 .. n : f[i] = f[j] => i = j
      /\ \A k \in DOMAIN t : \E i \in 1 .. n : f[i] = k
  BY <1>1, EnOrdenEs
<1> HIDE DEF f, n
<1>3. Sano(Elige(t, f), M) /\ \A q : Suyas(Elige(t, f), q) = Suyas(t, q)
  BY <1>2, EligeSano, EligeTodo
<1>4. QED
  BY <1>3 DEF Ordena, f

LEMMA Contiguos ==
    ASSUME NEW b \in Nat, NEW x \in Nat, NEW y \in Nat, NEW a
    PROVE  a \in b .. b + (x + y) - 1 <=> a \in b .. b + x - 1 \/ a \in (b + x) .. (b + x) + y - 1
OBVIOUS

\* Merging or appending one segment.
LEMMA JuntaEs ==
    ASSUME NEW M \in Nat, NEW r, Sano(r, M), NEW s \in Tramo(M), s.base + s.tam <= M,
           ~Libre(s) => s.tam > 0 /\ s.id \in Id,
           \A j \in DOMAIN r : Direcciones(r[j]) \cap Direcciones(s) = {}
    PROVE  /\ Sano(Junta(r, s), M)
           /\ \A q, a : a \in Suyas(Junta(r, s), q) <=> a \in Suyas(r, q) \/ (s.pid = q /\ a \in Direcciones(s))
<1> DEFINE N == Len(r)
           pega == r # <<>> /\ Libre(r[N]) /\ Libre(s) /\ r[N].base + r[N].tam = s.base
           u == Junta(r, s)
<1>1. r \in Seq(Tramo(M)) /\ DOMAIN r = 1 .. N /\ N \in Nat
  BY LenProperties DEF Sano
<1>2. s.base \in 0 .. M /\ s.tam \in 0 .. M /\ s.pid \in Pid \cup {Nadie}
  BY DEF Tramo
<1>3. CASE ~pega
  <2>1. u = Append(r, s)
    BY <1>3 DEF Junta
  <2>2. /\ u \in Seq(Tramo(M)) /\ Len(u) = N + 1
        /\ (\A i \in 1 .. N : u[i] = r[i]) /\ u[N + 1] = s
    BY <1>1, <2>1, AppendProperties
  <2>3. DOMAIN u = 1 .. N + 1
    BY <2>2, LenProperties
  <2> HIDE DEF u, pega
  <2>4. Disjuntos(u)
    <3> SUFFICES ASSUME NEW i \in DOMAIN u, NEW j \in DOMAIN u, i # j
                 PROVE  Direcciones(u[i]) \cap Direcciones(u[j]) = {}
      BY DEF Disjuntos
    <3>1. \A x \in DOMAIN u : x \in 1 .. N \/ x = N + 1
      BY <1>1, <2>3
    <3>2. \A x, y \in 1 .. N : x # y => Direcciones(r[x]) \cap Direcciones(r[y]) = {}
      BY <1>1 DEF Sano, Disjuntos
    <3>3. \A x \in 1 .. N : Direcciones(r[x]) \cap Direcciones(s) = {}
      BY <1>1
    <3>4. QED
      BY <2>2, <3>1, <3>2, <3>3
  <2>5. ASSUME NEW i \in DOMAIN u
        PROVE  u[i].base + u[i].tam <= M /\ (~Libre(u[i]) => u[i].tam > 0 /\ u[i].id \in Id)
    <3>1. i \in 1 .. N \/ i = N + 1
      BY <1>1, <2>3
    <3>2. QED
      BY <1>1, <2>2, <3>1 DEF Sano
  <2>6. Sano(u, M)
    BY <2>2, <2>4, <2>5 DEF Sano
  <2>7. ASSUME NEW q, NEW a
        PROVE  a \in Suyas(u, q) <=> a \in Suyas(r, q) \/ (s.pid = q /\ a \in Direcciones(s))
    <3>1. a \in Suyas(r, q) <=> \E j \in 1 .. N : r[j].pid = q /\ a \in Direcciones(r[j])
      BY <1>1, EnSuyas
    <3>2. a \in Suyas(u, q) <=> \E j \in 1 .. N + 1 : u[j].pid = q /\ a \in Direcciones(u[j])
      BY <2>3, EnSuyas
    <3>3. \A x : x \in 1 .. N + 1 <=> x \in 1 .. N \/ x = N + 1
      BY <1>1
    <3>4. QED
      BY <2>2, <3>1, <3>2, <3>3
  <2>8. QED
    BY <2>6, <2>7 DEF u
<1>4. CASE pega
  <2> DEFINE v == [r[N] EXCEPT !.tam = @ + s.tam]
  <2>1. N \in 1 .. N /\ r[N] \in Tramo(M) /\ r[N].base \in 0 .. M /\ r[N].tam \in 0 .. M
        /\ r[N].pid = Nadie /\ s.pid = Nadie /\ r[N].base + r[N].tam = s.base
    <3>1. N # 0
      BY <1>1, <1>4, EmptySeq
    <3>2. N \in 1 .. N
      BY <1>1, <3>1
    <3>3. QED
      BY <1>1, <1>4, <3>2, TramoTipo DEF Libre
  <2>2. u = [r EXCEPT ![N] = v]
    BY <1>1, <1>4, <2>1 DEF Junta
  <2>3. v \in Tramo(M) /\ v.base = r[N].base /\ v.tam = r[N].tam + s.tam /\ v.pid = Nadie
    <3>1. r[N].tam + s.tam \in 0 .. M
      BY <1>2, <2>1
    <3>2. QED
      BY <2>1, <3>1 DEF Tramo
  <2> HIDE DEF v
  <2>4. /\ u \in Seq(Tramo(M)) /\ Len(u) = N
        /\ \A i \in 1 .. N : u[i] = IF i = N THEN v ELSE r[i]
    BY <1>1, <2>1, <2>2, <2>3, ExceptSeq
  <2>5. DOMAIN u = 1 .. N
    BY <2>4, LenProperties
  <2> HIDE DEF u, pega
  <2>6. ASSUME NEW a PROVE a \in Direcciones(v) <=> a \in Direcciones(r[N]) \/ a \in Direcciones(s)
    <3>1. a \in Direcciones(v) <=> a \in r[N].base .. r[N].base + (r[N].tam + s.tam) - 1
      BY <2>3 DEF Direcciones
    <3>2. a \in Direcciones(r[N]) <=> a \in r[N].base .. r[N].base + r[N].tam - 1
      BY DEF Direcciones
    <3>3. a \in Direcciones(s) <=> a \in (r[N].base + r[N].tam) .. (r[N].base + r[N].tam) + s.tam - 1
      BY <2>1 DEF Direcciones
    <3>4. r[N].base \in Nat /\ r[N].tam \in Nat /\ s.tam \in Nat
      BY <1>2, <2>1
    <3>5. QED
      BY <3>1, <3>2, <3>3, <3>4, Contiguos
  <2>7. Disjuntos(u)
    <3> SUFFICES ASSUME NEW i \in 1 .. N, NEW j \in 1 .. N, i # j
                 PROVE  Direcciones(u[i]) \cap Direcciones(u[j]) = {}
      BY <2>5 DEF Disjuntos
    <3>1. Direcciones(r[i]) \cap Direcciones(r[j]) = {}
      BY <1>1 DEF Sano, Disjuntos
    <3>2. Direcciones(r[i]) \cap Direcciones(s) = {} /\ Direcciones(r[j]) \cap Direcciones(s) = {}
      BY <1>1
    <3>3. QED
      BY <2>4, <2>6, <3>1, <3>2
  <2>8. ASSUME NEW i \in DOMAIN u
        PROVE  u[i].base + u[i].tam <= M /\ (~Libre(u[i]) => u[i].tam > 0 /\ u[i].id \in Id)
    <3>1. CASE i = N
      <4>1. v.base + v.tam = s.base + s.tam
        BY <1>2, <2>1, <2>3
      <4>2. QED
        BY <2>1, <2>3, <2>4, <3>1, <4>1 DEF Libre
    <3>2. CASE i # N
      BY <1>1, <2>4, <2>5, <3>2 DEF Sano
    <3>3. QED
      BY <3>1, <3>2
  <2>9. Sano(u, M)
    BY <2>4, <2>7, <2>8 DEF Sano
  <2>10. ASSUME NEW q, NEW a
         PROVE  a \in Suyas(u, q) <=> a \in Suyas(r, q) \/ (s.pid = q /\ a \in Direcciones(s))
    <3>1. a \in Suyas(r, q) <=> \E j \in 1 .. N : r[j].pid = q /\ a \in Direcciones(r[j])
      BY <1>1, EnSuyas
    <3>2. a \in Suyas(u, q) <=> \E j \in 1 .. N : u[j].pid = q /\ a \in Direcciones(u[j])
      BY <2>5, EnSuyas
    <3>3. \A j \in 1 .. N : u[j].pid = r[j].pid
      BY <2>1, <2>3, <2>4
    <3>4. \A j \in 1 .. N : a \in Direcciones(u[j]) <=> a \in Direcciones(r[j]) \/ (j = N /\ a \in Direcciones(s))
      BY <2>4, <2>6
    <3>5. QED
      BY <2>1, <3>1, <3>2, <3>3, <3>4
  <2>11. QED
    BY <2>9, <2>10 DEF u
<1>5. QED
  BY <1>3, <1>4

\* The loop of the merge, step by step.
Abierto == [pid : Pid \cup {Nadie}, id : Id \cup {Nadie}, base : Nat, tam : Nat]

LEMMA JuntaTipo ==
    ASSUME NEW r \in Seq(Abierto), NEW s \in Abierto
    PROVE  Junta(r, s) \in Seq(Abierto)
<1> DEFINE N == Len(r)
           pega == r # <<>> /\ Libre(r[N]) /\ Libre(s) /\ r[N].base + r[N].tam = s.base
<1>1. CASE ~pega
  BY <1>1, AppendProperties DEF Junta
<1>2. CASE pega
  <2>1. N \in 1 .. N
    BY <1>2, EmptySeq, LenProperties
  <2>2. r[N] \in Abierto
    BY <2>1, ElementOfSeq
  <2>3. [r[N] EXCEPT !.tam = @ + s.tam] \in Abierto
    <3>1. r[N].tam + s.tam \in Nat
      BY <2>2 DEF Abierto
    <3>2. QED
      BY <2>2, <3>1 DEF Abierto
  <2>4. Junta(r, s) = [r EXCEPT ![N] = [r[N] EXCEPT !.tam = @ + s.tam]]
    BY <1>2 DEF Junta
  <2>5. QED
    BY <2>1, <2>3, <2>4, ExceptSeq
<1>3. QED
  BY <1>1, <1>2

LEMMA FusionaPasos ==
    ASSUME NEW t \in Seq(Abierto)
    PROVE  \E g : /\ g[0] = <<>>
                  /\ \A i \in 1 .. Len(t) : g[i] = Junta(g[i - 1], t[i])
                  /\ Fusiona(t) = g[Len(t)]
<1> DEFINE N == Len(t)
           X == Seq(Abierto)
           paso == [z \in (1 .. N) \X X |-> Junta(z[2], t[z[1]])]
           J(g) == [n \in 0 .. N |-> IF n = 0 THEN <<>> ELSE Junta(g[n - 1], t[n])]
           juntos == CHOOSE g : g = J(g)
<1>1. N \in Nat /\ <<>> \in X
  BY LenProperties, EmptySeq
<1>2. paso \in [(1 .. N) \X X -> X]
  BY JuntaTipo, ElementOfSeq
<1>3. PICK f \in [0 .. N -> X] : f[0] = <<>> /\ \A i \in 1 .. N : f[i] = paso[<<i, f[i - 1]>>]
  <2> DEFINE b == <<>>
  <2>1. b \in X
    BY <1>1
  <2> HIDE DEF paso, X, N, b
  <2>2. \E f : Recorre(f, N, X, b, paso)
    BY <1>1, <1>2, <2>1, Recursion
  <2>3. QED
    BY <2>2 DEF Recorre, b
<1>4. ASSUME NEW i \in 1 .. N PROVE f[i] = Junta(f[i - 1], t[i])
  <2>1. f[i - 1] \in X
    <3> HIDE DEF X
    <3>1. QED
      BY <1>1
  <2>2. paso[<<i, f[i - 1]>>] = Junta(f[i - 1], t[i])
    <3> HIDE DEF X
    <3>1. QED
      BY <2>1
  <2>3. QED
    BY <1>3, <2>2
<1>5. f = J(f)
  <2> HIDE DEF X
  <2>1. \A n \in 0 .. N : f[n] = IF n = 0 THEN <<>> ELSE Junta(f[n - 1], t[n])
    BY <1>1, <1>3, <1>4
  <2>2. QED
    BY <2>1
<1>6. juntos = J(juntos)
  <2> HIDE DEF J
  <2>1. QED
    BY <1>5
<1>7. Fusiona(t) = juntos[N]
  BY DEF Fusiona
<1> HIDE DEF juntos
<1>8. juntos[0] = <<>> /\ \A i \in 1 .. N : juntos[i] = Junta(juntos[i - 1], t[i])
  BY <1>1, <1>6
<1>9. QED
  BY <1>7, <1>8

LEMMA FusionaEs ==
    ASSUME NEW M \in Nat, NEW t, Sano(t, M)
    PROVE  Sano(Fusiona(t), M) /\ \A q : Suyas(Fusiona(t), q) = Suyas(t, q)
<1> DEFINE N == Len(t)
<1>1. t \in Seq(Tramo(M)) /\ DOMAIN t = 1 .. N /\ N \in Nat
  BY LenProperties DEF Sano
<1>2. Tramo(M) \subseteq Abierto
  BY DEF Tramo, Abierto
<1>3. t \in Seq(Abierto)
  BY <1>1, <1>2, SeqMonotonic
<1>4. PICK g : g[0] = <<>> /\ (\A i \in 1 .. N : g[i] = Junta(g[i - 1], t[i])) /\ Fusiona(t) = g[N]
  BY <1>3, FusionaPasos
<1> DEFINE Bien(i) == /\ Sano(g[i], M)
                      /\ \A q, a : a \in Suyas(g[i], q) <=> \E k \in 1 .. i : t[k].pid = q /\ a \in Direcciones(t[k])
           G == {i \in 0 .. N : Bien(i)}
<1>5. Bien(0)
  <2>1. Sano(<<>>, M)
    BY EmptySeq DEF Sano, Disjuntos
  <2>2. \A q, a : a \notin Suyas(<<>>, q)
    BY EnSuyas
  <2>3. QED
    BY <1>4, <2>1, <2>2
<1>6. ASSUME NEW i \in 1 .. N, Bien(i - 1) PROVE Bien(i)
  <2> DEFINE r == g[i - 1]
             s == t[i]
  <2>1. Sano(r, M) /\ \A q, a : a \in Suyas(r, q) <=> \E k \in 1 .. i - 1 : t[k].pid = q /\ a \in Direcciones(t[k])
    BY <1>6
  <2>2. g[i] = Junta(r, s)
    BY <1>4
  <2>3. s \in Tramo(M) /\ s.base + s.tam <= M /\ (~Libre(s) => s.tam > 0 /\ s.id \in Id)
    BY <1>1, TramoTipo DEF Sano
  <2> HIDE DEF r, Bien
  <2>4. ASSUME NEW j \in DOMAIN r, NEW a, a \in Direcciones(r[j]), a \in Direcciones(s) PROVE FALSE
    <3>1. a \in Suyas(r, r[j].pid)
      BY <2>4, EnSuyas
    <3>2. PICK k \in 1 .. i - 1 : a \in Direcciones(t[k])
      BY <2>1, <3>1
    <3>3. k \in 1 .. N /\ k # i
      BY <1>1
    <3>4. QED
      BY <1>1, <2>4, <3>2, <3>3 DEF Sano, Disjuntos
  <2>5. \A j \in DOMAIN r : Direcciones(r[j]) \cap Direcciones(s) = {}
    BY <2>4
  <2> HIDE DEF s
  <2>6. /\ Sano(g[i], M)
        /\ \A q, a : a \in Suyas(g[i], q) <=> a \in Suyas(r, q) \/ (s.pid = q /\ a \in Direcciones(s))
    BY <2>1, <2>2, <2>3, <2>5, JuntaEs
  <2>7. \A k : k \in 1 .. i <=> k \in 1 .. i - 1 \/ k = i
    BY <1>1
  <2>8. \A q, a : a \in Suyas(g[i], q) <=> \E k \in 1 .. i : t[k].pid = q /\ a \in Direcciones(t[k])
    BY <2>1, <2>6, <2>7 DEF s
  <2>9. QED
    BY <2>6, <2>8 DEF Bien
<1> HIDE DEF Bien
<1>7. 0 \in G /\ \A i \in 1 .. N : i - 1 \in G => i \in G
  BY <1>1, <1>5, <1>6
<1>8. N \in G
  <2> HIDE DEF G, N
  <2>1. \A i \in 0 .. N : i \in G
    BY <1>1, <1>7, Induccion
  <2>2. QED
    BY <1>1, <2>1
<1>9. Bien(N)
  BY <1>8
<1>10. ASSUME NEW q PROVE Suyas(Fusiona(t), q) = Suyas(t, q)
  <2>1. ASSUME NEW a PROVE a \in Suyas(Fusiona(t), q) <=> a \in Suyas(t, q)
    BY <1>1, <1>4, <1>9, EnSuyas DEF Bien
  <2>2. QED
    BY <2>1
<1>11. QED
  BY <1>4, <1>9, <1>10 DEF Bien

-----------------------------------------------------------------------------
(* The return from SWAP: each segment takes a hole, or none.                *)

DeVuelta(p, M) == [pid : {p}, id : Id, base : 0 .. M, tam : 1 .. M]

LEMMA RestauraEs ==
    ASSUME NEW M \in Nat, NEW t, Sano(t, M), NEW p \in Pid, NEW s \in DeVuelta(p, M)
    PROVE  LET t2 == Restaura(t, s)
           IN  /\ Sano(t2, M)
               /\ \A q : q # p /\ q # Nadie => Suyas(t2, q) = Suyas(t, q)
               /\ Suyas(t2, p) \cup Suyas(t2, Nadie) = Suyas(t, p) \cup Suyas(t, Nadie)
               /\ Cardinality(Suyas(t2, p)) <= Cardinality(Suyas(t, p)) + s.tam
<1> DEFINE k == BuscaHueco(t, s.tam)
           t2 == Restaura(t, s)
<1>1. s.pid = p /\ s.id \in Id /\ s.tam \in Nat \ {0}
  BY DEF DeVuelta
<1>2. Cardinality(Suyas(t, p)) \in Nat /\ IsFiniteSet(Suyas(t, p))
  BY SuyasCuenta
<1>3. \/ k = 0
      \/ k # 0 /\ k \in DOMAIN t /\ Libre(t[k]) /\ s.tam <= t[k].tam
  BY <1>1, BuscaHuecoEs DEF Sano
<1>4. CASE k = 0
  <2>1. t2 = t
    BY <1>4 DEF Restaura
  <2>2. QED
    BY <1>1, <1>2, <2>1
<1>5. CASE k # 0 /\ k \in DOMAIN t /\ Libre(t[k]) /\ s.tam <= t[k].tam
  <2>1. t2 = Asigna(t, k, p, s.id, s.tam)
    BY <1>1, <1>5 DEF Restaura
  <2> DEFINE I == t[k].base .. t[k].base + s.tam - 1
  <2> HIDE DEF k, t2
  <2>2. /\ Sano(t2, M)
        /\ IsFiniteSet(I) /\ Cardinality(I) = s.tam /\ I \subseteq Suyas(t, Nadie)
        /\ Suyas(t2, p) = Suyas(t, p) \cup I
        /\ Suyas(t2, Nadie) = Suyas(t, Nadie) \ I
        /\ \A q : q # p /\ q # Nadie => Suyas(t2, q) = Suyas(t, q)
    BY <1>1, <1>5, <2>1, AsignaEs
  <2> HIDE DEF I
  <2>3. Suyas(t2, p) \cup Suyas(t2, Nadie) = Suyas(t, p) \cup Suyas(t, Nadie)
    BY <2>2
  <2>4. Cardinality(Suyas(t, p) \cup I) = Cardinality(Suyas(t, p)) + Cardinality(I) - Cardinality(Suyas(t, p) \cap I)
    BY <1>2, <2>2, FS_Union
  <2>5. Cardinality(Suyas(t, p) \cap I) \in Nat
    BY <1>2, FS_Intersection, FS_CardinalityType
  <2>6. Cardinality(Suyas(t2, p)) <= Cardinality(Suyas(t, p)) + s.tam
    BY <1>1, <1>2, <2>2, <2>4, <2>5
  <2>7. QED
    BY <2>2, <2>3, <2>6 DEF t2
<1>6. QED
  BY <1>3, <1>4, <1>5

LEMMA RestauradasPasos ==
    ASSUME NEW M \in Nat, NEW t, Sano(t, M), NEW p \in Pid, NEW suyos \in Seq(DeVuelta(p, M))
    PROVE  \E g : /\ g[0] = t
                  /\ \A i \in 1 .. Len(suyos) : g[i] = Restaura(g[i - 1], suyos[i])
                  /\ Restauradas(t, suyos) = g[Len(suyos)]
<1> DEFINE N == Len(suyos)
           X == {x \in Seq(Tramo(M)) : Sano(x, M)}
           paso == [z \in (1 .. N) \X X |-> Restaura(z[2], suyos[z[1]])]
           J(g) == [n \in 0 .. N |-> IF n = 0 THEN t ELSE Restaura(g[n - 1], suyos[n])]
           con == CHOOSE g : g = J(g)
<1>1. N \in Nat /\ t \in X
  BY LenProperties DEF Sano
<1>2. paso \in [(1 .. N) \X X -> X]
  <2>1. \A x : x \in X <=> Sano(x, M)
    BY DEF Sano
  <2> HIDE DEF X
  <2>2. \A i \in 1 .. N : suyos[i] \in DeVuelta(p, M)
    BY ElementOfSeq
  <2>3. ASSUME NEW i \in 1 .. N, NEW x \in X PROVE Restaura(x, suyos[i]) \in X
    BY <2>1, <2>2, RestauraEs
  <2>4. QED
    BY <2>3
<1>3. PICK f \in [0 .. N -> X] : f[0] = t /\ \A i \in 1 .. N : f[i] = paso[<<i, f[i - 1]>>]
  <2> HIDE DEF paso, X, N
  <2>1. \E f : Recorre(f, N, X, t, paso)
    BY <1>1, <1>2, Recursion
  <2>2. QED
    BY <2>1 DEF Recorre
<1>4. ASSUME NEW i \in 1 .. N PROVE f[i] = Restaura(f[i - 1], suyos[i])
  <2>1. f[i - 1] \in X
    <3> HIDE DEF X
    <3>1. QED
      BY <1>1
  <2>2. paso[<<i, f[i - 1]>>] = Restaura(f[i - 1], suyos[i])
    <3> HIDE DEF X
    <3>1. QED
      BY <2>1
  <2>3. QED
    BY <1>3, <2>2
<1>5. f = J(f)
  <2> HIDE DEF X
  <2>1. \A n \in 0 .. N : f[n] = IF n = 0 THEN t ELSE Restaura(f[n - 1], suyos[n])
    BY <1>1, <1>3, <1>4
  <2>2. QED
    BY <2>1
<1>6. con = J(con)
  <2> HIDE DEF J
  <2>1. QED
    BY <1>5
<1>7. Restauradas(t, suyos) = con[N]
  BY DEF Restauradas
<1> HIDE DEF con
<1>8. con[0] = t /\ \A i \in 1 .. N : con[i] = Restaura(con[i - 1], suyos[i])
  BY <1>1, <1>6
<1>9. QED
  BY <1>7, <1>8

LEMMA RestauradasEs ==
    ASSUME NEW M \in Nat, NEW t, Sano(t, M), NEW p \in Pid, NEW suyos \in Seq(DeVuelta(p, M))
    PROVE  LET t2 == Restauradas(t, suyos)
           IN  /\ Sano(t2, M)
               /\ \A q : q # p /\ q # Nadie => Suyas(t2, q) = Suyas(t, q)
               /\ Suyas(t2, p) \cup Suyas(t2, Nadie) = Suyas(t, p) \cup Suyas(t, Nadie)
               /\ Cardinality(Suyas(t2, p)) <= Cardinality(Suyas(t, p)) + SumaTam(suyos, DOMAIN suyos)
<1> DEFINE N == Len(suyos)
<1>1. N \in Nat /\ DOMAIN suyos = 1 .. N /\ \A i \in 1 .. N : suyos[i] \in DeVuelta(p, M)
  BY LenProperties, ElementOfSeq
<1>2. suyos \in Seq(Tramo(M))
  <2>1. DeVuelta(p, M) \subseteq Tramo(M)
    BY DEF DeVuelta, Tramo
  <2>2. QED
    BY <2>1, SeqMonotonic
<1>3. PICK g : g[0] = t /\ (\A i \in 1 .. N : g[i] = Restaura(g[i - 1], suyos[i])) /\ Restauradas(t, suyos) = g[N]
  BY RestauradasPasos
<1> DEFINE Bien(i) == /\ Sano(g[i], M)
                      /\ \A q : q # p /\ q # Nadie => Suyas(g[i], q) = Suyas(t, q)
                      /\ Suyas(g[i], p) \cup Suyas(g[i], Nadie) = Suyas(t, p) \cup Suyas(t, Nadie)
                      /\ Cardinality(Suyas(g[i], p)) <= Cardinality(Suyas(t, p)) + SumaTam(suyos, 1 .. i)
           G == {i \in 0 .. N : Bien(i)}
<1>4. \A i \in 0 .. N : SumaTam(suyos, 1 .. i) \in Nat
  <2>1. ASSUME NEW i \in 0 .. N PROVE SumaTam(suyos, 1 .. i) \in Nat
    <3>1. 1 .. i \in SUBSET DOMAIN suyos
      BY <1>1
    <3>2. QED
      BY <1>2, <3>1, UnidadesFinitas
  <2>2. QED
    BY <2>1
<1>5. Cardinality(Suyas(t, p)) \in Nat
  BY SuyasCuenta
<1>6. Bien(0)
  <2>1. SumaTam(suyos, 1 .. 0) \in Nat
    BY <1>1, <1>4
  <2>2. QED
    BY <1>3, <1>5, <2>1
<1>7. ASSUME NEW i \in 1 .. N, Bien(i - 1) PROVE Bien(i)
  <2> DEFINE r == g[i - 1]
             s == suyos[i]
  <2>1. g[i] = Restaura(r, s) /\ s \in DeVuelta(p, M)
    BY <1>1, <1>3
  <2>2. /\ Sano(r, M)
        /\ \A q : q # p /\ q # Nadie => Suyas(r, q) = Suyas(t, q)
        /\ Suyas(r, p) \cup Suyas(r, Nadie) = Suyas(t, p) \cup Suyas(t, Nadie)
        /\ Cardinality(Suyas(r, p)) <= Cardinality(Suyas(t, p)) + SumaTam(suyos, 1 .. i - 1)
    BY <1>7
  <2> HIDE DEF r, Bien
  <2>3. SumaTam(suyos, 1 .. i - 1) + s.tam <= SumaTam(suyos, 1 .. i)
    <3>1. 1 .. i \in SUBSET DOMAIN suyos /\ 1 .. i - 1 \in SUBSET (1 .. i) /\ i \in 1 .. i /\ i \notin 1 .. i - 1
      BY <1>1
    <3>2. QED
      BY <1>2, <3>1, SumaCrece
  <2> HIDE DEF s
  <2>4. /\ Sano(g[i], M)
        /\ \A q : q # p /\ q # Nadie => Suyas(g[i], q) = Suyas(r, q)
        /\ Suyas(g[i], p) \cup Suyas(g[i], Nadie) = Suyas(r, p) \cup Suyas(r, Nadie)
        /\ Cardinality(Suyas(g[i], p)) <= Cardinality(Suyas(r, p)) + s.tam
    BY <2>1, <2>2, RestauraEs
  <2>5. Cardinality(Suyas(g[i], p)) \in Nat /\ Cardinality(Suyas(r, p)) \in Nat /\ s.tam \in Nat
    BY <2>1, <2>2, <2>4, SuyasCuenta DEF DeVuelta
  <2>6. SumaTam(suyos, 1 .. i) \in Nat /\ SumaTam(suyos, 1 .. i - 1) \in Nat
    BY <1>1, <1>4
  <2>7. Cardinality(Suyas(g[i], p)) <= Cardinality(Suyas(t, p)) + SumaTam(suyos, 1 .. i)
    BY <1>5, <2>2, <2>3, <2>4, <2>5, <2>6
  <2>8. QED
    BY <2>2, <2>4, <2>7 DEF Bien
<1> HIDE DEF Bien
<1>8. 0 \in G /\ \A i \in 1 .. N : i - 1 \in G => i \in G
  BY <1>1, <1>6, <1>7
<1>9. N \in G
  <2> HIDE DEF G, N
  <2>1. \A i \in 0 .. N : i \in G
    BY <1>1, <1>8, Induccion
  <2>2. QED
    BY <1>1, <2>1
<1>10. Bien(N)
  BY <1>9
<1>11. QED
  BY <1>1, <1>3, <1>10 DEF Bien

-----------------------------------------------------------------------------
(* The compaction: nobody's units change, and the rest is one hole.         *)

LEMMA LibresYOcupados ==
    ASSUME NEW M \in Nat, NEW t, Sano(t, M), De(t, DOMAIN t) = 0 .. M - 1
    PROVE  /\ SumaTam(t, Libres(t)) \in Nat /\ SumaTam(t, Ocupados(t)) \in Nat
           /\ SumaTam(t, Libres(t)) + SumaTam(t, Ocupados(t)) = M
<1> DEFINE L == De(t, Libres(t))
           O == De(t, Ocupados(t))
<1>1. t \in Seq(Tramo(M)) /\ Disjuntos(t)
  BY DEF Sano
<1>2. Libres(t) \in SUBSET DOMAIN t /\ Ocupados(t) \in SUBSET DOMAIN t
      /\ Libres(t) \cup Ocupados(t) = DOMAIN t /\ Libres(t) \cap Ocupados(t) = {}
  BY DEF Libres, Ocupados
<1>3. IsFiniteSet(L) /\ IsFiniteSet(O) /\ SumaTam(t, Libres(t)) = Cardinality(L) /\ SumaTam(t, Ocupados(t)) = Cardinality(O)
  BY <1>1, <1>2, DireccionesFinitas, UnidadesSonDirecciones
<1>4. Cardinality(L) \in Nat /\ Cardinality(O) \in Nat
  BY <1>3, FS_CardinalityType
<1> HIDE DEF L, O
<1>5. L \cap O = {}
  <2>1. ASSUME NEW a \in L, a \in O PROVE FALSE
    <3>1. PICK j \in Libres(t) : a \in Direcciones(t[j])
      BY EnDe DEF L
    <3>2. PICK k \in Ocupados(t) : a \in Direcciones(t[k])
      BY <2>1, EnDe DEF O
    <3>3. QED
      BY <1>1, <1>2, <3>1, <3>2 DEF Disjuntos
  <2>2. QED
    BY <2>1
<1>6. L \cup O = 0 .. M - 1
  <2>1. ASSUME NEW a PROVE a \in L \/ a \in O <=> a \in De(t, DOMAIN t)
    BY <1>2, EnDe DEF L, O
  <2>2. QED
    BY <2>1
<1>7. Cardinality(L \cup O) = Cardinality(L) + Cardinality(O) - Cardinality(L \cap O)
  BY <1>3, FS_Union
<1>8. Cardinality(L \cap O) = 0
  BY <1>5, FS_EmptySet
<1>9. Cardinality(L \cup O) = M
  <2>1. Cardinality(0 .. M - 1) = M
    BY FS_Interval
  <2>2. QED
    BY <1>6, <2>1
<1>10. Cardinality(L) + Cardinality(O) = M
  BY <1>4, <1>7, <1>8, <1>9
<1>11. QED
  BY <1>3, <1>4, <1>10

LEMMA SumaParte ==
    ASSUME NEW M \in Nat, NEW t \in Seq(Tramo(M)), NEW L \in SUBSET DOMAIN t, NEW j \in L
    PROVE  SumaTam(t, {i \in L : i < j}) \in Nat /\ SumaTam(t, {i \in L : i < j}) + t[j].tam <= SumaTam(t, L)
<1> DEFINE K == {i \in L : i < j}
<1>1. DOMAIN t = 1 .. Len(t)
  BY LenProperties
<1>2. K \in SUBSET L /\ K \in SUBSET DOMAIN t /\ j \notin K
  BY <1>1
<1> HIDE DEF K
<1>3. SumaTam(t, K) \in Nat /\ SumaTam(t, K) + t[j].tam <= SumaTam(t, L)
  BY <1>2, UnidadesFinitas, SumaCrece
<1>4. QED
  BY <1>3 DEF K

\* Two stretches one after the other share no address, and one that ends by n is in 0 .. n - 1.
LEMMA Separados ==
    ASSUME NEW b \in Nat, NEW x \in Nat, NEW c \in Nat, NEW y \in Nat,
           b + x <= c \/ c + y <= b,
           NEW a, a \in b .. b + x - 1, a \in c .. c + y - 1
    PROVE  FALSE
<1>1. a \in Int /\ b <= a /\ a <= b + x - 1 /\ c <= a /\ a <= c + y - 1
  OBVIOUS
<1>2. QED
  BY <1>1

LEMMA Cabe ==
    ASSUME NEW b \in Nat, NEW x \in Nat, NEW n \in Nat, b + x <= n, NEW a, a \in b .. b + x - 1
    PROVE  a \in 0 .. n - 1
<1>1. a \in Int /\ b <= a /\ a <= b + x - 1
  OBVIOUS
<1>2. QED
  BY <1>1

LEMMA DesdeCero ==
    ASSUME NEW n \in Nat
    PROVE  IsFiniteSet(0 .. n - 1) /\ Cardinality(0 .. n - 1) = n
<1>1. 0 \in Int /\ n - 1 \in Int /\ (n - 1) - 0 + 1 = n /\ (0 > n - 1 => n = 0)
  OBVIOUS
<1>2. QED
  BY <1>1, FS_Interval

LEMMA CompactadaEs ==
    ASSUME NEW t, memoria_total \in Nat, Sano(t, memoria_total),
           De(t, DOMAIN t) = 0 .. memoria_total - 1
    PROVE  LET t2 == Compactada(t)
           IN  /\ Sano(t2, memoria_total)
               /\ De(t2, DOMAIN t2) = 0 .. memoria_total - 1
               /\ \A p \in Pid : SumaTam(t2, DePid(t2, p)) = SumaTam(t, DePid(t, p))
               /\ \A p \in Pid : DePid(t, p) = {} => DePid(t2, p) = {}
               /\ SumaTam(t2, Libres(t2)) = SumaTam(t, Libres(t))
               /\ Libres(t2) = {Len(t2)} /\ Len(t2) \in DOMAIN t2
<1> DEFINE M == memoria_total
           O == Ocupados(t)
           S == SumaTam(t, O)
           f == EnOrden(O, PorLista(O))
           n == Cardinality(O)
           corrida == [k \in DOMAIN t |-> [t[k] EXCEPT !.base = BaseNueva(t, k)]]
           s == Sublista(corrida, O)
           h == Hueco(S, M - S)
           t2 == Compactada(t)
<1>1. t \in Seq(Tramo(M)) /\ Disjuntos(t) /\ O \in SUBSET DOMAIN t /\ DOMAIN t = 1 .. Len(t) /\ Len(t) \in Nat
  BY LenProperties DEF Sano, Ocupados
<1>2. S \in Nat /\ SumaTam(t, Libres(t)) = M - S /\ M - S \in Nat
  BY LibresYOcupados
<1>3. /\ n \in Nat /\ f \in [1 .. n -> O]
      /\ \A i, j \in 1 .. n : f[i] = f[j] => i = j
      /\ \A k \in O : \E i \in 1 .. n : f[i] = k
  BY <1>1, PorListaEs, EnOrdenEs
<1>4. ASSUME NEW k \in O
      PROVE  /\ t[k].base \in 0 .. M /\ t[k].tam \in 1 .. M /\ t[k].pid \in Pid /\ t[k].id \in Id
             /\ BaseNueva(t, k) \in Nat /\ BaseNueva(t, k) + t[k].tam <= S
             /\ corrida[k] = [t[k] EXCEPT !.base = BaseNueva(t, k)]
  <2>1. k \in DOMAIN t /\ t[k].base \in 0 .. M /\ t[k].tam \in 0 .. M /\ t[k].pid \in Pid \cup {Nadie}
    BY <1>1, TramoTipo
  <2>2. t[k].pid # Nadie /\ t[k].tam > 0 /\ t[k].id \in Id
    BY <1>1, <2>1 DEF Ocupados, Libres, Libre, Sano
  <2>3. BaseNueva(t, k) \in Nat /\ BaseNueva(t, k) + t[k].tam <= S
    BY <1>1, SumaParte DEF BaseNueva
  <2>4. QED
    BY <2>1, <2>2, <2>3
<1>5. ASSUME NEW j \in O, NEW k \in O, j < k
      PROVE  BaseNueva(t, j) + t[j].tam <= BaseNueva(t, k)
  <2> DEFINE L == {i \in O : i < k}
  <2>1. L \in SUBSET DOMAIN t /\ j \in L /\ {i \in L : i < j} = {i \in O : i < j}
    BY <1>1, <1>5
  <2> HIDE DEF L
  <2>2. SumaTam(t, {i \in L : i < j}) + t[j].tam <= SumaTam(t, L)
    BY <1>1, <2>1, SumaParte
  <2>3. QED
    BY <2>1, <2>2 DEF L, BaseNueva
<1>6. t2 = Append(s, h)
  BY DEF Compactada
<1>7. /\ DOMAIN s = 1 .. n /\ s = [i \in 1 .. n |-> s[i]]
      /\ \A i \in 1 .. n : s[i] = corrida[f[i]]
  BY <1>3 DEF Sublista, Elige
<1> HIDE DEF f, n, corrida, s, t2, S, O
<1>8. ASSUME NEW i \in 1 .. n
      PROVE  /\ f[i] \in O /\ f[i] \in DOMAIN t
             /\ s[i].pid = t[f[i]].pid /\ s[i].id = t[f[i]].id /\ s[i].tam = t[f[i]].tam
             /\ s[i].base = BaseNueva(t, f[i])
             /\ s[i] \in Tramo(M) /\ ~Libre(s[i]) /\ s[i].tam > 0 /\ s[i].id \in Id
             /\ s[i].base \in Nat /\ s[i].tam \in Nat /\ s[i].base + s[i].tam <= S
  <2> DEFINE k == f[i]
             b == BaseNueva(t, k)
  <2>1. k \in O /\ k \in DOMAIN t
    BY <1>1, <1>3
  <2>2. s[i] = [t[k] EXCEPT !.base = b]
    BY <1>4, <1>7, <2>1
  <2>3. t[k] \in Tramo(M)
    BY <1>1, <2>1, TramoTipo
  <2>4. /\ t[k].tam \in 1 .. M /\ t[k].pid \in Pid /\ t[k].id \in Id
        /\ b \in Nat /\ b + t[k].tam <= S
    BY <1>4, <2>1
  <2> HIDE DEF k, b
  <2>5. b \in 0 .. M
    BY <1>2, <2>4
  <2>6. s[i].pid = t[k].pid /\ s[i].id = t[k].id /\ s[i].tam = t[k].tam /\ s[i].base = b /\ s[i] \in Tramo(M)
    BY <2>2, <2>3, <2>5 DEF Tramo
  <2>7. s[i].pid # Nadie
    BY <2>4, <2>6, HuecoAssumption DEF HuecoAssumption
  <2>8. QED
    BY <2>1, <2>4, <2>6, <2>7 DEF Libre, k, b
<1>9. s \in Seq(Tramo(M)) /\ Len(s) = n
  BY <1>3, <1>7, <1>8, Pone
<1>10. Disjuntos(s)
  <2> SUFFICES ASSUME NEW i \in 1 .. n, NEW j \in 1 .. n, i # j,
                      NEW a, a \in Direcciones(s[i]), a \in Direcciones(s[j])
               PROVE  FALSE
    BY <1>7 DEF Disjuntos
  <2>1. f[i] # f[j] /\ f[i] \in Nat /\ f[j] \in Nat
    BY <1>1, <1>3, <1>8
  <2>2. f[i] < f[j] \/ f[j] < f[i]
    BY <2>1
  <2>3. s[i].base + s[i].tam <= s[j].base \/ s[j].base + s[j].tam <= s[i].base
    BY <1>5, <1>8, <2>2
  <2>4. a \in s[i].base .. s[i].base + s[i].tam - 1 /\ a \in s[j].base .. s[j].base + s[j].tam - 1
    BY DEF Direcciones
  <2>5. s[i].base \in Nat /\ s[i].tam \in Nat /\ s[j].base \in Nat /\ s[j].tam \in Nat
    BY <1>8
  <2>6. QED
    BY <2>3, <2>4, <2>5, Separados
<1>11. Sano(s, M)
  <2>1. \A i \in 1 .. n : s[i].base + s[i].tam <= M
    BY <1>2, <1>8
  <2>2. QED
    BY <1>7, <1>8, <1>9, <1>10, <2>1 DEF Sano
<1>12. ASSUME NEW L \in SUBSET (1 .. n)
       PROVE  SumaTam(s, L) = SumaTam(t, {f[i] : i \in L})
  <2> DEFINE e == Elige(t, f)
  <2>1. f \in [1 .. n -> DOMAIN t]
    BY <1>1, <1>3
  <2>2. SumaTam(e, L) = SumaTam(t, {f[i] : i \in L})
    <3>1. M \in Nat /\ t \in Seq(Tramo(M)) /\ n \in Nat /\ L \subseteq 1 .. n /\ SinRepetir(f, n)
      BY <1>1, <1>3 DEF SinRepetir
    <3> HIDE DEF n, f, e
    <3>2. SumaTam(Elige(t, f), L) = SumaTam(t, Imagen(f, L))
      BY <2>1, <3>1, SumaElige
    <3>3. QED
      BY <3>2 DEF e, Imagen
  <2>3. L \subseteq DOMAIN e /\ L \subseteq DOMAIN s /\ \A i \in L : s[i].tam = e[i].tam
    BY <1>7, <1>8, <2>1 DEF Elige
  <2> HIDE DEF e
  <2>4. SumaTam(s, L) = SumaTam(e, L)
    BY <2>3, SumaIgual
  <2>5. QED
    BY <2>2, <2>4
<1>13. De(s, 1 .. n) = 0 .. S - 1
  <2>1. 1 .. n \in SUBSET (1 .. n) /\ {f[i] : i \in 1 .. n} = O
    BY <1>3
  <2>2. SumaTam(s, 1 .. n) = S
    BY <1>12, <2>1 DEF S
  <2>3. Cardinality(De(s, 1 .. n)) = S
    BY <1>7, <1>9, <1>10, <2>2, UnidadesSonDirecciones
  <2>4. De(s, 1 .. n) \subseteq 0 .. S - 1
    <3> SUFFICES ASSUME NEW a \in De(s, 1 .. n) PROVE a \in 0 .. S - 1
      OBVIOUS
    <3>1. PICK i \in 1 .. n : a \in Direcciones(s[i])
      BY EnDe
    <3>2. a \in s[i].base .. s[i].base + s[i].tam - 1
      BY <3>1 DEF Direcciones
    <3>3. s[i].base \in Nat /\ s[i].tam \in Nat /\ s[i].base + s[i].tam <= S
      BY <1>8
    <3>4. QED
      BY <1>2, <3>2, <3>3, Cabe
  <2>5. IsFiniteSet(0 .. S - 1) /\ Cardinality(0 .. S - 1) = S
    BY <1>2, DesdeCero
  <2>6. QED
    BY <2>3, <2>4, <2>5, FS_Subset
<1>14. /\ h \in Tramo(M) /\ h.pid = Nadie /\ h.base = S /\ h.tam = M - S /\ Libre(h)
       /\ h.base + h.tam <= M
  BY <1>2 DEF Hueco, Tramo, Libre
<1> HIDE DEF h
<1>15. ASSUME NEW a PROVE a \in Direcciones(h) <=> a \in S .. M - 1
  <2>1. a \in Direcciones(h) <=> a \in S .. S + (M - S) - 1
    BY <1>14 DEF Direcciones
  <2>2. S + (M - S) - 1 = M - 1
    BY <1>2
  <2>3. QED
    BY <2>1, <2>2
<1>16. ASSUME NEW i \in DOMAIN s PROVE Direcciones(s[i]) \cap Direcciones(h) = {}
  <2>1. ASSUME NEW a \in Direcciones(s[i]) PROVE a \in 0 .. S - 1
    BY <1>7, <1>13, EnDe
  <2>2. QED
    BY <1>2, <1>15, <2>1
<1>17. Junta(s, h) = t2
  <2>1. ~(s # <<>> /\ Libre(s[Len(s)]))
    <3>1. SUFFICES ASSUME s # <<>> PROVE ~Libre(s[Len(s)])
      OBVIOUS
    <3>2. n \in 1 .. n
      BY <1>3, <1>9, <3>1, EmptySeq
    <3>3. QED
      BY <1>8, <1>9, <3>2
  <2>2. QED
    BY <1>6, <2>1 DEF Junta
<1>18. /\ Sano(t2, M)
       /\ \A q, a : a \in Suyas(t2, q) <=> a \in Suyas(s, q) \/ (h.pid = q /\ a \in Direcciones(h))
  BY <1>11, <1>14, <1>16, <1>17, JuntaEs
<1>19. ASSUME NEW p \in Pid PROVE SumaTam(t2, DePid(t2, p)) = SumaTam(t, DePid(t, p))
  <2>1. p # Nadie
    BY HuecoAssumption DEF HuecoAssumption
  <2>2. Suyas(t2, p) = Suyas(s, p)
    <3>1. ASSUME NEW a PROVE a \in Suyas(t2, p) <=> a \in Suyas(s, p)
      BY <1>14, <1>18, <2>1
    <3>2. QED
      BY <3>1
  <2>3. SumaTam(t2, DePid(t2, p)) = SumaTam(s, DePid(s, p))
    BY <1>11, <1>18, <2>2, SuyasCuenta
  <2>4. DePid(s, p) \in SUBSET (1 .. n)
    BY <1>7 DEF DePid
  <2>5. {f[i] : i \in DePid(s, p)} = DePid(t, p)
    <3>1. ASSUME NEW k PROVE k \in DePid(t, p) <=> \E i \in DePid(s, p) : k = f[i]
      <4>1. k \in DePid(t, p) => k \in O
        BY <2>1 DEF DePid, O, Ocupados, Libres, Libre
      <4>2. \A i \in 1 .. n : i \in DePid(s, p) <=> f[i] \in DePid(t, p)
        BY <1>7, <1>8 DEF DePid
      <4>3. QED
        BY <1>3, <2>4, <4>1, <4>2
    <3>2. QED
      BY <3>1
  <2>6. QED
    BY <1>12, <2>3, <2>4, <2>5
<1>20. /\ Len(t2) = n + 1 /\ DOMAIN t2 = 1 .. n + 1
       /\ (\A i \in 1 .. n : t2[i] = s[i]) /\ t2[n + 1] = h
  <2>1. /\ Len(t2) = n + 1 /\ (\A i \in 1 .. n : t2[i] = s[i]) /\ t2[n + 1] = h
        /\ t2 \in Seq(Tramo(M))
    BY SMTT(30), <1>6, <1>9, <1>14, AppendProperties
  <2>2. QED
    BY <2>1, LenProperties
<1>21. ASSUME NEW p \in Pid, DePid(t, p) = {} PROVE DePid(t2, p) = {}
  <2>1. p # Nadie
    BY HuecoAssumption DEF HuecoAssumption
  <2>2. ASSUME NEW i \in DOMAIN t2 PROVE t2[i].pid # p
    <3>1. i \in 1 .. n \/ i = n + 1
      BY <1>3, <1>20
    <3>2. QED
      BY <1>8, <1>14, <1>20, <1>21, <2>1, <3>1 DEF DePid
  <2>3. QED
    BY <2>2 DEF DePid
<1>22. Libres(t2) = {n + 1}
  <2>1. ASSUME NEW i \in DOMAIN t2 PROVE Libre(t2[i]) <=> i = n + 1
    <3>1. i \in 1 .. n \/ i = n + 1
      BY <1>3, <1>20
    <3>2. n + 1 \notin 1 .. n
      BY <1>3
    <3>3. QED
      BY <1>8, <1>14, <1>20, <3>1, <3>2
  <2>2. n + 1 \in DOMAIN t2
    BY <1>3, <1>20
  <2>3. QED
    BY <2>1, <2>2 DEF Libres
<1>23. SumaTam(t2, Libres(t2)) = SumaTam(t, Libres(t))
  <2>1. n + 1 \in DOMAIN t2 /\ t2 \in Seq(Tramo(M))
    BY <1>3, <1>18, <1>20 DEF Sano
  <2>2. SumaTam(t2, {n + 1}) = t2[n + 1].tam
    BY <2>1, SumaUno
  <2>3. QED
    BY <1>2, <1>14, <1>20, <1>22, <2>2
<1>24. De(t2, DOMAIN t2) = 0 .. M - 1
  <2>1. ASSUME NEW a PROVE a \in De(t2, DOMAIN t2) <=> a \in 0 .. S - 1 \/ a \in S .. M - 1
    <3>1. \A i : i \in DOMAIN t2 <=> i \in 1 .. n \/ i = n + 1
      BY <1>3, <1>20
    <3>2. a \in De(t2, DOMAIN t2) <=> (\E i \in 1 .. n : a \in Direcciones(s[i])) \/ a \in Direcciones(h)
      BY <1>20, <3>1, EnDe
    <3>3. a \in De(s, 1 .. n) <=> \E i \in 1 .. n : a \in Direcciones(s[i])
      BY EnDe
    <3>4. QED
      BY <1>13, <1>15, <3>2, <3>3
  <2>2. \A a : a \in 0 .. M - 1 <=> a \in 0 .. S - 1 \/ a \in S .. M - 1
    BY <1>2
  <2>3. QED
    BY <2>1, <2>2
<1>25. Len(t2) \in DOMAIN t2
  BY <1>3, <1>20
<1>26. QED
  BY <1>18, <1>19, <1>20, <1>21, <1>22, <1>23, <1>24, <1>25 DEF t2

-----------------------------------------------------------------------------
(* The lists the requests leave.                                            *)

\* A process without addresses has no segments.
LEMMA SuyasVacias ==
    ASSUME NEW M \in Nat, NEW t, Sano(t, M), NEW p \in Pid
    PROVE  Suyas(t, p) = {} <=> DePid(t, p) = {}
<1>1. ASSUME DePid(t, p) = {} PROVE Suyas(t, p) = {}
  BY <1>1, EnSuyas DEF DePid
<1>2. ASSUME NEW k \in DePid(t, p) PROVE Suyas(t, p) # {}
  <2>1. t \in Seq(Tramo(M)) /\ k \in DOMAIN t /\ t[k].pid = p /\ p # Nadie
    BY HuecoAssumption DEF HuecoAssumption, DePid, Sano
  <2>2. t[k].tam > 0
    BY <2>1 DEF Sano, Libre
  <2>3. t[k].base \in Nat /\ t[k].tam \in Nat
    BY <2>1, TramoTipo
  <2>4. t[k].base < t[k].base + t[k].tam
    BY <2>2, <2>3
  <2>5. t[k].base \in Direcciones(t[k])
    BY <2>1, <2>3, <2>4, DireccionesDe
  <2>6. QED
    BY <2>1, <2>5, EnSuyas
<1>3. QED
  BY <1>1, <1>2

\* What passes between a process and the holes leaves the addresses of the list.
LEMMA MismasDirecciones ==
    ASSUME NEW M \in Nat, NEW t, Sano(t, M), NEW t2, Sano(t2, M), NEW p \in Pid,
           Suyas(t2, p) \cup Suyas(t2, Nadie) = Suyas(t, p) \cup Suyas(t, Nadie),
           \A q : q # p /\ q # Nadie => Suyas(t2, q) = Suyas(t, q)
    PROVE  De(t2, DOMAIN t2) = De(t, DOMAIN t)
<1>1. t \in Seq(Tramo(M)) /\ t2 \in Seq(Tramo(M))
  BY DEF Sano
<1>2. ASSUME NEW a PROVE a \in De(t2, DOMAIN t2) <=> a \in De(t, DOMAIN t)
  <2>1. a \in De(t2, DOMAIN t2) <=> \E q \in Pid \cup {Nadie} : a \in Suyas(t2, q)
    BY <1>1, TodasSonDeAlguien
  <2>2. a \in De(t, DOMAIN t) <=> \E q \in Pid \cup {Nadie} : a \in Suyas(t, q)
    BY <1>1, TodasSonDeAlguien
  <2>3. a \in Suyas(t2, p) \/ a \in Suyas(t2, Nadie) <=> a \in Suyas(t, p) \/ a \in Suyas(t, Nadie)
    OBVIOUS
  <2>4. QED
    BY <2>1, <2>2, <2>3
<1>3. QED
  BY <1>2

\* The units of all the positions selected, each once.
LEMMA SumaEligeTodo ==
    ASSUME NEW M \in Nat, NEW t \in Seq(Tramo(M)), NEW n \in Nat, NEW f,
           f \in [1 .. n -> DOMAIN t], \A i, j \in 1 .. n : f[i] = f[j] => i = j
    PROVE  SumaTam(Elige(t, f), 1 .. n) = SumaTam(t, {f[i] : i \in 1 .. n})
<1>1. SinRepetir(f, n)
  BY DEF SinRepetir
<1>2. PICK L : L = 1 .. n
  OBVIOUS
<1>3. L \subseteq 1 .. n
  BY <1>2
<1>4. SumaTam(Elige(t, f), L) = SumaTam(t, Imagen(f, L))
  BY <1>1, <1>3, SumaElige
<1>5. QED
  BY <1>2, <1>4 DEF Imagen

\* What goes to SWAP has the type and the units of the segments of the process.
LEMMA SublistaEs ==
    ASSUME NEW M \in Nat, NEW t, Sano(t, M), NEW p \in Pid
    PROVE  LET s == Sublista(t, DePid(t, p))
           IN  s \in Seq(DeVuelta(p, M)) /\ SumaTam(s, DOMAIN s) = SumaTam(t, DePid(t, p))
<1> DEFINE K == DePid(t, p)
           f == EnOrden(K, PorLista(K))
           n == Cardinality(K)
           s == Sublista(t, K)
<1>1. t \in Seq(Tramo(M)) /\ K \in SUBSET DOMAIN t /\ p # Nadie
  BY HuecoAssumption DEF HuecoAssumption, Sano, DePid
<1>2. /\ n \in Nat /\ f \in [1 .. n -> K]
      /\ \A i, j \in 1 .. n : f[i] = f[j] => i = j
      /\ \A k \in K : \E i \in 1 .. n : f[i] = k
  BY <1>1, PorListaEs, EnOrdenEs
<1>3. s = Elige(t, f)
  BY DEF Sublista
<1>4. ASSUME NEW k \in K PROVE t[k] \in DeVuelta(p, M)
  <2>1. k \in DOMAIN t /\ t[k].pid = p
    BY DEF DePid
  <2>2. t[k] \in Tramo(M) /\ t[k].tam \in 0 .. M
    BY <1>1, <2>1, TramoTipo
  <2>3. t[k].tam > 0 /\ t[k].id \in Id
    BY <1>1, <2>1 DEF Sano, Libre
  <2>4. t[k].tam \in 1 .. M
    BY <2>2, <2>3
  <2>5. QED
    BY <2>1, <2>2, <2>3, <2>4 DEF Tramo, DeVuelta
<1> HIDE DEF K, f, n, s
<1>5. DOMAIN s = 1 .. n /\ s = [i \in 1 .. n |-> s[i]] /\ \A i \in 1 .. n : s[i] = t[f[i]]
  BY <1>2, <1>3 DEF Elige
<1>6. \A i \in 1 .. n : s[i] \in DeVuelta(p, M)
  BY <1>2, <1>4, <1>5
<1>7. s \in Seq(DeVuelta(p, M))
  BY <1>2, <1>5, <1>6, Pone
<1>8. f \in [1 .. n -> DOMAIN t] /\ DOMAIN t = 1 .. Len(t)
  BY <1>1, <1>2, LenProperties
<1>9. SumaTam(Elige(t, f), 1 .. n) = SumaTam(t, {f[i] : i \in 1 .. n})
  BY <1>1, <1>2, <1>8, SumaEligeTodo
<1>10. {f[i] : i \in 1 .. n} = K
  BY <1>2
<1>11. QED
  BY <1>3, <1>5, <1>7, <1>9, <1>10 DEF K, s

LEMMA SumaNada == ASSUME NEW t PROVE SumaTam(t, {}) = 0
<1>1. Unidades([k \in DOMAIN t |-> t[k].tam], {}) = {}
  BY DEF Unidades
<1>2. QED
  BY <1>1, SumaEs, FS_EmptySet

\* The list before the first stick, and with one hole.
LEMMA ListaVacia == Sano(<<>>, 0) /\ De(<<>>, DOMAIN <<>>) = 0 .. 0 - 1
<1>1. <<>> \in Seq(Tramo(0)) /\ DOMAIN <<>> = {}
  OBVIOUS
<1>2. 0 .. 0 - 1 = {}
  OBVIOUS
<1>3. QED
  BY <1>1, <1>2 DEF Sano, De, Disjuntos

LEMMA UnHueco ==
    ASSUME NEW M \in Nat
    PROVE  LET t == <<Hueco(0, M)>>
           IN  /\ Sano(t, M) /\ De(t, DOMAIN t) = 0 .. M - 1
               /\ Libres(t) = {1} /\ SumaTam(t, Libres(t)) = M
               /\ \A p \in Pid : DePid(t, p) = {}
<1> DEFINE h == Hueco(0, M)
           t == <<h>>
<1>1. h \in Tramo(M) /\ h.pid = Nadie /\ h.base = 0 /\ h.tam = M /\ Libre(h)
  BY DEF Hueco, Tramo, Libre
<1> HIDE DEF h
<1>2. t \in Seq(Tramo(M)) /\ DOMAIN t = {1} /\ t[1] = h
  BY <1>1
<1> HIDE DEF t
<1>3. Sano(t, M)
  BY <1>1, <1>2 DEF Sano, Disjuntos
<1>4. De(t, DOMAIN t) = 0 .. M - 1
  <2>1. Direcciones(h) = 0 .. M - 1
    BY <1>1 DEF Direcciones
  <2>2. ASSUME NEW a PROVE a \in De(t, DOMAIN t) <=> a \in 0 .. M - 1
    BY <1>2, <2>1, EnDe
  <2>3. QED
    BY <2>2
<1>5. Libres(t) = {1}
  BY <1>1, <1>2 DEF Libres
<1>6. SumaTam(t, Libres(t)) = M
  BY <1>1, <1>2, <1>5, SumaUno
<1>7. \A p \in Pid : DePid(t, p) = {}
  BY <1>1, <1>2, HuecoAssumption DEF HuecoAssumption, DePid
<1>8. QED
  BY <1>3, <1>4, <1>5, <1>6, <1>7 DEF t, h

=============================================================================

---------------------------- MODULE MemoriaPrivada ----------------------------
(***************************************************************************)
(* What the programs are promised of memory: each has its own segments; a  *)
(* read returns the bytes the program wrote, and nothing another process   *)
(* does, nor a stay in SWAP, changes one of them.  A segment is born with  *)
(* whatever bytes were there, and may be lost (a return from SWAP without  *)
(* a hole).  The promise ends where a program accesses memory with a base  *)
(* that is no longer one of its segments': then it reads anything, and     *)
(* may change anyone's bytes.  Module Accesos implements this.             *)
(***************************************************************************)
EXTENDS Integers, Sequences

CONSTANTS Pid, Nro, Valor, TamMax

VARIABLES
    contenido,   \* contenido[p]: the bytes of each segment of p, by its number
    quiere,      \* quiere[p]: the access p has asked for, or Nada
    leido        \* leido[p]: what the last read of p returned

vars == <<contenido, quiere, leido>>

\* op: "leer", "copiar" (a read, then a write of it at nro2, d2) or "escribir", each of them
\* also "_ajeno": with a base of another time.
Nada == [op |-> "nada"]
Dentro(p, nro, d, n) == nro \in DOMAIN contenido[p] /\ d .. d + n - 1 \subseteq DOMAIN contenido[p][nro]
Ajeno == {"leer_ajeno", "copiar_ajeno", "escribir_ajeno"}
EsAcceso(p, q) == q.op \notin Ajeno =>
    /\ Dentro(p, q.nro, q.d, q.n)
    /\ q.op = "copiar" => Dentro(p, q.nro2, q.d2, q.n)

Init ==
    /\ contenido = [p \in Pid |-> <<>>] /\ leido = [p \in Pid |-> <<>>]
    /\ quiere = [p \in Pid |-> Nada]

\* A segment with any bytes, which contenido' tells.
Crea(p, nro) ==
    /\ nro \notin DOMAIN contenido[p]
    /\ nro \in DOMAIN contenido'[p] /\ \E t \in 1 .. TamMax : contenido'[p][nro] \in [0 .. t - 1 -> Valor]
    /\ contenido' = [contenido EXCEPT ![p] =
           [i \in DOMAIN @ \cup {nro} |-> IF i = nro THEN contenido'[p][nro] ELSE contenido[p][i]]]
    /\ UNCHANGED <<quiere, leido>>

Pierde(p, nro) ==
    /\ nro \in DOMAIN contenido[p]
    /\ contenido' = [contenido EXCEPT ![p] = [i \in DOMAIN @ \ {nro} |-> @[i]]]
    /\ UNCHANGED <<quiere, leido>>

Termina(p) == contenido' = [contenido EXCEPT ![p] = <<>>] /\ UNCHANGED <<quiere, leido>>

\* An access inside a segment of its own, or an "_ajeno" one, which quiere' tells.
Pide(p) ==
    /\ quiere[p] = Nada /\ quiere'[p] # Nada /\ EsAcceso(p, quiere'[p])
    /\ quiere' = [quiere EXCEPT ![p] = quiere'[p]]
    /\ UNCHANGED <<contenido, leido>>

Lee(p) ==
    LET q == quiere[p]
        bytes == [k \in 1 .. q.n |-> contenido[p][q.nro][q.d + k - 1]]
    IN  /\ q.op \in {"leer", "copiar"} /\ Dentro(p, q.nro, q.d, q.n)
        /\ leido' = [leido EXCEPT ![p] = bytes]
        /\ quiere' = [quiere EXCEPT ![p] =
               IF q.op = "leer" THEN Nada
               ELSE [op |-> "escribir", nro |-> q.nro2, d |-> q.d2, n |-> q.n, datos |-> bytes]]
        /\ UNCHANGED contenido

Escribe(p) ==
    LET q == quiere[p]
    IN  /\ q.op = "escribir" /\ Dentro(p, q.nro, q.d, q.n)
        /\ contenido' = [contenido EXCEPT ![p][q.nro] =
               [k \in DOMAIN @ |-> IF k \in q.d .. q.d + q.n - 1 THEN q.datos[k - q.d + 1] ELSE @[k]]]
        /\ quiere' = [quiere EXCEPT ![p] = Nada]
        /\ UNCHANGED leido

\* The read of a process that is suspended meanwhile is late.
Envejece(p) ==
    /\ quiere[p].op = "leer"
    /\ quiere' = [quiere EXCEPT ![p] = [op |-> "leer_ajeno", n |-> quiere[p].n]]
    /\ UNCHANGED <<contenido, leido>>

LeeAjeno(p) ==
    /\ quiere[p].op \in {"leer_ajeno", "copiar_ajeno"}
    /\ leido' = [leido EXCEPT ![p] = leido'[p]] /\ leido'[p] \in [1 .. quiere[p].n -> Valor]
    /\ quiere' = [quiere EXCEPT ![p] =
           IF @.op = "leer_ajeno" THEN Nada ELSE [op |-> "escribir_ajeno", n |-> @.n]]
    /\ UNCHANGED contenido

\* Nobody's segments come, go or change their size.
EscribeAjeno(p) ==
    /\ quiere[p].op = "escribir_ajeno"
    /\ quiere' = [quiere EXCEPT ![p] = Nada]
    /\ \A q \in Pid :
        /\ DOMAIN contenido'[q] = DOMAIN contenido[q]
        /\ \A nro \in DOMAIN contenido[q] :
               contenido'[q][nro] \in [DOMAIN contenido[q][nro] -> Valor]
    /\ contenido' = [q \in Pid |-> [nro \in DOMAIN contenido[q] |-> contenido'[q][nro]]]
    /\ UNCHANGED leido

Next == \E p \in Pid :
    \/ Pide(p) \/ Lee(p) \/ Escribe(p) \/ Termina(p)
    \/ \E nro \in Nro : Crea(p, nro) \/ Pierde(p, nro)
    \/ Envejece(p) \/ LeeAjeno(p) \/ EscribeAjeno(p)

Spec == Init /\ [][Next]_vars

=============================================================================

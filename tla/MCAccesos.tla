------------------------------ MODULE MCAccesos ------------------------------
(* Instances of Accesos for TLC: two sticks, the second after the first.      *)
EXTENDS Accesos, TLC

CONSTANTS p1, p2, s1, s2

Simetria == Permutations(Pid)
Tamanios == (s1 :> 3) @@ (s2 :> 1)
Segmentos == {<<0, 3>>, <<0, 2>>, <<1, 2>>}
Bases == (s1 :> 0) @@ (s2 :> 3)

=============================================================================
